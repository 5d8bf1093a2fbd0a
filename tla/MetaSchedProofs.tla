-------------------------- MODULE MetaSchedProofs ---------------------------
(***************************************************************************)
(* For any resources, jobs, dates and failures: what the rounds of the     *)
(* metascheduler write in the gantt, launch, kill and answer. The          *)
(* invariant follows a round: what the slots take covers the jobs that run *)
(* and those that have a place; so the places that the round adds are      *)
(* apart from them; and so are, at the launch, the jobs whose date has     *)
(* come. Between two commits of a launch the job has its place as it was   *)
(* read; one whose launch is cut is left out of what follows.              *)
(***************************************************************************)
EXTENDS MetaSched, FiniteSetTheorems, TLAPS

PhasesOf == {"rest", "plan", "waiting", "new", "launch", "started", "answer"}

StatesOf == {"none", "Waiting", "toLaunch", "toAckReservation", "toError", "Error", "Terminated"}

JobRows == [state : StatesOf, resa : {"None", "toSchedule", "Scheduled"},
            start : Int, walltime : Int, res : SUBSET Resources]

(* The commits of a launch *)
LaunchSteps == {"walltime", "gantt", "start", "rows"}

Doings == [job : Jobs, at : LaunchSteps \cup {"state", "told"}, start : Nat]

Typed ==
  /\ now \in 0..Horizon /\ fails \in Nat /\ crashes \in Nat
  /\ up \in [Resources -> {"Alive", "Absent", "Suspected"}]
  /\ job \in [Jobs -> JobRows]
  /\ DOMAIN gantt \subseteq Jobs /\ gantt \in [DOMAIN gantt -> GanttJobsPrediction]
  /\ DOMAIN plan \subseteq Jobs /\ plan \in [DOMAIN plan -> GanttJobsPrediction]
  /\ oarsub \in [Reservations -> {"none", "waits", "left", "GOOD", "BAD"}]
  /\ fragged \subseteq Jobs /\ todo \subseteq Jobs /\ seen \subseteq Resources
  /\ phase \in PhasesOf /\ queue \in {"default", "besteffort"}
  /\ slots \subseteq [from : Int, to : Int, res : SUBSET Resources, be : BOOLEAN]
  /\ holders \subseteq [job : Jobs, res : SUBSET Resources]
  /\ cut \subseteq Jobs /\ doing \in Doings \cup {NotDoing}

Pending == {"Waiting", "toAckReservation"}

(* The job that is being launched *)
InLaunch(j) == doing.at \in LaunchSteps /\ doing.job = j

StateIsSound(j) ==
  /\ job[j].resa = "None" <=> j \notin Reservations
  /\ job[j].state = "none" => job[j].resa # "Scheduled" /\ j \notin DOMAIN gantt \cup DOMAIN plan \cup todo
  /\ job[j].state \in {"toAckReservation", "toError"} => j \in Reservations
  /\ job[j].state = "toAckReservation" => job[j].resa = "Scheduled" \/ Mid(j, "state") \/ j \in cut
  /\ job[j].state \in Pending \cup {"none"} /\ j \notin cut /\ ~InLaunch(j) =>
       job[j].walltime = Walltime[j] /\ job[j].res = {}
  /\ job[j].start >= 0 /\ job[j].start <= now
  /\ (j \notin cut => job[j].walltime \in 0..(Walltime[j] + Security))
  /\ j \in Reservations /\ (j \in DOMAIN gantt \cup DOMAIN plan \/ job[j].state = "toLaunch")
       => job[j].resa = "Scheduled" \/ Mid(j, "state")
  /\ j \in Reservations \ cut /\ oarsub[j] = "GOOD" /\ job[j].state \in Pending => job[j].resa = "Scheduled"

(* The states of a job, its kind, its dates and what is planned for it *)
StatesAreSound == \A j \in Jobs : StateIsSound(j)

(* From the beginning of a round to its last launch *)
InRound == phase \in {"plan", "waiting", "new", "launch", "started"}

Planning == phase \in {"plan", "waiting", "new"}

(* A job that waits and has a place; its row, saved or not *)
Placed(j) == job[j].state \in Pending /\ j \in DOMAIN gantt \cup DOMAIN plan

(* Its row in the gantt, as it was read for its launch *)
Held(j) == IF InLaunch(j) THEN [gantt[j] EXCEPT !.start = doing.start] ELSE gantt[j]

Row(j) == IF j \in DOMAIN plan THEN plan[j] ELSE Held(j)

(* What a round reads and plans, from a phase to the next *)
ReadIsSound ==
  /\ phase = "rest" => todo = {}
  /\ phase \notin {"plan", "new"} => plan = Nothing
  /\ InRound => \A j \in todo : job[j].state \in {"Waiting", "Error", "Terminated"}
  /\ phase = "answer" => \A j \in todo : job[j].state \in {"toAckReservation", "toError", "Error", "Terminated"}
  /\ phase \in {"plan", "new"} => /\ DOMAIN plan \cap DOMAIN gantt = {}
                                  /\ todo \cap (DOMAIN gantt \cup DOMAIN plan) = {}

PhaseIsSound ==
  /\ phase = "plan" => \A j \in todo \cup DOMAIN plan : j \notin Reservations /\ Queue[j] = queue
  /\ phase \in {"waiting", "new"} => queue = "default" /\ todo \subseteq Reservations
  /\ phase = "waiting" => \A j \in todo : j \in DOMAIN gantt /\ job[j].resa = "Scheduled"
  /\ phase = "new" => \A j \in DOMAIN plan :
                        j \in Reservations /\ plan[j].start >= now /\ job[j].state # "Waiting"
  /\ phase = "started" => \A j \in todo :
                            j \in DOMAIN gantt /\ gantt[j].start <= now /\ gantt[j].res # {}

(* The jobs that the round itself has planned *)
PlannedIsSound ==
  InRound => \A j \in Jobs \ Reservations : Placed(j) =>
    /\ Row(j).start >= now
    /\ Planning => Row(j).res \subseteq seen
    /\ Queue[j] = "besteffort" => ~(Planning /\ queue = "default")

(* A late reservation between the commits of its launch, and another job *)
LateLaunch(j) ==
  /\ job[j].resa = "Scheduled" /\ doing.start < now
  /\ gantt[j].start = (IF doing.at = "walltime" THEN doing.start ELSE now)
  /\ job[j].walltime = Walltime[j] + Security - (now - doing.start)

OtherLaunch(j) ==
  /\ doing.at # "gantt" /\ doing.at # "walltime"
  /\ doing.start = now /\ gantt[j].start = now /\ job[j].walltime = Walltime[j]

LaunchIsSound(j) ==
  /\ LateLaunch(j) \/ OtherLaunch(j)
  /\ doing.at \in {"start", "rows"} => job[j].start = now
  /\ job[j].res = (IF doing.at = "rows" THEN gantt[j].res ELSE {})

(* The reservation that is decided, or the job that is answered *)
MarkIsSound ==
  /\ doing.at = "state" => /\ phase = "new" /\ doing.job \in Reservations \ DOMAIN gantt
                           /\ job[doing.job].state \in {"toAckReservation", "toError", "Error", "Terminated"}
  /\ doing.at = "told" => phase = "answer" /\ doing.job \in todo

(* The job between two commits *)
DoingIsSound ==
  /\ MarkIsSound
  /\ doing.at \in LaunchSteps => phase = "started" /\ doing.job \in todo /\ doing.start <= now
  /\ \A j \in Jobs \ cut : InLaunch(j) /\ job[j].state = "Waiting" => LaunchIsSound(j)

RoundIsSound == ReadIsSound /\ PhaseIsSound /\ PlannedIsSound /\ DoingIsSound

(* Some slots take what a job has, until the security time after its end,  *)
(* on the resources that the round sees                                    *)
Covers(taken, sight, start, walltime, res, low) ==
  \/ res \cap sight = {}
  \/ \E s \in taken : /\ s.from <= start /\ start + walltime + Security <= s.to + 1
                      /\ res \cap sight \subseteq s.res
                      /\ s.be = low

Low(j) == Queue[j] = "besteffort"

SlotsCover ==
  Planning => \A j \in Jobs \ cut :
    /\ job[j].state = "toLaunch" =>
         Covers(slots, seen, job[j].start, job[j].walltime, job[j].res, Low(j))
    /\ Placed(j) => Covers(slots, seen, Row(j).start, Walltime[j], Row(j).res, Low(j))

Apart(r, s) == r \cap s = {}

(* A job that the round has planned, and another that waits. When there is *)
(* room for a reservation, the security time after it is not looked at:    *)
(* it is accepted while the job that follows waits.                        *)
ApartFromPlaced(c, j) ==
  \/ Apart(Row(c).res, Row(j).res)
  \/ Row(c).start + Walltime[c] + Security <= Row(j).start
  \/ Row(j).start + Walltime[j] + Security <= Row(c).start
  \/ /\ job[j].state = "toAckReservation"
     /\ now <= Row(j).start /\ Row(j).start + Walltime[j] < Row(c).start

(* A job that the round has planned, and another that runs: a reservation  *)
(* that is launched late has the security time in its walltime.            *)
ApartFromLaunched(c, j) ==
  \/ Apart(Row(c).res, job[j].res)
  \/ job[j].start + job[j].walltime + Security <= Row(c).start
  \/ job[j].start = now /\ job[j].start + job[j].walltime <= Row(c).start

(* Jobs of the default queue do not look at those of the besteffort queue *)
LooksAt(c, j) == Low(c) \/ ~Low(j)

RoundIsApart ==
  InRound => \A c \in Jobs \ (Reservations \cup cut) : \A j \in Jobs \ ({c} \cup cut) :
    Placed(c) /\ LooksAt(c, j) =>
      /\ Placed(j) => ApartFromPlaced(c, j)
      /\ job[j].state = "toLaunch" => ApartFromLaunched(c, j)

(* A reservation that has a place, and another, or a job that runs *)
Before(k, i) ==
  \/ Row(k).start + Walltime[k] + Security <= Row(i).start
  \/ Row(k).start + Walltime[k] < Row(i).start

ReservedFromPlaced(k, j) == Apart(Row(k).res, Row(j).res) \/ Before(k, j) \/ Before(j, k)

ReservedFromLaunched(k, j) ==
  \/ Apart(Row(k).res, job[j].res)
  \/ job[j].start + job[j].walltime + Security <= Row(k).start
  \/ Row(k).start + Walltime[k] + Security <= job[j].start
  \/ /\ j \in Reservations
     /\ \/ job[j].start + job[j].walltime < Row(k).start + Security
        \/ Row(k).start + Walltime[k] < job[j].start

ReservedIsApart ==
  fails = 0 => \A k \in Reservations \ cut : \A j \in Jobs \ ({k} \cup cut) :
    Placed(k) =>
      /\ j \in Reservations /\ Placed(j) => ReservedFromPlaced(k, j)
      /\ job[j].state = "toLaunch" /\ ~Low(j) => ReservedFromLaunched(k, j)

(* After handle_waiting_reservation_jobs no reservation is too late *)
NotExpired(j) == now <= gantt[j].start + Walltime[j] + Security

LookedAt(j) ==
  \/ phase = "waiting" /\ j \notin todo
  \/ phase = "plan" /\ queue = "besteffort"
  \/ phase \in {"new", "launch", "started"}

ReservationsAreInTime ==
  \A j \in Reservations \ cut :
    job[j].state = "Waiting" /\ j \in DOMAIN gantt /\ gantt[j].res # {} /\ LookedAt(j) => NotExpired(j)

(* As long as nothing fails a round sees all the resources, and the gantt  *)
(* has the jobs that run as they are.                                      *)
NodesAreUp == \A r \in Resources : up[r] # "Suspected" /\ (up[r] = "Absent" => r \in Asleep)

SeesAll == phase \in {"plan", "waiting", "new", "launch"} => seen = Resources

GanttHasRunning ==
  \A j \in Jobs \ cut : job[j].state = "toLaunch" =>
    j \in DOMAIN gantt /\ gantt[j].start = job[j].start /\ gantt[j].res = job[j].res

NothingFails == fails = 0 => NodesAreUp /\ SeesAll /\ GanttHasRunning

(* A reservation that was accepted has resources, saved or not yet *)
GrantedHasPlace ==
  crashes + fails = 0 => \A j \in Reservations :
    \/ job[j].state = "toAckReservation"
    \/ job[j].state = "Waiting" /\ job[j].resa = "Scheduled"
    =>
      \/ j \in DOMAIN gantt /\ gantt[j].res # {}
      \/ phase = "new" /\ j \in DOMAIN plan /\ plan[j].res # {}

AnswersAreDue == phase = "answer" => Unanswered \subseteq todo \cup fragged

(* What the besteffort jobs hold is known to the round, and no job that it *)
(* launches meets it                                                       *)
HoldersAreKnown ==
  fails = 0 /\ phase \in {"plan", "waiting", "new", "launch"} =>
    \A b \in Jobs \ cut : job[b].state = "toLaunch" /\ Low(b) =>
      \E h \in holders : h.job = b /\ h.res = job[b].res

ToLaunchIsClear ==
  fails = 0 /\ Asleep = {} /\ phase = "started" =>
    \A j \in todo \ cut : \A b \in Jobs \ cut :
      job[j].state = "Waiting" /\ ~Low(j) /\ job[b].state = "toLaunch" /\ Low(b) =>
        Apart(gantt[j].res, job[b].res) \/ Held(j).start + Walltime[j] + Security <= now

(* Only a round that ends before its time cuts anything *)
NothingIsCut == crashes = 0 => cut = {}

IInv ==
  /\ Typed /\ StatesAreSound /\ RoundIsSound /\ NothingIsCut
  /\ SlotsCover /\ RoundIsApart /\ ReservedIsApart
  /\ ReservationsAreInTime /\ NothingFails
  /\ GrantedHasPlace /\ AnswersAreDue
  /\ HoldersAreKnown /\ ToLaunchIsClear
  /\ OneJobPerResource /\ (fails = 0 => PlansDisjoint)

-----------------------------------------------------------------------------
(* The operators of the model *)

LEMMA Settings ==
  /\ Security \in Nat /\ WaitTimeout \in Nat /\ KillBefore \in Nat
  /\ Horizon \in Nat /\ MaxFaults \in Nat
BY SettingsAssumption

LEMMA JobSettings ==
  ASSUME NEW j \in Jobs
  PROVE  /\ Walltime[j] \in Nat /\ Walltime[j] > 0
         /\ Queue[j] \in {"default", "besteffort"}
         /\ j \in Reservations => Queue[j] = "default" /\ ResaStart[j] \in Nat
BY JobsAssumption DEF Reservations

LEMMA FromIsLater ==
  ASSUME Typed, NEW j \in Reservations
  PROVE  From(j) \in Nat /\ From(j) >= now
<1>1. ResaStart[j] \in Nat /\ now \in Nat
  BY JobsAssumption, Settings DEF Reservations, Typed
<1>2. CASE ResaStart[j] >= now
  <2>1. ResaStart[j] \in {ResaStart[j], now} /\ \A y \in {ResaStart[j], now} : ResaStart[j] >= y
    BY <1>1, <1>2
  <2> QED
    BY <1>1, <2>1 DEF From, Max
<1>3. CASE now >= ResaStart[j]
  <2>1. now \in {ResaStart[j], now} /\ \A y \in {ResaStart[j], now} : now >= y
    BY <1>1, <1>3
  <2> QED
    BY <1>1, <2>1 DEF From, Max
<1> QED
  BY <1>1, <1>2, <1>3

LEMMA StartsAreLater ==
  ASSUME Typed, NEW j \in Jobs, NEW start \in Starts(j)
  PROVE  start \in Nat /\ start >= now
BY Settings DEF Starts, Typed

LEMMA PlaceIsSeen ==
  ASSUME Typed, NEW from, NEW to, NEW k, NEW res \in kSubset(k, Free(from, to))
  PROVE  res \subseteq seen /\ Cardinality(res) = k
BY DEF kSubset, Free

LEMMA SomeResource ==
  ASSUME NEW j \in Jobs, NEW S, NEW res \in kSubset(Width[j], S)
  PROVE  res # {}
<1>1. Width[j] \in 1..Cardinality(Resources)
  BY JobsAssumption
<1>2. Width[j] # 0
  BY <1>1
<1> QED
  BY <1>2, FS_EmptySet DEF kSubset

(* What set_job_state does, for one job *)
LEMMA SetStateRows ==
  ASSUME Typed, NEW j \in Jobs, NEW state \in StatesOf
  PROVE  /\ SetState({j}, state) \in [Jobs -> JobRows]
         /\ \A i \in Jobs : SetState({j}, state)[i] =
              IF i = j /\ job[j].state \notin {"Error", "Terminated"}
              THEN [job[i] EXCEPT !.state = state] ELSE job[i]
BY DEF SetState, Over, In, Typed, JobRows

LEMMA SlotTyped ==
  ASSUME Typed, NEW j \in Jobs, NEW start \in Int, NEW res \in SUBSET Resources
  PROVE  Taken(j, start, res) \in [from : Int, to : Int, res : SUBSET Resources, be : BOOLEAN]
BY Settings DEF Taken, Typed, JobRows

LEMMA MappedTyped ==
  ASSUME NEW res \in SUBSET Resources, NEW set
  PROVE  Mapped(res, set) \subseteq Resources
BY ResourcesAssumption DEF Mapped

LEMMA WrittenTyped ==
  ASSUME NEW res \in SUBSET Resources, NEW set
  PROVE  Written(res, set) \subseteq Resources
BY MappedTyped DEF Written

(* The rows of the jobs that have resources *)
LEMMA CurrentTyped ==
  ASSUME Typed, StatesAreSound
  PROVE  /\ DOMAIN Current \subseteq Jobs
         /\ \A j \in DOMAIN Current : Current[j] \in GanttJobsPrediction
BY WrittenTyped DEF Current, In, Typed, JobRows, GanttJobsPrediction, GanttJobsResource, StatesAreSound, StateIsSound

(* The rows of the gantt, with those that are saved *)
LEMMA SavedRows ==
  ASSUME Typed
  PROVE  /\ DOMAIN Saved = DOMAIN gantt \cup DOMAIN plan
         /\ DOMAIN Saved \subseteq Jobs /\ Saved \in [DOMAIN Saved -> GanttJobsPrediction]
         /\ \A j \in DOMAIN Saved : Saved[j] = IF j \in DOMAIN plan THEN plan[j] ELSE gantt[j]
BY DEF Saved, Typed

(* What a launch writes in the row of a job *)
LEMMA RowWritten ==
  ASSUME Typed, NEW j \in Jobs, NEW row \in JobRows
  PROVE  /\ WithRow(j, row) \in [Jobs -> JobRows]
         /\ \A i \in Jobs \ {j} : WithRow(j, row)[i] = job[i]
         /\ job[j].state \in {"Error", "Terminated"} => WithRow(j, row)[j] = job[j]
         /\ job[j].state \notin {"Error", "Terminated"} => WithRow(j, row)[j] = row
BY DEF WithRow, Over, In, Typed

(* The rows of the gantt for the job that is launched *)
LEMMA HeldRow ==
  ASSUME Typed, NEW j \in DOMAIN gantt
  PROVE  /\ Held(j).res = gantt[j].res /\ Held(j).res \in SUBSET Resources
         /\ Held(j).start = (IF InLaunch(j) THEN doing.start ELSE gantt[j].start)
         /\ Held(j).start \in Nat
<1>1. gantt[j] \in GanttJobsPrediction /\ doing \in Doings \cup {NotDoing}
  BY DEF Typed
<1>2. InLaunch(j) => doing.start \in Nat
  BY <1>1 DEF InLaunch, Doings, NotDoing, LaunchSteps
<1> QED
  BY <1>1, <1>2 DEF Held, GanttJobsPrediction, GanttJobsResource

-----------------------------------------------------------------------------
(* Types *)

LEMMA InitTyped == Init => Typed
BY JobSettings, Settings
   DEF Init, Typed, JobRows, StatesOf, PhasesOf, Nothing, GanttJobsPrediction, GanttJobsResource, Reservations

(* The tables that the users, the nodes and the jobs write in *)
LEMMA EnvironmentTyped ==
  ASSUME Typed, Environment
  PROVE  Typed'
<1> USE Settings
<1>1. ASSUME NEW j \in Jobs, Submit(j) PROVE Typed'
  BY <1>1 DEF Typed, Submit, world, round, cuts, JobRows, StatesOf
<1>2. ASSUME NEW j \in Jobs, Leave(j) PROVE Typed'
  <2>1. Walltime[j] \in Int
    BY JobSettings
  <2>2. job' \in [Jobs -> JobRows]
    BY <1>2, <2>1 DEF Typed, Leave, JobRows, StatesOf
  <2> QED
    BY <1>2, <2>2 DEF Typed, Leave, world, round, cuts
<1>3. ASSUME NEW j \in Reservations, Hangup(j) PROVE Typed'
  BY <1>3 DEF Typed, Hangup, world, round, cuts
<1>4. ASSUME NEW r \in Resources, Fail(r) PROVE Typed'
  BY <1>4 DEF Typed, Fail, base, round, cuts
<1>5. ASSUME NEW r \in Resources, Return(r) PROVE Typed'
  BY <1>5 DEF Typed, Return, base, round, cuts
<1>6. ASSUME Tick PROVE Typed'
  BY <1>6 DEF Typed, Tick, base, round, cuts
<1> QED
  BY <1>1, <1>2, <1>3, <1>4, <1>5, <1>6 DEF Environment

(* What a round leaves behind *)
LEMMA LeavingTyped ==
  ASSUME Typed, Leaving, UNCHANGED <<world, base>>, crashes' \in Nat, cut' \subseteq Jobs
  PROVE  Typed'
BY DEF Typed, Leaving, world, base, PhasesOf, Nothing

(* The job that is launched is one of those that were read *)
LEMMA LaunchGantt ==
  ASSUME RoundIsSound, NEW j \in Jobs,
         SetMaxTime(j) \/ SetGanttStart(j) \/ SetStart(j) \/ AddPairs(j) \/ Launch(j)
  PROVE  /\ phase = "started" /\ j \in todo /\ j \in DOMAIN gantt
         /\ gantt[j].start <= now /\ gantt[j].res # {}
         /\ job[j].state \in {"Waiting", "Error", "Terminated"}
<1>1. phase = "started" /\ j \in todo
  BY DEF SetMaxTime, SetGanttStart, SetStart, AddPairs, Launch, ToDo, Mid, RoundIsSound, DoingIsSound, LaunchSteps
<1> QED
  BY <1>1 DEF RoundIsSound, PhaseIsSound, ReadIsSound, InRound

LEMMA DoingTyped ==
  ASSUME Typed, NEW j \in Jobs, j \in DOMAIN gantt,
         SetMaxTime(j) \/ SetGanttStart(j) \/ SetStart(j) \/ AddPairs(j) \/ Launch(j)
  PROVE  doing' \in Doings \cup {NotDoing}
<1>1. gantt[j].start \in Nat
  BY DEF Typed, GanttJobsPrediction
<1>2. \A at \in LaunchSteps : LaunchFrom(j, at) \in Doings
  BY <1>1 DEF LaunchFrom, Doings
<1>3. doing.at \in LaunchSteps => \A at \in LaunchSteps : Then(at) \in Doings
  BY DEF Then, Doings, Typed, NotDoing, LaunchSteps
<1> QED
  BY <1>2, <1>3 DEF SetMaxTime, SetGanttStart, SetStart, AddPairs, Launch, Mid, LaunchSteps

LEMMA LaunchTyped ==
  ASSUME Typed, NEW j \in Jobs, j \in DOMAIN gantt,
         SetMaxTime(j) \/ SetGanttStart(j) \/ SetStart(j) \/ AddPairs(j) \/ Launch(j)
  PROVE  job' \in [Jobs -> JobRows]
<1>1. /\ now \in Int /\ job[j] \in JobRows
      /\ gantt[j].start \in Int /\ gantt[j].res \in SUBSET Resources
  BY DEF Typed, GanttJobsPrediction, GanttJobsResource
<1>2. NewWalltime(j) \in Int
  BY <1>1, Settings DEF NewWalltime, JobRows
<1>3. CASE SetMaxTime(j)
  <2>1. [job[j] EXCEPT !.walltime = NewWalltime(j)] \in JobRows
    BY <1>1, <1>2 DEF JobRows
  <2> QED
    BY <1>3, <2>1, RowWritten DEF SetMaxTime
<1>4. CASE SetGanttStart(j)
  BY <1>4 DEF SetGanttStart, Typed
<1>5. CASE SetStart(j)
  <2>1. [job[j] EXCEPT !.start = now] \in JobRows
    BY <1>1 DEF JobRows
  <2> QED
    BY <1>5, <2>1, RowWritten DEF SetStart
<1>6. CASE AddPairs(j)
  <2>1. [job[j] EXCEPT !.res = @ \cup gantt[j].res] \in JobRows
    BY <1>1 DEF JobRows
  <2> QED
    BY <1>6, <2>1, RowWritten DEF AddPairs
<1>7. CASE Launch(j)
  BY <1>7, SetStateRows DEF Launch, StatesOf
<1> QED
  BY <1>3, <1>4, <1>5, <1>6, <1>7

LEMMA RoundTyped ==
  ASSUME Typed, StatesAreSound, RoundIsSound, Round
  PROVE  Typed'
<1> USE Settings
<1> USE DEF PhasesOf, cuts
<1>1. ASSUME Begin PROVE Typed'
  <2>1. /\ DOMAIN gantt' \subseteq Jobs /\ gantt' \in [DOMAIN gantt' -> GanttJobsPrediction]
        /\ \A j \in DOMAIN gantt' : gantt'[j].start \in Int /\ Mapped(gantt'[j].res, Seen) \in SUBSET Resources
    <3>1. gantt' = [j \in Kept \cup DOMAIN Current |-> IF j \in Kept THEN gantt[j] ELSE Current[j]]
      BY <1>1 DEF Begin
    <3>2. Kept \subseteq DOMAIN gantt
      BY DEF Kept
    <3> HIDE DEF Kept, Current
    <3>3. DOMAIN gantt' \subseteq Jobs /\ \A j \in DOMAIN gantt' : gantt'[j] \in GanttJobsPrediction
      BY <3>1, <3>2, CurrentTyped DEF Typed
    <3>4. gantt' \in [DOMAIN gantt' -> GanttJobsPrediction]
      BY <3>1, <3>3
    <3> QED
      BY <3>3, <3>4, MappedTyped DEF GanttJobsPrediction, GanttJobsResource
  <2>2. slots' \subseteq [from : Int, to : Int, res : SUBSET Resources, be : BOOLEAN]
    <3>1. ASSUME NEW s \in slots' PROVE s \in [from : Int, to : Int, res : SUBSET Resources, be : BOOLEAN]
      <4>1. PICK j \in DOMAIN gantt' : s = Taken(j, gantt'[j].start, Mapped(gantt'[j].res, Seen))
        BY <1>1 DEF Begin
      <4> QED
        BY <2>1, <4>1, SlotTyped
    <3> QED
      BY <3>1
  <2>3. holders' \subseteq [job : Jobs, res : SUBSET Resources]
    <3>1. ASSUME NEW h \in holders' PROVE h \in [job : Jobs, res : SUBSET Resources]
      <4>1. PICK j \in DOMAIN gantt' : h = [job |-> j, res |-> Mapped(gantt'[j].res, Seen)]
        BY <1>1 DEF Begin
      <4> QED
        BY <2>1, <4>1
    <3> QED
      BY <3>1
  <2>4. plan' \in [DOMAIN plan' -> GanttJobsPrediction] /\ DOMAIN plan' \subseteq Jobs
    BY <1>1 DEF Begin, Nothing
  <2>5. Seen \subseteq Resources /\ Read("default", "None") \subseteq Jobs
    BY DEF Seen, Read, In
  <2> QED
    BY <1>1, <2>1, <2>2, <2>3, <2>4, <2>5 DEF Typed, Begin, world
<1>2. ASSUME SavePlan PROVE Typed'
  <2>1. gantt' = Saved /\ plan' = Nothing /\ slots' \in {slots, {}} /\ phase' \in PhasesOf
    BY <1>2 DEF SavePlan
  <2>2. todo' \subseteq Jobs
    BY <1>2 DEF SavePlan, Accepted, Read, In
  <2> HIDE DEF PhasesOf
  <2> QED
    BY <1>2, <2>1, <2>2, SavedRows DEF Typed, SavePlan, world, Nothing
<1>3. ASSUME WaitingDone PROVE Typed'
  BY <1>3 DEF Typed, WaitingDone, world, base, Read, In
<1>4. ASSUME SaveNew PROVE Typed'
  BY <1>4, SavedRows DEF Typed, SaveNew, world, Read, In, Nothing
<1>5. ASSUME Decide PROVE Typed'
  <2>1. ToKill \subseteq Jobs /\ Ready \subseteq Jobs
    BY DEF Typed, ToKill, Ready, In
  <2> QED
    BY <1>5, <2>1 DEF Typed, Decide, world
<1>6. ASSUME Gather PROVE Typed'
  BY <1>6 DEF Typed, Gather, world, base, Unanswered, In
<1>7. ASSUME Finish \/ Raise PROVE Typed'
  BY <1>7, LeavingTyped DEF Finish, Raise, Typed
<1>8. ASSUME NEW j \in Jobs, Plan(j) PROVE Typed'
  <2>1. CASE UNCHANGED <<slots, plan>>
    BY <1>8, <2>1 DEF Plan, Typed, world, base
  <2>2. CASE ~UNCHANGED <<slots, plan>>
    <3>1. PICK start \in Starts(j) : \E res \in kSubset(Width[j], Place(j, start)) :
            /\ slots' = slots \cup {Taken(j, start, res)}
            /\ plan' = [i \in DOMAIN plan \cup {j} |-> IF i = j THEN [start |-> start, res |-> res] ELSE plan[i]]
      BY <1>8, <2>2 DEF Plan
    <3>2. PICK res \in kSubset(Width[j], Place(j, start)) :
            /\ slots' = slots \cup {Taken(j, start, res)}
            /\ plan' = [i \in DOMAIN plan \cup {j} |-> IF i = j THEN [start |-> start, res |-> res] ELSE plan[i]]
      BY <3>1
    <3>3. start \in Nat /\ res \in SUBSET Resources
      BY StartsAreLater, PlaceIsSeen DEF Place, Typed
    <3>4. Taken(j, start, res) \in [from : Int, to : Int, res : SUBSET Resources, be : BOOLEAN]
      BY <3>3, SlotTyped
    <3>5. DOMAIN plan' \subseteq Jobs /\ plan' \in [DOMAIN plan' -> GanttJobsPrediction]
      BY <3>2, <3>3 DEF Typed, GanttJobsPrediction, GanttJobsResource
    <3> QED
      BY <1>8, <3>2, <3>4, <3>5 DEF Plan, Typed, world, base
  <2> QED
    BY <2>1, <2>2
<1>9. ASSUME NEW j \in Jobs, WaitingReservation(j) PROVE Typed'
  <2>1. j \in DOMAIN gantt
    BY <1>9 DEF WaitingReservation, RoundIsSound, PhaseIsSound
  <2>2. job' \in [Jobs -> JobRows]
    BY <1>9, SetStateRows DEF WaitingReservation, Expire, Delay, Reduce, OnTime, Typed, StatesOf
  <2>3. DOMAIN gantt' \subseteq Jobs /\ gantt' \in [DOMAIN gantt' -> GanttJobsPrediction]
    <3>1. CASE Expire(j) \/ OnTime(j)
      BY <3>1 DEF Expire, OnTime, Typed
    <3>2. CASE Delay(j)
      BY <3>2, <2>1 DEF Delay, Moved, Typed, GanttJobsPrediction
    <3>3. CASE Reduce(j)
      BY <3>3, <2>1 DEF Reduce, Without, Typed, GanttJobsPrediction, GanttJobsResource
    <3> QED
      BY <1>9, <3>1, <3>2, <3>3 DEF WaitingReservation
  <2> QED
    BY <1>9, <2>2, <2>3 DEF WaitingReservation, Typed, world
<1>10. ASSUME NEW j \in Jobs, NewReservation(j) PROVE Typed'
  <2>1. j \in Reservations
    BY <1>10 DEF NewReservation, RoundIsSound, PhaseIsSound
  <2>2. job' \in [Jobs -> JobRows]
    <3>1. \A state \in StatesOf : SetState({j}, state) \in [Jobs -> JobRows]
      BY SetStateRows
    <3> QED
      BY <1>10, <3>1 DEF NewReservation, TooOld, Refuse, Accept, Decided, StatesOf
  <2>4. doing' \in Doings \cup {NotDoing}
    BY <1>10 DEF NewReservation, TooOld, Refuse, Accept, Decided, Typed, Doings
  <2>3. /\ slots' \subseteq [from : Int, to : Int, res : SUBSET Resources, be : BOOLEAN]
        /\ DOMAIN plan' \subseteq Jobs /\ plan' \in [DOMAIN plan' -> GanttJobsPrediction]
    <3>1. CASE TooOld(j) \/ Refuse(j)
      BY <3>1 DEF TooOld, Refuse, Typed
    <3>2. CASE Accept(j)
      <4>1. PICK res \in kSubset(Width[j], Room(j)) :
              /\ slots' = slots \cup {Taken(j, From(j), res)}
              /\ plan' = [i \in DOMAIN plan \cup {j} |->
                            IF i = j THEN [start |-> From(j), res |-> res] ELSE plan[i]]
        BY <3>2 DEF Accept
      <4>2. From(j) \in Nat /\ res \in SUBSET Resources
        BY <2>1, FromIsLater, PlaceIsSeen DEF Room, Typed
      <4>3. Taken(j, From(j), res) \in [from : Int, to : Int, res : SUBSET Resources, be : BOOLEAN]
        BY <4>2, SlotTyped
      <4> QED
        BY <4>1, <4>2, <4>3 DEF Typed, GanttJobsPrediction, GanttJobsResource
    <3> QED
      BY <1>10, <3>1, <3>2 DEF NewReservation
  <2> QED
    BY <1>10, <2>2, <2>3, <2>4 DEF NewReservation, Typed, world
<1>11. ASSUME NEW j \in Jobs, SetScheduled(j) PROVE Typed'
  <2>1. job' \in [Jobs -> JobRows]
    BY <1>11 DEF SetScheduled, Typed, JobRows
  <2> QED
    BY <1>11, <2>1 DEF SetScheduled, Typed, world
<1>12. ASSUME NEW j \in Jobs, SetMaxTime(j) \/ SetGanttStart(j) \/ SetStart(j) \/ AddPairs(j) \/ Launch(j) PROVE Typed'
  <2>1. j \in DOMAIN gantt
    BY <1>12, LaunchGantt
  <2>2. job' \in [Jobs -> JobRows]
    BY <1>12, <2>1, LaunchTyped
  <2>3. DOMAIN gantt' \subseteq Jobs /\ gantt' \in [DOMAIN gantt' -> GanttJobsPrediction]
    <3>1. CASE SetGanttStart(j)
      BY <3>1, <2>1 DEF SetGanttStart, Moved, Typed, GanttJobsPrediction
    <3>2. CASE ~SetGanttStart(j)
      BY <1>12, <3>2 DEF SetMaxTime, SetStart, AddPairs, Launch, Typed
    <3> QED
      BY <3>1, <3>2
  <2>4. doing' \in Doings \cup {NotDoing}
    BY <1>12, <2>1, DoingTyped
  <2>5. todo' \subseteq Jobs
    BY <1>12 DEF SetMaxTime, SetGanttStart, SetStart, AddPairs, Launch, Typed
  <2> QED
    BY <1>12, <2>2, <2>3, <2>4, <2>5 DEF SetMaxTime, SetGanttStart, SetStart, AddPairs, Launch, Typed, world
<1>13. ASSUME NEW j \in Jobs, Notify(j) PROVE Typed'
  <2>1. oarsub' \in [Reservations -> {"none", "waits", "left", "GOOD", "BAD"}]
    BY <1>13 DEF Notify, TellBad, TellGood, Tell, Typed
  <2>2. doing' \in Doings \cup {NotDoing}
    BY <1>13 DEF Notify, Doings
  <2> QED
    BY <1>13, <2>1, <2>2 DEF Notify, Typed, world
<1>14. ASSUME NEW j \in Jobs, Answer(j) PROVE Typed'
  <2>1. SetState({j}, "Error") \in [Jobs -> JobRows] /\ SetState({j}, "Waiting") \in [Jobs -> JobRows]
    BY SetStateRows DEF StatesOf
  <2>2. job' \in [Jobs -> JobRows]
    BY <1>14, <2>1 DEF Answer
  <2> QED
    BY <1>14, <2>2 DEF Answer, Typed, world
<1>15. ASSUME NEW j \in Jobs, Unheard(j) PROVE Typed'
  BY <1>15 DEF Unheard, Typed, world
<1> QED
  BY <1>1, <1>2, <1>3, <1>4, <1>5, <1>6, <1>7, <1>8, <1>9, <1>10, <1>11, <1>12, <1>13, <1>14, <1>15 DEF Round

LEMMA StepTyped == Typed /\ StatesAreSound /\ RoundIsSound /\ [Next]_vars => Typed'
<1>1. ASSUME Typed, Crash PROVE Typed'
  BY <1>1, LeavingTyped DEF Crash, Typed, world
<1>2. ASSUME Typed, UNCHANGED vars PROVE Typed'
  BY <1>2 DEF Typed, vars, world, base, round, cuts
<1> QED
  BY <1>1, <1>2, EnvironmentTyped, RoundTyped DEF Next

-----------------------------------------------------------------------------
(* What the actions do to the rows *)

IsOver(j) == job[j].state \in {"Error", "Terminated"}

LEMMA PendingWalltime ==
  ASSUME StatesAreSound, NEW j \in Jobs \ cut, job[j].state \in Pending, ~InLaunch(j)
  PROVE  job[j].walltime = Walltime[j]
BY DEF StatesAreSound, StateIsSound

LEMMA SubmitRows ==
  ASSUME Typed, NEW j \in Jobs, Submit(j)
  PROVE  /\ \A i \in Jobs \ {j} : job'[i] = job[i]
         /\ job[j].state = "none" /\ job'[j].state = "Waiting"
         /\ job'[j].resa = job[j].resa /\ job'[j].start = job[j].start
         /\ job'[j].walltime = job[j].walltime /\ job'[j].res = job[j].res
BY DEF Typed, Submit, JobRows

LEMMA LeaveRows ==
  ASSUME Typed, NEW j \in Jobs, Leave(j)
  PROVE  /\ \A i \in Jobs \ {j} : job'[i] = job[i]
         /\ job'[j].state \in {"Error", "Terminated"}
         /\ job'[j].resa = job[j].resa /\ job'[j].start = 0 /\ job'[j].walltime = Walltime[j]
BY DEF Typed, Leave

(* A job whose state alone may change *)
OnlyState(j, state) ==
  /\ \A i \in Jobs \ {j} : job'[i] = job[i]
  /\ IsOver(j) => job'[j] = job[j]
  /\ ~IsOver(j) => job'[j].state = state
  /\ job'[j].resa = job[j].resa /\ job'[j].start = job[j].start
  /\ job'[j].walltime = job[j].walltime /\ job'[j].res = job[j].res

LEMMA StateRows ==
  ASSUME Typed, NEW j \in Jobs, NEW state \in StatesOf, job' = SetState({j}, state)
  PROVE  OnlyState(j, state)
<1> DEFINE row == [job[j] EXCEPT !.state = state]
<1>1. row.state = state /\ row.resa = job[j].resa /\ row.start = job[j].start
      /\ row.walltime = job[j].walltime /\ row.res = job[j].res
  BY DEF Typed, JobRows
<1>2. job'[j] = IF IsOver(j) THEN job[j] ELSE row
  BY SetStateRows DEF IsOver
<1>3. \A i \in Jobs \ {j} : job'[i] = job[i]
  BY SetStateRows
<1> HIDE DEF row
<1> QED
  BY <1>1, <1>2, <1>3 DEF OnlyState

(* A reservation that is decided *)
LEMMA ScheduledRows ==
  ASSUME Typed, NEW j \in Jobs, SetScheduled(j)
  PROVE  /\ \A i \in Jobs \ {j} : job'[i] = job[i]
         /\ job'[j].resa = "Scheduled" /\ job'[j].state = job[j].state /\ job'[j].start = job[j].start
         /\ job'[j].walltime = job[j].walltime /\ job'[j].res = job[j].res
BY DEF SetScheduled, Typed, JobRows

(* The commits of a launch *)
LEMMA MaxTimeRows ==
  ASSUME Typed, RoundIsSound, NEW j \in Jobs, SetMaxTime(j)
  PROVE  /\ \A i \in Jobs \ {j} : job'[i] = job[i]
         /\ IsOver(j) => job'[j] = job[j]
         /\ ~IsOver(j) => job'[j].walltime = NewWalltime(j)
         /\ job'[j].state = job[j].state /\ job'[j].resa = job[j].resa
         /\ job'[j].start = job[j].start /\ job'[j].res = job[j].res
<1> DEFINE walltime == NewWalltime(j)
           row == [job[j] EXCEPT !.walltime = walltime]
<1>1. walltime \in Int
  <2>1. j \in DOMAIN gantt
    BY LaunchGantt
  <2> QED
    BY <2>1, Settings DEF NewWalltime, Typed, JobRows, GanttJobsPrediction
<1> HIDE DEF walltime
<1>2. /\ row \in JobRows /\ row.walltime = walltime
      /\ row.state = job[j].state /\ row.resa = job[j].resa
      /\ row.start = job[j].start /\ row.res = job[j].res
  BY <1>1 DEF Typed, JobRows
<1>3. job' = WithRow(j, row)
  BY DEF SetMaxTime, walltime
<1> HIDE DEF row
<1>4. walltime = NewWalltime(j)
  BY DEF walltime
<1> QED
  BY <1>2, <1>3, <1>4, RowWritten DEF IsOver

LEMMA StartRows ==
  ASSUME Typed, NEW j \in Jobs, SetStart(j)
  PROVE  /\ \A i \in Jobs \ {j} : job'[i] = job[i]
         /\ IsOver(j) => job'[j] = job[j]
         /\ ~IsOver(j) => job'[j].start = now
         /\ job'[j].state = job[j].state /\ job'[j].resa = job[j].resa
         /\ job'[j].walltime = job[j].walltime /\ job'[j].res = job[j].res
<1> DEFINE row == [job[j] EXCEPT !.start = now]
<1>1. /\ row \in JobRows /\ row.start = now
      /\ row.state = job[j].state /\ row.resa = job[j].resa
      /\ row.walltime = job[j].walltime /\ row.res = job[j].res
  BY DEF Typed, JobRows
<1>2. job' = WithRow(j, row)
  BY DEF SetStart
<1> HIDE DEF row
<1> QED
  BY <1>1, <1>2, RowWritten DEF IsOver

LEMMA PairsRows ==
  ASSUME Typed, RoundIsSound, NEW j \in Jobs, AddPairs(j)
  PROVE  /\ \A i \in Jobs \ {j} : job'[i] = job[i]
         /\ IsOver(j) => job'[j] = job[j]
         /\ ~IsOver(j) => job'[j].res = job[j].res \cup gantt[j].res
         /\ job'[j].state = job[j].state /\ job'[j].resa = job[j].resa
         /\ job'[j].start = job[j].start /\ job'[j].walltime = job[j].walltime
<1> DEFINE rows == job[j].res \cup gantt[j].res
           row == [job[j] EXCEPT !.res = @ \cup gantt[j].res]
<1>1. rows \in SUBSET Resources
  <2>1. j \in DOMAIN gantt
    BY LaunchGantt
  <2> QED
    BY <2>1 DEF Typed, JobRows, GanttJobsPrediction, GanttJobsResource
<1>2. row = [job[j] EXCEPT !.res = rows]
  OBVIOUS
<1> HIDE DEF rows
<1>3. /\ row \in JobRows /\ row.res = rows
      /\ row.state = job[j].state /\ row.resa = job[j].resa
      /\ row.walltime = job[j].walltime /\ row.start = job[j].start
  BY <1>1, <1>2 DEF Typed, JobRows
<1>4. job' = WithRow(j, row)
  BY DEF AddPairs
<1> HIDE DEF row
<1>5. rows = job[j].res \cup gantt[j].res
  BY DEF rows
<1> QED
  BY <1>3, <1>4, <1>5, RowWritten DEF IsOver

LEMMA GanttStartRows ==
  ASSUME Typed, RoundIsSound, NEW j \in Jobs, SetGanttStart(j)
  PROVE  /\ DOMAIN gantt' = DOMAIN gantt
         /\ \A i \in DOMAIN gantt \ {j} : gantt'[i] = gantt[i]
         /\ gantt'[j].res = gantt[j].res /\ gantt'[j].start = now
<1>1. j \in DOMAIN gantt
  BY LaunchGantt
<1> QED
  BY <1>1 DEF SetGanttStart, Moved, Typed, GanttJobsPrediction

(* A reservation that moves, or loses resources *)
LEMMA DelayRows ==
  ASSUME Typed, RoundIsSound, NEW j \in Jobs, WaitingReservation(j), Delay(j)
  PROVE  /\ j \in DOMAIN gantt /\ DOMAIN gantt' = DOMAIN gantt
         /\ \A i \in DOMAIN gantt \ {j} : gantt'[i] = gantt[i]
         /\ gantt'[j].res = gantt[j].res /\ gantt'[j].start = now + 1
         /\ gantt[j].res \cap seen = {}
<1>1. j \in DOMAIN gantt
  BY DEF WaitingReservation, RoundIsSound, PhaseIsSound
<1>2. gantt[j].res \cap seen = {}
  BY DEF Delay, Mapped
<1> QED
  BY <1>1, <1>2 DEF Delay, Moved, Typed, GanttJobsPrediction

LEMMA ReduceRows ==
  ASSUME Typed, RoundIsSound, NEW j \in Jobs, WaitingReservation(j), Reduce(j)
  PROVE  /\ j \in DOMAIN gantt /\ DOMAIN gantt' = DOMAIN gantt
         /\ \A i \in DOMAIN gantt \ {j} : gantt'[i] = gantt[i]
         /\ gantt'[j].start = gantt[j].start
         /\ gantt'[j].res = gantt[j].res \/ (gantt'[j].res = {} /\ Missing(j) # {})
<1>1. j \in DOMAIN gantt
  BY DEF WaitingReservation, RoundIsSound, PhaseIsSound
<1>2. CASE Missing(j) = {}
  <2>1. gantt' = gantt
    BY <1>2 DEF Reduce, Without
  <2> QED
    BY <1>1, <2>1
<1>3. CASE Missing(j) # {}
  <2>1. gantt' = [gantt EXCEPT ![j].res = {}]
    BY <1>3 DEF Reduce, Without
  <2> HIDE DEF Missing
  <2> QED
    BY <1>1, <1>3, <2>1 DEF Typed, GanttJobsPrediction
<1> QED
  BY <1>2, <1>3

(* The gantt at the beginning of a round *)
LEMMA BeginRows ==
  ASSUME Typed, StatesAreSound, Begin
  PROVE  /\ \A j \in DOMAIN gantt' : \/ /\ j \in DOMAIN gantt /\ j \in Reservations
                                        /\ job[j].state \in Pending /\ job[j].resa = "Scheduled"
                                        /\ gantt'[j] = gantt[j] /\ gantt[j].res # {}
                                     \/ /\ job[j].state = "toLaunch" /\ gantt'[j].start = job[j].start
                                        /\ gantt'[j].res = Written(job[j].res, Seen)
         /\ \A j \in Jobs : job[j].state = "toLaunch" => j \in DOMAIN gantt'
         /\ \A j \in DOMAIN gantt : /\ job[j].state \in Pending /\ job[j].resa = "Scheduled"
                                    /\ gantt[j].res # {}
                                    => j \in DOMAIN gantt'
<1>1. gantt' = [j \in Kept \cup DOMAIN Current |-> IF j \in Kept THEN gantt[j] ELSE Current[j]]
  BY DEF Begin
<1>2. \A j \in Kept : /\ j \in DOMAIN gantt /\ job[j].state \in Pending
                      /\ job[j].resa = "Scheduled" /\ gantt[j].res # {}
  BY DEF Kept, Pending
<1>3. \A j \in Kept : j \in Reservations
  BY <1>2 DEF Typed, StatesAreSound, StateIsSound
<1>4. \A j \in DOMAIN gantt :
        job[j].state \in Pending /\ job[j].resa = "Scheduled" /\ gantt[j].res # {} => j \in Kept
  BY DEF Kept, Pending
<1>5. DOMAIN Current = In("toLaunch")
  BY DEF Current
<1>6. \A j \in In("toLaunch") :
        /\ j \in Jobs /\ job[j].state = "toLaunch"
        /\ Current[j].start = job[j].start /\ Current[j].res = Written(job[j].res, Seen)
  BY DEF Current, In
<1>7. \A j \in Jobs : job[j].state = "toLaunch" => j \in In("toLaunch")
  BY DEF In
<1> HIDE DEF Kept, Current
<1> QED
  BY <1>1, <1>2, <1>3, <1>4, <1>5, <1>6, <1>7

(* A job that is planned *)
PlanAt(j, start, res) ==
  /\ slots' = slots \cup {Taken(j, start, res)}
  /\ DOMAIN plan' = DOMAIN plan \cup {j}
  /\ plan'[j].start = start /\ plan'[j].res = res
  /\ \A i \in DOMAIN plan \ {j} : plan'[i] = plan[i]

LEMMA PlanRows ==
  ASSUME Typed, NEW j \in Jobs, Plan(j), ~UNCHANGED <<slots, plan>>
  PROVE  \E start \in Nat : \E res \in SUBSET Place(j, start) :
           /\ start >= now /\ res # {} /\ res \subseteq seen /\ PlanAt(j, start, res)
<1>1. PICK start \in Starts(j) : \E res \in kSubset(Width[j], Place(j, start)) :
        /\ slots' = slots \cup {Taken(j, start, res)}
        /\ plan' = [i \in DOMAIN plan \cup {j} |-> IF i = j THEN [start |-> start, res |-> res] ELSE plan[i]]
  BY DEF Plan
<1>2. PICK res \in kSubset(Width[j], Place(j, start)) :
        /\ slots' = slots \cup {Taken(j, start, res)}
        /\ plan' = [i \in DOMAIN plan \cup {j} |-> IF i = j THEN [start |-> start, res |-> res] ELSE plan[i]]
  BY <1>1
<1>3. start \in Nat /\ start >= now
  BY StartsAreLater
<1>4. res # {}
  BY SomeResource
<1>5. res \subseteq seen
  BY PlaceIsSeen DEF Place
<1>6. res \in SUBSET Place(j, start)
  BY DEF kSubset
<1>7. PlanAt(j, start, res)
  BY <1>2 DEF PlanAt
<1> QED
  BY <1>3, <1>4, <1>5, <1>6, <1>7

LEMMA AcceptRows ==
  ASSUME Typed, NEW j \in Reservations, j \in Jobs, Accept(j)
  PROVE  /\ From(j) \in Nat /\ From(j) >= now
         /\ \E res \in SUBSET Room(j) : res # {} /\ res \subseteq seen /\ PlanAt(j, From(j), res)
<1>1. PICK res \in kSubset(Width[j], Room(j)) :
        /\ slots' = slots \cup {Taken(j, From(j), res)}
        /\ plan' = [i \in DOMAIN plan \cup {j} |-> IF i = j THEN [start |-> From(j), res |-> res] ELSE plan[i]]
  BY DEF Accept
<1>2. res # {}
  BY SomeResource
<1>3. res \subseteq seen
  BY PlaceIsSeen DEF Room
<1>4. res \in SUBSET Room(j)
  BY DEF kSubset
<1>5. PlanAt(j, From(j), res)
  BY <1>1 DEF PlanAt
<1> QED
  BY <1>2, <1>3, <1>4, <1>5, FromIsLater

-----------------------------------------------------------------------------
(* The states of the jobs *)

(* A round that ends before its answers are all given *)
Cuts ==
  /\ Leaving
  /\ crashes' >= crashes
  /\ crashes' > crashes \/ phase \in {"waiting", "started", "answer"}
  /\ cut \subseteq cut' /\ cut' \subseteq Jobs
  /\ \A i \in Jobs : /\ InLaunch(i) => i \in cut' \/ IsOver(i)
                     /\ Mid(i, "state") => i \in cut'
  /\ UNCHANGED <<world, base>>

LEMMA RoundEnds ==
  ASSUME Typed, RoundIsSound, Finish \/ Raise \/ Crash
  PROVE  Cuts
<1> USE DEF RoundIsSound, DoingIsSound, MarkIsSound, cuts
<1>1. CASE Finish
  <2>1. phase = "answer" /\ \A i \in Jobs : ~InLaunch(i) /\ ~Mid(i, "state")
    BY <1>1 DEF Finish, InLaunch, Mid
  <2> QED
    BY <1>1, <2>1 DEF Finish, Cuts, Typed
<1>2. CASE Raise /\ phase = "waiting"
  <2>1. \A i \in Jobs : ~InLaunch(i) /\ ~Mid(i, "state")
    BY <1>2 DEF InLaunch, Mid
  <2> QED
    BY <1>2, <2>1 DEF Raise, Cuts, Typed
<1>3. CASE Raise /\ phase # "waiting"
  <2>1. PICK j \in todo : Duplicates(j)
    BY <1>3 DEF Raise
  <2>2. doing.at = "start" /\ doing.job = j /\ InLaunch(j) /\ phase = "started" /\ j \in Jobs
    BY <2>1 DEF Duplicates, Mid, InLaunch, LaunchSteps, Typed
  <2>3. job[j].res # {}
    BY <2>1 DEF Duplicates
  <2>4. j \in cut \/ job[j].state # "Waiting"
    BY <2>2, <2>3 DEF LaunchIsSound
  <2>5. j \in cut \/ IsOver(j)
    BY <2>1, <2>2, <2>4 DEF ReadIsSound, InRound, IsOver
  <2>6. \A i \in Jobs : ~Mid(i, "state") /\ (InLaunch(i) => i = j)
    BY <2>2 DEF InLaunch, Mid
  <2> QED
    BY <1>3, <2>2, <2>5, <2>6 DEF Raise, Cuts, Typed
<1>4. CASE Crash
  <2>1. cut' = cut \cup {i \in Jobs : doing.at # "none" /\ doing.job = i}
    BY <1>4 DEF Crash
  <2>2. \A i \in Jobs : InLaunch(i) \/ Mid(i, "state") => i \in cut'
    BY <2>1 DEF InLaunch, Mid, LaunchSteps
  <2>3. crashes' > crashes
    BY <1>4 DEF Crash, Typed
  <2> QED
    BY <1>4, <2>1, <2>2, <2>3 DEF Crash, Cuts, Typed
<1> QED
  BY <1>1, <1>2, <1>3, <1>4

(* What a launched job gets is never negative: a reservation that is too   *)
(* late has been put in error before.                                      *)
LEMMA NewWalltimeBounded ==
  ASSUME Typed, StatesAreSound, RoundIsSound, ReservationsAreInTime,
         NEW j \in Jobs \ cut, SetMaxTime(j), ~IsOver(j)
  PROVE  NewWalltime(j) \in 0..(Walltime[j] + Security)
<1>1. /\ phase = "started" /\ job[j].state = "Waiting" /\ j \in DOMAIN gantt
      /\ gantt[j].start <= now /\ gantt[j].res # {}
  BY LaunchGantt DEF IsOver
<1>2. job[j].walltime = Walltime[j] /\ Walltime[j] \in Nat /\ Walltime[j] > 0 /\ Security \in Nat
  <2>1. ~InLaunch(j)
    BY DEF SetMaxTime, ToDo, Idle, InLaunch, LaunchSteps
  <2> QED
    BY <1>1, <2>1, PendingWalltime, JobSettings, Settings DEF Pending
<1>3. now \in Nat /\ gantt[j].start \in Nat
  BY <1>1, Settings DEF Typed, GanttJobsPrediction
<1>4. now <= gantt[j].start + Walltime[j] + Security
  <2>1. j \in Reservations
    BY JobsAssumption DEF SetMaxTime, Late, StatesAreSound, StateIsSound
  <2> QED
    BY <1>1, <2>1 DEF ReservationsAreInTime, LookedAt, NotExpired
<1> QED
  BY <1>1, <1>2, <1>3, <1>4 DEF NewWalltime

LEMMA EnvironmentStates ==
  ASSUME Typed, StatesAreSound, RoundIsSound, Environment
  PROVE  StatesAreSound'
<1> USE JobSettings, Settings
<1> USE DEF StatesAreSound, StateIsSound
<1>1. ASSUME NEW j \in Jobs, Submit(j) PROVE StatesAreSound'
  BY <1>1, SubmitRows DEF Submit, world, round, cuts, Pending, Mid, InLaunch
<1>2. ASSUME NEW j \in Jobs, Leave(j) PROVE StatesAreSound'
  <2>1. UNCHANGED <<now, gantt, plan, todo, cut, oarsub, doing>>
    BY <1>2 DEF Leave, world, round, cuts
  <2>2. ASSUME NEW i \in Jobs \ {j} PROVE StateIsSound(i)'
    BY <1>2, <2>1, <2>2, LeaveRows DEF Mid, InLaunch
  <2>3. now \in Nat /\ Walltime[j] \in 0..(Walltime[j] + Security)
    BY DEF Typed
  <2>4. StateIsSound(j)'
    BY <1>2, <2>1, <2>3, LeaveRows DEF Mid, InLaunch, Pending
  <2> QED
    BY <2>2, <2>4
<1>3. ASSUME NEW j \in Reservations, Hangup(j) PROVE StatesAreSound'
  BY <1>3 DEF Typed, Hangup, world, round, cuts, Mid, InLaunch
<1>4. ASSUME NEW r \in Resources, Fail(r) \/ Return(r) PROVE StatesAreSound'
  BY <1>4 DEF Fail, Return, base, round, cuts, Mid, InLaunch
<1>5. ASSUME Tick PROVE StatesAreSound'
  BY <1>5 DEF Tick, base, round, cuts, Mid, InLaunch, Typed, JobRows
<1> QED
  BY <1>1, <1>2, <1>3, <1>4, <1>5 DEF Environment

LEMMA CutStates ==
  ASSUME Typed, StatesAreSound, RoundIsSound, Cuts
  PROVE  StatesAreSound'
<1>1. /\ UNCHANGED <<now, job, gantt, oarsub>> /\ plan' = Nothing /\ todo' = {} /\ cut \subseteq cut'
      /\ doing'.at = "none"
  BY DEF Cuts, Leaving, world, base, NotDoing
<1>2. \A i \in Jobs : ~Mid(i, "state")' /\ ~InLaunch(i)'
  BY <1>1 DEF Mid, InLaunch, LaunchSteps
<1>3. ASSUME NEW i \in Jobs PROVE StateIsSound(i)'
  <2>1. StateIsSound(i)
    BY DEF StatesAreSound
  <2>2. InLaunch(i) => i \in cut' \/ job[i].state \notin Pending \cup {"none"}
    BY DEF Cuts, IsOver, Pending
  <2>3. Mid(i, "state") => i \in cut' /\ i \notin DOMAIN gantt /\ job[i].state # "toLaunch"
    BY DEF Cuts, Mid, RoundIsSound, DoingIsSound, MarkIsSound
  <2> QED
    BY <1>1, <1>2, <2>1, <2>2, <2>3 DEF StateIsSound, Nothing
<1> QED
  BY <1>3 DEF StatesAreSound

(* Between two commits of a launch *)
LEMMA CommitStates ==
  ASSUME Typed, StatesAreSound, RoundIsSound, ReservationsAreInTime, NEW j \in Jobs,
         SetMaxTime(j) \/ SetGanttStart(j) \/ SetStart(j) \/ AddPairs(j)
  PROVE  StatesAreSound'
<1>1. \A i \in Jobs : StateIsSound(i)
  BY DEF StatesAreSound
<1>2. /\ now \in Nat /\ UNCHANGED <<now, plan, todo, cut, oarsub>>
      /\ \A i \in Jobs : ~Mid(i, "state") /\ ~Mid(i, "state")' /\ (i # j => ~InLaunch(i) /\ ~InLaunch(i)')
      /\ InLaunch(j)'
  <2>1. doing'.job = j /\ doing'.at \in LaunchSteps
    BY DEF SetMaxTime, SetGanttStart, SetStart, AddPairs, LaunchFrom, Then, LaunchSteps, Mid, Typed, Doings, NotDoing
  <2>2. doing.at = "none" \/ (doing.at \in LaunchSteps /\ doing.job = j)
    <3>1. ToDo(j) \/ Mid(j, "walltime") \/ Mid(j, "gantt") \/ Mid(j, "start")
      BY DEF SetMaxTime, SetGanttStart, SetStart, AddPairs
    <3> QED
      BY <3>1 DEF ToDo, Idle, LaunchSteps, Mid
  <2>3. now \in Nat /\ UNCHANGED <<now, plan, todo, cut, oarsub>>
    BY Settings DEF SetMaxTime, SetGanttStart, SetStart, AddPairs, Typed, world, cuts
  <2> QED
    BY <2>1, <2>2, <2>3 DEF Mid, InLaunch, LaunchSteps
<1>3. DOMAIN gantt' = DOMAIN gantt /\ j \in DOMAIN gantt /\ job[j].state \in {"Waiting", "Error", "Terminated"}
  BY LaunchGantt, GanttStartRows DEF SetMaxTime, SetGanttStart, SetStart, AddPairs
<1>4. \A i \in Jobs \ {j} : job'[i] = job[i]
  BY MaxTimeRows, StartRows, PairsRows DEF SetGanttStart
<1>5. /\ job'[j].state = job[j].state /\ job'[j].resa = job[j].resa
      /\ job'[j].start = job[j].start \/ job'[j].start = now
  BY MaxTimeRows, StartRows, PairsRows DEF SetGanttStart, IsOver
<1>6. \/ job'[j].walltime = job[j].walltime
      \/ j \notin cut => job'[j].walltime \in 0..(Walltime[j] + Security)
  <2>1. CASE SetMaxTime(j)
    BY <2>1, MaxTimeRows, NewWalltimeBounded
  <2>2. CASE ~SetMaxTime(j)
    BY <2>2, StartRows, PairsRows DEF SetGanttStart, IsOver
  <2> QED
    BY <2>1, <2>2
<1>7. ASSUME NEW i \in Jobs \ {j} PROVE StateIsSound(i)'
  BY <1>1, <1>2, <1>3, <1>4, <1>7 DEF StateIsSound
<1>8. StateIsSound(j)'
  BY <1>1, <1>2, <1>3, <1>5, <1>6 DEF StateIsSound, Pending
<1> QED
  BY <1>7, <1>8 DEF StatesAreSound

LEMMA RoundStates ==
  ASSUME Typed, StatesAreSound, RoundIsSound, ReservationsAreInTime, Round
  PROVE  StatesAreSound'
<1> USE DEF StatesAreSound, StateIsSound, cuts
<1>1. ASSUME Begin PROVE StatesAreSound'
  <2>1. \A j \in Read("default", "None") : job[j].state = "Waiting"
    BY DEF Read, In
  <2>2. \A j \in Jobs : j \in DOMAIN gantt' => job[j].state # "none"
    BY <1>1, BeginRows DEF Pending
  <2>3. \A j \in Reservations : j \in DOMAIN gantt' => job[j].resa = "Scheduled"
    <3>1. \A j \in DOMAIN gantt' : job[j].resa = "Scheduled" \/ job[j].state = "toLaunch"
      BY <1>1, BeginRows
    <3>2. \A j \in Jobs : ~Mid(j, "state")
      BY <1>1 DEF Begin, Mid, RoundIsSound, DoingIsSound, MarkIsSound
    <3> QED
      BY <3>1, <3>2, JobsAssumption DEF Reservations
  <2> QED
    BY <1>1, <2>1, <2>2, <2>3 DEF Begin, world, Nothing, Mid, InLaunch
<1>2. ASSUME SavePlan PROVE StatesAreSound'
  <2>1. \A j \in todo' : job[j].state = "Waiting"
    BY <1>2 DEF SavePlan, Accepted, Read, In
  <2> QED
    BY <1>2, <2>1, SavedRows DEF SavePlan, world, Nothing, Mid, InLaunch
<1>3. ASSUME WaitingDone PROVE StatesAreSound'
  BY <1>3 DEF WaitingDone, world, base, Read, In, Mid, InLaunch
<1>4. ASSUME SaveNew PROVE StatesAreSound'
  <2>1. \A j \in todo' : job[j].state = "Waiting"
    BY <1>4 DEF SaveNew, Read, In
  <2> QED
    BY <1>4, <2>1, SavedRows DEF SaveNew, world, Nothing, Mid, InLaunch
<1>5. ASSUME Decide PROVE StatesAreSound'
  <2>1. \A j \in todo' : job[j].state = "Waiting"
    BY <1>5 DEF Decide, Ready, In
  <2> QED
    BY <1>5, <2>1 DEF Decide, world, Mid, InLaunch
<1>6. ASSUME Gather PROVE StatesAreSound'
  BY <1>6 DEF Gather, Unanswered, world, base, In, Mid, InLaunch
<1>7. ASSUME Finish \/ Raise PROVE StatesAreSound'
  BY <1>7, RoundEnds, CutStates
<1>8. ASSUME NEW j \in Jobs, Plan(j) PROVE StatesAreSound'
  <2>1. CASE UNCHANGED <<slots, plan>>
    BY <1>8, <2>1 DEF Plan, world, base, Mid, InLaunch
  <2>2. CASE ~UNCHANGED <<slots, plan>>
    <3>1. DOMAIN plan' = DOMAIN plan \cup {j}
      BY <1>8, <2>2, PlanRows DEF PlanAt
    <3>2. j \in todo /\ j \notin Reservations
      BY <1>8 DEF Plan, RoundIsSound, PhaseIsSound
    <3> QED
      BY <1>8, <3>1, <3>2 DEF Plan, world, base, Mid, InLaunch
  <2> QED
    BY <2>1, <2>2
<1>9. ASSUME NEW j \in Jobs, WaitingReservation(j) PROVE StatesAreSound'
  <2>1. CASE Expire(j)
    <3>1. OnlyState(j, "Error")
      BY <2>1, StateRows DEF Expire, StatesOf
    <3>2. gantt' = gantt
      BY <2>1 DEF Expire
    <3> QED
      BY <1>9, <3>1, <3>2 DEF WaitingReservation, world, Mid, InLaunch, Pending, IsOver, OnlyState
  <2>2. CASE Delay(j)
    BY <1>9, <2>2, DelayRows DEF WaitingReservation, Delay, world, Mid, InLaunch
  <2>3. CASE Reduce(j)
    BY <1>9, <2>3, ReduceRows DEF WaitingReservation, Reduce, world, Mid, InLaunch
  <2>4. CASE OnTime(j)
    BY <1>9, <2>4 DEF WaitingReservation, OnTime, world, Mid, InLaunch
  <2> QED
    BY <1>9, <2>1, <2>2, <2>3, <2>4 DEF WaitingReservation
<1>10. ASSUME NEW j \in Jobs, NewReservation(j) PROVE StatesAreSound'
  <2>1. j \in todo /\ j \in Reservations /\ job[j].state \in {"Waiting", "Error", "Terminated"}
    BY <1>10 DEF NewReservation, RoundIsSound, PhaseIsSound, ReadIsSound, InRound
  <2>5. \A i \in Jobs : /\ ~Mid(i, "state") /\ (i # j => ~Mid(i, "state")')
                        /\ ~InLaunch(i) /\ ~InLaunch(i)'
    BY <1>10 DEF NewReservation, TooOld, Refuse, Accept, Decided, Idle, Mid, InLaunch, LaunchSteps
  <2>2. CASE TooOld(j)
    <3>1. OnlyState(j, "toError")
      BY <2>2, StateRows DEF TooOld, StatesOf
    <3>2. UNCHANGED <<slots, plan>>
      BY <2>2 DEF TooOld
    <3> QED
      BY <1>10, <2>1, <2>5, <3>1, <3>2 DEF NewReservation, TooOld, Mid, InLaunch, world, Pending, IsOver, OnlyState
  <2>3. CASE Refuse(j)
    <3>1. OnlyState(j, "toError")
      BY <2>3, StateRows DEF Refuse, Decided, StatesOf
    <3>2. UNCHANGED plan
      BY <2>3 DEF Refuse
    <3> QED
      BY <1>10, <2>1, <2>5, <3>1, <3>2 DEF NewReservation, world, Pending, IsOver, OnlyState
  <2>4. CASE Accept(j)
    <3>1. DOMAIN plan' = DOMAIN plan \cup {j}
      BY <2>1, <2>4, AcceptRows DEF PlanAt
    <3>2. OnlyState(j, "toAckReservation") /\ doing'.at = "state" /\ doing'.job = j
      BY <2>4, StateRows DEF Accept, Decided, StatesOf
    <3>3. Mid(j, "state")'
      BY <3>2 DEF Mid
    <3> QED
      BY <1>10, <2>1, <2>5, <3>1, <3>2, <3>3 DEF NewReservation, world, Pending, IsOver, OnlyState
  <2> QED
    BY <1>10, <2>2, <2>3, <2>4 DEF NewReservation
<1>11. ASSUME NEW j \in Jobs, SetScheduled(j) PROVE StatesAreSound'
  <2>1. j \in Reservations /\ job[j].state \in {"toAckReservation", "toError", "Error", "Terminated"}
    BY <1>11 DEF SetScheduled, Mid, RoundIsSound, DoingIsSound, MarkIsSound
  <2>2. \A i \in Jobs : ~Mid(i, "state")' /\ (i # j => ~Mid(i, "state")) /\ ~InLaunch(i)' /\ ~InLaunch(i)
    BY <1>11 DEF SetScheduled, Mid, InLaunch, NotDoing, LaunchSteps
  <2>3. UNCHANGED <<now, gantt, plan, todo, cut, oarsub>>
    BY <1>11 DEF SetScheduled, world
  <2> QED
    BY <1>11, <2>1, <2>2, <2>3, ScheduledRows
<1>12. ASSUME NEW j \in Jobs, SetMaxTime(j) \/ SetGanttStart(j) \/ SetStart(j) \/ AddPairs(j) PROVE StatesAreSound'
  BY <1>12, CommitStates
<1>13. ASSUME NEW j \in Jobs, Launch(j) PROVE StatesAreSound'
  <2>1. OnlyState(j, "toLaunch")
    BY <1>13, StateRows DEF Launch, StatesOf
  <2>2. j \in DOMAIN gantt /\ job[j].state \in {"Waiting", "Error", "Terminated"}
    BY <1>13, LaunchGantt
  <2>3. \A i \in Jobs : ~Mid(i, "state") /\ ~Mid(i, "state")' /\ ~InLaunch(i)' /\ (InLaunch(i) => i = j)
    BY <1>13 DEF Launch, Mid, InLaunch, NotDoing, LaunchSteps
  <2>4. UNCHANGED <<now, gantt, plan, cut, oarsub>> /\ todo' \subseteq todo
    BY <1>13 DEF Launch, world
  <2>5. \A i \in Jobs : StateIsSound(i)
    OBVIOUS
  <2>6. StateIsSound(j)'
    BY <2>1, <2>2, <2>3, <2>4, <2>5 DEF Pending, IsOver, OnlyState
  <2>7. ASSUME NEW i \in Jobs \ {j} PROVE StateIsSound(i)'
    BY <2>1, <2>3, <2>4, <2>5, <2>7 DEF OnlyState
  <2> QED
    BY <2>6, <2>7
<1>14. ASSUME NEW j \in Jobs, Notify(j) PROVE StatesAreSound'
  <2>1. job[j].state \in {"toAckReservation", "toError", "Error", "Terminated"}
    BY <1>14 DEF Notify, RoundIsSound, ReadIsSound
  <2>2. \A i \in Jobs : ~Mid(i, "state") /\ ~Mid(i, "state")' /\ ~InLaunch(i) /\ ~InLaunch(i)'
    BY <1>14 DEF Notify, Idle, Mid, InLaunch, LaunchSteps
  <2>3. UNCHANGED <<now, job, gantt, plan, todo, cut>>
    BY <1>14 DEF Notify, world
  <2>4. \A i \in Reservations : oarsub'[i] = "GOOD" => oarsub[i] = "GOOD" \/ i = j
    BY <1>14 DEF Notify, TellBad, TellGood, Tell, Typed
  <2>5. oarsub'[j] = "GOOD" /\ j \in Reservations => oarsub[j] = "GOOD" \/ job[j].state # "toError"
    BY <1>14 DEF Notify, TellBad, TellGood, Tell, Typed
  <2> QED
    BY <2>1, <2>2, <2>3, <2>4, <2>5 DEF Pending
<1>15. ASSUME NEW j \in Jobs, Answer(j) PROVE StatesAreSound'
  <2>1. phase = "answer" /\ job[j].state \in {"toAckReservation", "toError", "Error", "Terminated"}
    BY <1>15 DEF Answer, Mid, RoundIsSound, ReadIsSound, DoingIsSound, MarkIsSound
  <2>2. \A i \in Jobs : ~Mid(i, "state") /\ ~Mid(i, "state")' /\ ~InLaunch(i) /\ ~InLaunch(i)'
    BY <1>15 DEF Answer, Mid, InLaunch, LaunchSteps, NotDoing
  <2>3. UNCHANGED <<now, gantt, plan, cut, oarsub>> /\ todo' \subseteq todo
    BY <1>15 DEF Answer, world
  <2>4. \/ job[j].state = "toError" /\ OnlyState(j, "Error")
        \/ job[j].state # "toError" /\ OnlyState(j, "Waiting")
    BY <1>15, StateRows DEF Answer, StatesOf
  <2> QED
    BY <2>1, <2>2, <2>3, <2>4 DEF Pending, IsOver, OnlyState
<1>16. ASSUME NEW j \in Jobs, Unheard(j) PROVE StatesAreSound'
  BY <1>16 DEF Unheard, world, Mid, InLaunch
<1> QED
  BY <1>1, <1>2, <1>3, <1>4, <1>5, <1>6, <1>7, <1>8, <1>9, <1>10, <1>11, <1>12, <1>13, <1>14, <1>15, <1>16 DEF Round

LEMMA StepStates ==
  Typed /\ StatesAreSound /\ RoundIsSound /\ ReservationsAreInTime /\ [Next]_vars => StatesAreSound'
<1>1. ASSUME Typed, StatesAreSound, RoundIsSound, Crash PROVE StatesAreSound'
  BY <1>1, RoundEnds, CutStates
<1>2. ASSUME StatesAreSound, UNCHANGED vars PROVE StatesAreSound'
  BY <1>2 DEF StatesAreSound, StateIsSound, vars, world, base, round, cuts, Mid, InLaunch
<1> QED
  BY <1>1, <1>2, EnvironmentStates, RoundStates DEF Next

-----------------------------------------------------------------------------
(* The kinds of steps. Many only make jobs leave the system, or read one   *)
(* job after the other.                                                    *)

OffLaunch == doing.at \notin LaunchSteps

Drops ==
  /\ \A i \in Jobs : job'[i] = job[i] \/ job'[i].state \in {"toError", "Error", "Terminated"}
  /\ todo' \subseteq todo
  /\ \A i \in todo' : /\ job'[i].resa = job[i].resa
                      /\ job'[i] = job[i] \/ job'[i].state \in {"Error", "Terminated"}
  /\ phase = "waiting" => \A i \in todo \ (todo' \cup cut) : job'[i].state = "Waiting" => NotExpired(i)
  /\ phase = "answer" => \A i \in Jobs : job'[i].state \in {"toAckReservation", "toError"} =>
                           /\ job'[i].state = job[i].state
                           /\ i \in todo \cup fragged => i \in todo' \cup fragged'
  /\ fails' >= fails
  /\ \/ doing' = doing /\ (Idle \/ todo' = todo)
     \/ OffLaunch /\ OffLaunch' /\ MarkIsSound'
  /\ UNCHANGED <<now, gantt, phase, queue, seen, slots, holders, plan, cuts>>

LaunchCommit(j) == SetMaxTime(j) \/ SetGanttStart(j) \/ SetStart(j) \/ AddPairs(j)

(* A job or a reservation between two commits: the places stay as they are *)
Between(j) ==
  /\ \A i \in Jobs \ {j} : job'[i] = job[i]
  /\ job'[j].state = job[j].state /\ job[j].state # "toLaunch"
  /\ \/ job'[j].resa = job[j].resa
     \/ job'[j].resa = "Scheduled" /\ job[j].state # "Waiting"
  /\ DOMAIN gantt' = DOMAIN gantt
  /\ \A i \in DOMAIN gantt : /\ Held(i)' = Held(i) /\ gantt'[i].res = gantt[i].res
                             /\ gantt'[i].start = gantt[i].start \/ gantt'[i].start = now
                             /\ i # j => gantt'[i] = gantt[i]
  /\ UNCHANGED <<world, fragged, phase, queue, seen, slots, holders, todo, plan, cuts>>

KindOfStep ==
  \/ Drops \/ Cuts \/ Tick \/ Begin \/ SavePlan \/ WaitingDone \/ SaveNew \/ Decide \/ Gather
  \/ \E j \in Jobs : \/ Submit(j)
                     \/ Plan(j) /\ ~UNCHANGED <<slots, plan>>
                     \/ WaitingReservation(j) /\ Delay(j)
                     \/ WaitingReservation(j) /\ Reduce(j)
                     \/ j \in Reservations /\ NewReservation(j) /\ Accept(j)
                     \/ (SetScheduled(j) \/ LaunchCommit(j)) /\ Between(j)
                     \/ Launch(j)
                     \/ Answer(j) /\ job[j].state = "toAckReservation"

LEMMA PhasesOfDoing ==
  ASSUME Typed, RoundIsSound
  PROVE  /\ phase \notin {"new", "started", "answer"} => Idle
         /\ phase = "started" /\ todo = {} => Idle
BY DEF RoundIsSound, DoingIsSound, MarkIsSound, Idle, Typed, Doings, NotDoing, LaunchSteps

LEMMA LaunchDoing ==
  ASSUME Typed, NEW j \in Jobs, LaunchCommit(j)
  PROVE  /\ doing'.job = j /\ doing'.at \in LaunchSteps
         /\ \/ doing.at = "none" /\ doing'.start = gantt[j].start /\ gantt' = gantt
            \/ doing.job = j /\ doing.at \in LaunchSteps /\ doing'.start = doing.start
<1>1. \A at \in LaunchSteps : /\ LaunchFrom(j, at).job = j /\ LaunchFrom(j, at).at = at
                              /\ LaunchFrom(j, at).start = gantt[j].start
  BY DEF LaunchFrom
<1>2. doing.at \in LaunchSteps =>
        \A at \in LaunchSteps : Then(at).job = doing.job /\ Then(at).at = at /\ Then(at).start = doing.start
  BY DEF Then, Typed, Doings, NotDoing, LaunchSteps
<1>3. CASE doing.at = "none"
  <2>1. doing' \in {LaunchFrom(j, "walltime"), LaunchFrom(j, "start")} /\ gantt' = gantt
    BY <1>3 DEF LaunchCommit, SetMaxTime, SetGanttStart, SetStart, AddPairs, ToDo, Idle, Mid
  <2> HIDE DEF LaunchFrom
  <2> QED
    BY <1>1, <1>3, <2>1 DEF LaunchSteps
<1>4. CASE doing.at # "none"
  <2>1. doing.job = j /\ doing.at \in LaunchSteps /\ \E at \in LaunchSteps : doing' = Then(at)
    BY <1>4 DEF LaunchCommit, SetMaxTime, SetGanttStart, SetStart, AddPairs, ToDo, Idle, Mid, LaunchSteps
  <2> QED
    BY <1>2, <2>1
<1> QED
  BY <1>3, <1>4

LEMMA GanttWritten ==
  ASSUME Typed, NEW j \in DOMAIN gantt, SetGanttStart(j) \/ gantt' = gantt
  PROVE  gantt'[j] \in GanttJobsPrediction
BY DEF SetGanttStart, Moved, Typed, GanttJobsPrediction

LEMMA BetweenCommits ==
  ASSUME Typed, StatesAreSound, RoundIsSound, NEW j \in Jobs, SetScheduled(j) \/ LaunchCommit(j)
  PROVE  Between(j)
<1>1. CASE SetScheduled(j)
  <2>1. /\ job[j].state \in {"toAckReservation", "toError", "Error", "Terminated"}
        /\ doing.at = "state" /\ doing'.at = "none"
    BY <1>1 DEF SetScheduled, Mid, NotDoing, RoundIsSound, DoingIsSound, MarkIsSound
  <2>2. \A i : ~InLaunch(i) /\ ~InLaunch(i)'
    BY <2>1 DEF InLaunch, LaunchSteps
  <2>3. UNCHANGED <<world, fragged, phase, queue, seen, slots, holders, todo, plan, cuts, gantt>>
    BY <1>1 DEF SetScheduled
  <2>4. \A i \in DOMAIN gantt : Held(i)' = Held(i)
    BY <2>2, <2>3 DEF Held
  <2> QED
    BY <1>1, <2>1, <2>3, <2>4, ScheduledRows DEF Between
<1>2. CASE LaunchCommit(j)
  <2>1. /\ j \in DOMAIN gantt /\ job[j].state \in {"Waiting", "Error", "Terminated"}
        /\ gantt[j].start \in Nat
    BY <1>2, LaunchGantt DEF LaunchCommit, Typed, GanttJobsPrediction
  <2>2. /\ \A i \in Jobs \ {j} : job'[i] = job[i]
        /\ job'[j].state = job[j].state /\ job'[j].resa = job[j].resa
    BY <1>2, MaxTimeRows, StartRows, PairsRows DEF LaunchCommit, SetGanttStart
  <2>3. UNCHANGED <<world, fragged, phase, queue, seen, slots, holders, todo, plan, cuts>>
    BY <1>2 DEF LaunchCommit, SetMaxTime, SetGanttStart, SetStart, AddPairs
  <2>4. /\ DOMAIN gantt' = DOMAIN gantt /\ \A i \in DOMAIN gantt \ {j} : gantt'[i] = gantt[i]
        /\ gantt'[j].res = gantt[j].res
        /\ gantt'[j].start = gantt[j].start \/ gantt'[j].start = now
        /\ gantt'[j].start # gantt[j].start => SetGanttStart(j)
    BY <1>2, GanttStartRows DEF LaunchCommit, SetMaxTime, SetStart, AddPairs
  <2>5. /\ doing'.job = j /\ doing'.at \in LaunchSteps
        /\ \/ doing.at = "none" /\ doing'.start = gantt[j].start /\ gantt' = gantt
           \/ doing.job = j /\ doing.at \in LaunchSteps /\ doing'.start = doing.start
    BY <1>2, LaunchDoing DEF LaunchCommit
  <2>6. \A i : i # j => ~InLaunch(i) /\ ~InLaunch(i)'
    BY <2>5 DEF InLaunch, LaunchSteps
  <2>7. \A i \in DOMAIN gantt \ {j} : Held(i)' = Held(i)
    BY <2>4, <2>6 DEF Held
  <2>8. Held(j)' = Held(j)
    <3>1. gantt[j] \in [start : Nat, res : SUBSET Resources] /\ gantt'[j] \in [start : Nat, res : SUBSET Resources]
      <4>1. SetGanttStart(j) \/ gantt' = gantt
        BY <1>2 DEF LaunchCommit, SetMaxTime, SetStart, AddPairs
      <4>2. gantt'[j] \in GanttJobsPrediction /\ gantt[j] \in GanttJobsPrediction
        BY <2>1, <4>1, GanttWritten DEF Typed
      <4> QED
        BY <4>2 DEF GanttJobsPrediction, GanttJobsResource
    <3>2. InLaunch(j)' /\ (InLaunch(j) <=> doing.at # "none")
      BY <2>5 DEF InLaunch, LaunchSteps
    <3>3. doing'.start = (IF doing.at = "none" THEN gantt[j].start ELSE doing.start)
      BY <2>5 DEF LaunchSteps
    <3>4. [gantt'[j] EXCEPT !.start = doing'.start] = [gantt[j] EXCEPT !.start = doing'.start]
      BY <2>4, <3>1
    <3>5. [gantt[j] EXCEPT !.start = gantt[j].start] = gantt[j]
      BY <3>1
    <3> QED
      BY <3>2, <3>3, <3>4, <3>5 DEF Held
  <2> QED
    BY <2>1, <2>2, <2>3, <2>4, <2>7, <2>8 DEF Between
<1> QED
  BY <1>1, <1>2

LEMMA EnvironmentKind ==
  ASSUME Typed, Environment
  PROVE  KindOfStep
<1> USE DEF world, base, round, cuts
<1>1. ASSUME NEW j \in Jobs, Leave(j) PROVE Drops
  <2>1. /\ \A i \in Jobs \ {j} : job'[i] = job[i]
        /\ job'[j].state \in {"Error", "Terminated"} /\ job'[j].resa = job[j].resa
    BY <1>1, LeaveRows
  <2> QED
    BY <1>1, <2>1 DEF Leave, Drops, Typed
<1>2. ASSUME NEW j \in Reservations, Hangup(j) PROVE Drops
  BY <1>2 DEF Hangup, Drops, Typed
<1>3. ASSUME NEW r \in Resources, Fail(r) PROVE Drops
  BY <1>3 DEF Fail, Drops, Typed
<1>4. ASSUME NEW r \in Resources, Return(r) PROVE Drops
  BY <1>4 DEF Return, Drops, Typed
<1> QED
  BY <1>1, <1>2, <1>3, <1>4 DEF Environment, KindOfStep

LEMMA RoundKind ==
  ASSUME Typed, StatesAreSound, RoundIsSound, Round
  PROVE  KindOfStep
<1> USE DEF world, base, cuts
<1>1. ASSUME Finish \/ Raise PROVE Cuts
  BY <1>1, RoundEnds
<1>2. ASSUME NEW j \in Jobs, Plan(j), UNCHANGED <<slots, plan>> PROVE Drops
  BY <1>2, PhasesOfDoing DEF Plan, Drops, Typed
<1>3. ASSUME NEW j \in Jobs, WaitingReservation(j), Expire(j) PROVE Drops
  <2>1. OnlyState(j, "Error")
    BY <1>3, StateRows DEF Expire, StatesOf
  <2>2. todo' = todo \ {j}
    BY <1>3 DEF WaitingReservation
  <2>3. \A i \in Jobs : job'[i] = job[i] \/ job'[i].state \in {"toError", "Error", "Terminated"}
    BY <2>1 DEF OnlyState
  <2>4. \A i \in todo' : job'[i] = job[i]
    BY <2>1, <2>2 DEF OnlyState, Typed
  <2> QED
    <3>1. phase = "waiting" /\ UNCHANGED <<now, gantt, phase, queue, seen, slots, holders, plan, cuts, fails, doing>>
      BY <1>3 DEF WaitingReservation, Expire
    <3>2. job'[j].state # "Waiting"
      <4>1. j \in todo /\ job[j].state \in {"Waiting", "Error", "Terminated"}
        BY <1>3 DEF WaitingReservation, RoundIsSound, ReadIsSound, InRound
      <4> QED
        BY <2>1, <4>1 DEF OnlyState, IsOver
    <3> QED
      BY <2>2, <2>3, <2>4, <3>1, <3>2, PhasesOfDoing DEF Drops, Typed
<1>4. ASSUME NEW j \in Jobs, WaitingReservation(j), OnTime(j) PROVE Drops
  <2>3. phase = "waiting" /\ Idle /\ ~InLaunch(j)
    BY <1>4, PhasesOfDoing DEF WaitingReservation, Idle, InLaunch, LaunchSteps
  <2>1. j \notin cut /\ job[j].state = "Waiting" => NotExpired(j)
    BY <1>4, <2>3, PendingWalltime DEF OnTime, End, NotExpired, Pending
  <2>2. /\ todo' = todo \ {j} /\ phase = "waiting"
        /\ UNCHANGED <<job, now, gantt, phase, queue, seen, slots, holders, plan, cuts, fails, doing>>
    BY <1>4 DEF WaitingReservation, OnTime
  <2> QED
    BY <2>1, <2>2, <2>3 DEF Drops, Typed
<1>5. ASSUME NEW j \in Jobs, NewReservation(j), TooOld(j) \/ Refuse(j) PROVE Drops
  <2>1. OnlyState(j, "toError")
    BY <1>5, StateRows DEF TooOld, Refuse, Decided, StatesOf
  <2>2. job'[j].state \in {"toError", "Error", "Terminated"}
    BY <2>1 DEF OnlyState, IsOver
  <2>3. /\ phase = "new" /\ Idle /\ j \in todo /\ todo' = todo \ {j}
        /\ UNCHANGED <<now, gantt, phase, queue, seen, slots, holders, plan, cuts, fails>>
    BY <1>5 DEF NewReservation, TooOld, Refuse
  <2>4. doing' = doing \/ (doing'.at = "state" /\ doing'.job = j)
    BY <1>5 DEF TooOld, Refuse, Decided
  <2>5. j \in Reservations \ DOMAIN gantt
    BY <2>3 DEF RoundIsSound, PhaseIsSound, ReadIsSound
  <2>6. doing' = doing \/ (OffLaunch' /\ MarkIsSound')
    BY <2>2, <2>3, <2>4, <2>5 DEF OffLaunch, LaunchSteps, MarkIsSound
  <2>7. OffLaunch
    BY <2>3 DEF OffLaunch, Idle, LaunchSteps
  <2>8. \A i \in Jobs : job'[i] = job[i] \/ job'[i].state \in {"toError", "Error", "Terminated"}
    BY <2>1, <2>2 DEF OnlyState
  <2>9. \A i \in todo' : job'[i] = job[i]
    BY <2>1, <2>3 DEF OnlyState, Typed
  <2> QED
    BY <2>3, <2>6, <2>7, <2>8, <2>9 DEF Drops, Typed
<1>6. ASSUME NEW j \in Jobs, NewReservation(j) PROVE j \in Reservations
  BY <1>6 DEF NewReservation, RoundIsSound, PhaseIsSound
<1>7. ASSUME NEW j \in Jobs, Answer(j), job[j].state # "toAckReservation" PROVE Drops
  <2>1. /\ phase = "answer" /\ job[j].state \in {"toError", "Error", "Terminated"}
        /\ todo' = todo \ {j} /\ OffLaunch /\ doing' = NotDoing
        /\ UNCHANGED <<now, gantt, fragged, phase, queue, seen, slots, holders, plan, cuts, fails>>
    BY <1>7 DEF Answer, Mid, OffLaunch, LaunchSteps, RoundIsSound, ReadIsSound, DoingIsSound, MarkIsSound
  <2>2. OnlyState(j, "Error") \/ (IsOver(j) /\ OnlyState(j, "Waiting"))
    BY <1>7, <2>1, StateRows DEF Answer, StatesOf, IsOver
  <2>3. /\ \A i \in Jobs \ {j} : job'[i] = job[i]
        /\ job'[j].state \in {"Error", "Terminated"}
    BY <2>2 DEF OnlyState, IsOver
  <2>4. OffLaunch' /\ MarkIsSound'
    BY <2>1 DEF OffLaunch, MarkIsSound, NotDoing, LaunchSteps
  <2> QED
    BY <2>1, <2>3, <2>4 DEF Drops, Typed
<1>8. ASSUME NEW j \in Jobs, Unheard(j) PROVE Drops
  <2>1. /\ Idle /\ phase = "answer" /\ todo' = todo \ {j}
        /\ fragged' = (IF j \in Over THEN fragged ELSE fragged \cup {j})
        /\ UNCHANGED <<job, now, gantt, phase, queue, seen, slots, holders, plan, cuts, fails, doing>>
    BY <1>8 DEF Unheard
  <2>2. \A i \in Jobs : job[i].state \in {"toAckReservation", "toError"} =>
                         (i \in todo \cup fragged => i \in todo' \cup fragged')
    BY <2>1 DEF Over, In
  <2> QED
    BY <2>1, <2>2 DEF Drops, Typed
<1>13. ASSUME NEW j \in Jobs, Notify(j) PROVE Drops
  <2>1. OffLaunch /\ OffLaunch' /\ MarkIsSound'
    BY <1>13 DEF Notify, Idle, OffLaunch, LaunchSteps, MarkIsSound
  <2> QED
    BY <1>13, <2>1 DEF Notify, Drops, Typed
<1>14. ASSUME NEW j \in Jobs, SetScheduled(j) \/ LaunchCommit(j) PROVE KindOfStep
  BY <1>14, BetweenCommits DEF KindOfStep
<1>9. ASSUME NEW j \in Jobs, Plan(j) PROVE KindOfStep
  BY <1>2, <1>9 DEF KindOfStep
<1>10. ASSUME NEW j \in Jobs, WaitingReservation(j) PROVE KindOfStep
  BY <1>3, <1>4, <1>10 DEF WaitingReservation, KindOfStep
<1>11. ASSUME NEW j \in Jobs, NewReservation(j) PROVE KindOfStep
  BY <1>5, <1>6, <1>11 DEF NewReservation, KindOfStep
<1>12. ASSUME NEW j \in Jobs, Answer(j) PROVE KindOfStep
  BY <1>7, <1>12 DEF KindOfStep
<1> QED
  BY <1>1, <1>8, <1>9, <1>10, <1>11, <1>12, <1>13, <1>14 DEF Round, KindOfStep, LaunchCommit

LEMMA StepKind ==
  ASSUME Typed, StatesAreSound, RoundIsSound, [Next]_vars
  PROVE  KindOfStep
<1>1. ASSUME Crash PROVE Cuts
  BY <1>1, RoundEnds
<1>2. ASSUME UNCHANGED vars PROVE Drops
  BY <1>2 DEF Drops, vars, world, base, round, cuts, Typed
<1> QED
  BY <1>1, <1>2, EnvironmentKind, RoundKind DEF Next, KindOfStep

-----------------------------------------------------------------------------
(* What a round reads and plans *)

LEMMA StepReads ==
  ASSUME Typed, StatesAreSound, RoundIsSound, StatesAreSound', KindOfStep
  PROVE  ReadIsSound'
<1> USE DEF ReadIsSound, InRound
<1>0. ReadIsSound
  BY DEF RoundIsSound
<1>1. CASE Drops
  BY <1>0, <1>1 DEF Drops
<1>2. CASE Cuts
  BY <1>2 DEF Cuts, Leaving, Nothing
<1>3. CASE Tick
  BY <1>0, <1>3 DEF Tick, base, round
<1>4. CASE Begin
  <2>1. todo' = Read("default", "None")
    BY <1>4 DEF Begin
  <2>2. \A j \in todo' : job'[j].state = "Waiting" /\ job[j].resa = "None"
    BY <1>4, <2>1 DEF Begin, Read, In
  <2>3. todo' \cap DOMAIN gantt' = {}
    <3>1. \A j \in DOMAIN gantt' : job[j].resa = "Scheduled" \/ job[j].state = "toLaunch"
      BY <1>4, BeginRows
    <3> QED
      BY <1>4, <2>2, <3>1 DEF Begin
  <2> QED
    BY <1>4, <2>2, <2>3 DEF Begin, Nothing
<1>5. CASE SavePlan
  <2>1. \A j \in todo' : job'[j].state = "Waiting"
    BY <1>5 DEF SavePlan, Accepted, Read, In
  <2> QED
    BY <1>5, <2>1 DEF SavePlan
<1>6. CASE WaitingDone
  <2>1. \A j \in todo' : j \in Jobs /\ job'[j].state = "Waiting" /\ job'[j].resa = "toSchedule"
    BY <1>6 DEF WaitingDone, Read, In, base
  <2>2. plan' = plan /\ plan = Nothing /\ phase' = "new"
    BY <1>0, <1>6 DEF WaitingDone
  <2>4. \A j : ~Mid(j, "state")'
    BY <1>6, PhasesOfDoing DEF WaitingDone, Idle, Mid
  <2>3. \A j \in todo' : j \notin DOMAIN gantt'
    BY <2>1, <2>4, JobsAssumption DEF StatesAreSound, StateIsSound
  <2> QED
    BY <2>1, <2>2, <2>3 DEF Nothing
<1>7. CASE SaveNew
  <2>1. \A j \in todo' : /\ j \in Jobs /\ job[j].state = "Waiting" /\ job[j].resa = "None"
                         /\ Queue[j] = "besteffort" /\ job'[j] = job[j]
    BY <1>7 DEF SaveNew, Read, In
  <2>2. \A j \in todo' : j \notin Reservations
    BY <2>1 DEF StatesAreSound, StateIsSound
  <2>3. \A j \in todo' : j \notin DOMAIN gantt \cup DOMAIN plan
    BY <1>7, <2>1, <2>2 DEF SaveNew, RoundIsSound, PlannedIsSound, PhaseIsSound, Placed, Planning, Pending
  <2>4. DOMAIN gantt' = DOMAIN gantt \cup DOMAIN plan
    BY <1>7, SavedRows DEF SaveNew
  <2> QED
    BY <1>7, <2>1, <2>3, <2>4 DEF SaveNew, Nothing
<1>8. CASE Decide
  <2>1. \A j \in todo' : job'[j].state = "Waiting"
    BY <1>8 DEF Decide, Ready, In
  <2> QED
    BY <1>0, <1>8, <2>1 DEF Decide
<1>9. CASE Gather
  BY <1>0, <1>9 DEF Gather, Unanswered, In, base
<1>10. ASSUME NEW j \in Jobs, Submit(j) PROVE ReadIsSound'
  <2>1. j \notin todo
    BY <1>10 DEF Submit, StatesAreSound, StateIsSound
  <2> QED
    BY <1>0, <1>10, <2>1, SubmitRows DEF Submit, round, Typed
<1>11. ASSUME NEW j \in Jobs, Plan(j), ~UNCHANGED <<slots, plan>> PROVE ReadIsSound'
  <2>1. DOMAIN plan' = DOMAIN plan \cup {j}
    BY <1>11, PlanRows DEF PlanAt
  <2> QED
    BY <1>0, <1>11, <2>1 DEF Plan, base
<1>12. ASSUME NEW j \in Jobs, WaitingReservation(j), Delay(j) \/ Reduce(j) PROVE ReadIsSound'
  BY <1>0, <1>12 DEF WaitingReservation, Delay, Reduce
<1>13. ASSUME NEW j \in Reservations, j \in Jobs, NewReservation(j), Accept(j) PROVE ReadIsSound'
  <2>1. DOMAIN plan' = DOMAIN plan \cup {j}
    BY <1>13, AcceptRows DEF PlanAt
  <2>2. \A i \in Jobs \ {j} : job'[i] = job[i]
    BY <1>13, StateRows DEF Accept, Decided, StatesOf, OnlyState
  <2> QED
    BY <1>0, <1>13, <2>1, <2>2 DEF NewReservation, Typed
<1>14. ASSUME NEW j \in Jobs, Launch(j) PROVE ReadIsSound'
  <2>1. \A i \in Jobs \ {j} : job'[i] = job[i]
    BY <1>14, StateRows DEF Launch, StatesOf, OnlyState
  <2> QED
    BY <1>0, <1>14, <2>1 DEF Launch, Typed
<1>15. ASSUME NEW j \in Jobs, Answer(j) PROVE ReadIsSound'
  <2>1. phase = "answer" /\ phase' = phase /\ todo' = todo \ {j} /\ plan' = plan
    BY <1>15 DEF Answer, Mid, RoundIsSound, DoingIsSound, MarkIsSound
  <2>2. OnlyState(j, "Error") \/ OnlyState(j, "Waiting")
    BY <1>15, StateRows DEF Answer, StatesOf
  <2> QED
    BY <1>0, <2>1, <2>2 DEF OnlyState, Typed
<1>16. ASSUME NEW j \in Jobs, Between(j) PROVE ReadIsSound'
  <2>1. \A i \in Jobs : job'[i].state = job[i].state
    BY <1>16 DEF Between
  <2> QED
    BY <1>0, <1>16, <2>1 DEF Between, Typed
<1> QED
  BY <1>1, <1>2, <1>3, <1>4, <1>5, <1>6, <1>7, <1>8, <1>9, <1>10, <1>11, <1>12, <1>13, <1>14, <1>15, <1>16
     DEF KindOfStep

(* The launch of a job, from a commit to the next *)
LEMMA CommitIsSound ==
  ASSUME Typed, StatesAreSound, RoundIsSound, NEW j \in Jobs \ cut, LaunchCommit(j), job'[j].state = "Waiting"
  PROVE  LaunchIsSound(j)'
<1>1. /\ phase = "started" /\ j \in DOMAIN gantt /\ gantt[j].start <= now
      /\ now \in Nat /\ gantt[j].start \in Nat
  BY LaunchGantt, Settings DEF LaunchCommit, Typed, GanttJobsPrediction
<1>2. now' = now
  BY DEF LaunchCommit, SetMaxTime, SetGanttStart, SetStart, AddPairs, world
<1>3. job[j].state = "Waiting" /\ job'[j].resa = job[j].resa
  BY MaxTimeRows, StartRows, PairsRows DEF LaunchCommit, SetGanttStart
<1>4. ~IsOver(j)
  BY <1>3 DEF IsOver
<1>5. doing.at = "none" => job[j].walltime = Walltime[j] /\ job[j].res = {}
  BY <1>3 DEF StatesAreSound, StateIsSound, Pending, InLaunch, LaunchSteps
<1>6. doing.at # "none" => doing.job = j /\ doing.at \in LaunchSteps /\ LaunchIsSound(j)
  BY <1>3, LaunchDoing DEF RoundIsSound, DoingIsSound, InLaunch
<1>7. CASE SetMaxTime(j)
  <2>1. /\ doing.at = "none" /\ job[j].resa = "Scheduled" /\ gantt[j].start < now /\ gantt' = gantt
        /\ doing'.at = "walltime" /\ doing'.start = gantt[j].start
    BY <1>7 DEF SetMaxTime, ToDo, Idle, Late, LaunchFrom
  <2>2. job'[j].walltime = Walltime[j] + Security - (now - gantt[j].start) /\ job'[j].res = {}
    BY <1>4, <1>5, <1>7, <2>1, MaxTimeRows DEF NewWalltime
  <2> QED
    BY <1>2, <1>3, <2>1, <2>2 DEF LaunchIsSound, LateLaunch
<1>8. CASE SetGanttStart(j)
  <2>1. /\ doing.at = "walltime" /\ doing'.at = "gantt" /\ doing'.start = doing.start /\ job' = job
    BY <1>8 DEF SetGanttStart, Mid, Then, Typed, Doings, NotDoing
  <2>2. LateLaunch(j) /\ job[j].res = {}
    BY <1>6, <2>1 DEF LaunchIsSound, OtherLaunch
  <2>3. gantt'[j].start = now
    BY <1>8, GanttStartRows
  <2> QED
    BY <1>2, <2>1, <2>2, <2>3 DEF LaunchIsSound, LateLaunch
<1>9. CASE SetStart(j)
  <2>1. /\ gantt' = gantt /\ doing'.at = "start" /\ job'[j].start = now
        /\ job'[j].walltime = job[j].walltime /\ job'[j].res = job[j].res
    BY <1>4, <1>9, StartRows DEF SetStart, LaunchFrom, Then, Typed, Doings, NotDoing, Mid
  <2>2. CASE doing.at = "none"
    <3>1. /\ ~(job[j].resa = "Scheduled" /\ gantt[j].start < now)
          /\ doing'.start = gantt[j].start
      BY <1>9, <2>2 DEF SetStart, Mid, Late, LaunchFrom
    <3>2. gantt[j].start >= now
      <4>1. CASE j \in Reservations
        BY <1>1, <2>2, <3>1, <4>1 DEF StatesAreSound, StateIsSound, Mid
      <4>2. CASE j \notin Reservations
        <5>1. plan = Nothing
          BY <1>1 DEF RoundIsSound, ReadIsSound
        <5>2. Row(j) = gantt[j]
          BY <2>2, <5>1 DEF Row, Held, InLaunch, LaunchSteps, Nothing
        <5>3. Placed(j)
          BY <1>1, <1>3 DEF Placed, Pending
        <5> QED
          BY <1>1, <4>2, <5>2, <5>3 DEF RoundIsSound, PlannedIsSound, InRound
      <4> QED
        BY <4>1, <4>2
    <3>3. gantt[j].start = now
      BY <1>1, <3>2
    <3> QED
      BY <1>2, <1>3, <1>5, <2>1, <2>2, <3>1, <3>3 DEF LaunchIsSound, OtherLaunch
  <2>3. CASE doing.at # "none"
    <3>1. doing.at = "gantt" /\ doing'.start = doing.start
      BY <1>9, <2>3 DEF SetStart, ToDo, Idle, Mid, Then, Typed, Doings, NotDoing
    <3>2. LateLaunch(j) /\ job[j].res = {}
      BY <1>6, <3>1 DEF LaunchIsSound, OtherLaunch
    <3> QED
      BY <1>2, <1>3, <2>1, <3>1, <3>2 DEF LaunchIsSound, LateLaunch
  <2> QED
    BY <2>2, <2>3
<1>10. CASE AddPairs(j)
  <2>1. /\ doing.at = "start" /\ doing'.at = "rows" /\ doing'.start = doing.start /\ gantt' = gantt
    BY <1>10 DEF AddPairs, Mid, Then, Typed, Doings, NotDoing
  <2>2. /\ LateLaunch(j) \/ OtherLaunch(j)
        /\ job[j].start = now /\ job[j].res = {}
    BY <1>6, <2>1 DEF LaunchIsSound
  <2>3. /\ job'[j].start = job[j].start /\ job'[j].walltime = job[j].walltime
        /\ job'[j].res = gantt[j].res
    BY <1>4, <1>10, <2>2, PairsRows
  <2>4. LateLaunch(j)' \/ OtherLaunch(j)'
    BY <1>2, <1>3, <2>1, <2>2, <2>3 DEF LateLaunch, OtherLaunch
  <2> QED
    BY <1>2, <2>1, <2>2, <2>3, <2>4 DEF LaunchIsSound
<1> QED
  BY <1>7, <1>8, <1>9, <1>10 DEF LaunchCommit

LEMMA StepDoing ==
  ASSUME Typed, StatesAreSound, RoundIsSound, KindOfStep
  PROVE  DoingIsSound'
<1>0. DoingIsSound
  BY DEF RoundIsSound
<1>1. doing'.at = "none" => DoingIsSound'
  BY DEF DoingIsSound, MarkIsSound, InLaunch, LaunchSteps
<1>2. Idle /\ doing' = doing => DoingIsSound'
  BY <1>1 DEF Idle
<1>3. CASE Drops
  <2>1. CASE doing' = doing /\ todo' = todo
    <3>1. \A i \in Jobs : job'[i] = job[i] \/ job'[i].state \in {"toError", "Error", "Terminated"}
      BY <1>3 DEF Drops
    <3>2. \A i \in todo : job'[i] = job[i] \/ job'[i].state \in {"Error", "Terminated"}
      BY <1>3, <2>1 DEF Drops
    <3>3. UNCHANGED <<now, phase, gantt, cut>>
      BY <1>3 DEF Drops, cuts
    <3>4. MarkIsSound'
      <4>1. doing.at = "state" => doing.job \in Jobs
        BY <1>0 DEF DoingIsSound, MarkIsSound, Reservations, Typed, Doings, NotDoing
      <4> QED
        BY <1>0, <2>1, <3>1, <3>3, <4>1 DEF DoingIsSound, MarkIsSound
    <3>5. ASSUME NEW i \in Jobs \ cut, InLaunch(i)', job'[i].state = "Waiting" PROVE LaunchIsSound(i)'
      <4>1. job'[i] = job[i] /\ InLaunch(i)
        BY <2>1, <3>1, <3>5 DEF InLaunch
      <4> QED
        BY <1>0, <2>1, <3>3, <3>5, <4>1 DEF DoingIsSound, LaunchIsSound, LateLaunch, OtherLaunch
    <3> QED
      BY <1>0, <2>1, <3>3, <3>4, <3>5 DEF DoingIsSound
  <2>2. CASE OffLaunch' /\ MarkIsSound'
    BY <2>2 DEF OffLaunch, DoingIsSound, InLaunch
  <2> QED
    BY <1>2, <1>3, <2>1, <2>2 DEF Drops
<1>4. CASE Cuts
  BY <1>1, <1>4 DEF Cuts, Leaving, NotDoing
<1>5. CASE Tick \/ Begin \/ SavePlan \/ WaitingDone \/ SaveNew \/ Decide \/ Gather
  <2>1. doing' = doing
    BY <1>5 DEF Tick, Begin, SavePlan, WaitingDone, SaveNew, Decide, Gather, round
  <2>2. Idle
    BY <1>5, PhasesOfDoing DEF Tick, Begin, SavePlan, WaitingDone, SaveNew, Decide, Gather
  <2> QED
    BY <1>2, <2>1, <2>2
<1>6. ASSUME NEW j \in Jobs, Submit(j) PROVE DoingIsSound'
  <2>1. UNCHANGED <<now, phase, todo, gantt, cut, doing>>
    BY <1>6 DEF Submit, world, round, cuts
  <2>2. job[j].state = "none" /\ j \notin todo /\ \A i \in Jobs \ {j} : job'[i] = job[i]
    BY <1>6, SubmitRows DEF StatesAreSound, StateIsSound
  <2>3. doing.at = "state" => doing.job \in Jobs
    BY <1>0 DEF DoingIsSound, MarkIsSound, Reservations, Typed, Doings, NotDoing
  <2>4. MarkIsSound'
    BY <1>0, <2>1, <2>2, <2>3 DEF DoingIsSound, MarkIsSound
  <2>5. ASSUME NEW i \in Jobs \ cut, InLaunch(i)', job'[i].state = "Waiting" PROVE LaunchIsSound(i)'
    <3>1. InLaunch(i) /\ i \in todo
      BY <1>0, <2>1, <2>5 DEF InLaunch, DoingIsSound
    <3>2. job'[i] = job[i]
      BY <2>2, <3>1
    <3> QED
      BY <1>0, <2>1, <2>5, <3>1, <3>2 DEF DoingIsSound, LaunchIsSound, LateLaunch, OtherLaunch
  <2> QED
    BY <1>0, <2>1, <2>4, <2>5 DEF DoingIsSound
<1>7. ASSUME NEW j \in Jobs, Plan(j) \/ WaitingReservation(j) PROVE DoingIsSound'
  <2>1. doing' = doing /\ phase \in {"plan", "waiting"}
    BY <1>7 DEF Plan, WaitingReservation
  <2> QED
    BY <1>2, <2>1, PhasesOfDoing
<1>8. ASSUME NEW j \in Reservations, j \in Jobs, NewReservation(j), Accept(j) PROVE DoingIsSound'
  <2>1. /\ phase' = "new" /\ j \notin DOMAIN gantt' /\ doing'.at = "state" /\ doing'.job = j
        /\ job[j].state \in {"Waiting", "Error", "Terminated"}
    BY <1>8 DEF NewReservation, Accept, Decided, RoundIsSound, ReadIsSound, InRound
  <2>2. OnlyState(j, "toAckReservation")
    BY <1>8, StateRows DEF Accept, Decided, StatesOf
  <2>3. job'[j].state \in {"toAckReservation", "Error", "Terminated"}
    BY <2>1, <2>2 DEF OnlyState, IsOver
  <2>4. MarkIsSound'
    BY <2>1, <2>3 DEF MarkIsSound
  <2> QED
    BY <2>1, <2>4 DEF DoingIsSound, InLaunch, LaunchSteps
<1>9. ASSUME NEW j \in Jobs, SetScheduled(j) \/ Launch(j) \/ Answer(j) PROVE DoingIsSound'
  BY <1>1, <1>9 DEF SetScheduled, Launch, Answer, NotDoing
<1>10. ASSUME NEW j \in Jobs, LaunchCommit(j) PROVE DoingIsSound'
  <2>1. doing'.job = j /\ doing'.at \in LaunchSteps /\ (doing'.start = gantt[j].start \/ (doing'.start = doing.start /\ doing.at \in LaunchSteps))
    BY <1>10, LaunchDoing
  <2>2. phase = "started" /\ j \in todo /\ gantt[j].start <= now
    BY <1>10, LaunchGantt DEF LaunchCommit
  <2>3. UNCHANGED <<now, phase, todo, cut>>
    BY <1>10 DEF LaunchCommit, SetMaxTime, SetGanttStart, SetStart, AddPairs, world, cuts
  <2>4. MarkIsSound'
    BY <2>1 DEF MarkIsSound, LaunchSteps
  <2>5. ASSUME NEW i \in Jobs \ cut, InLaunch(i)', job'[i].state = "Waiting" PROVE LaunchIsSound(i)'
    BY <1>10, <2>1, <2>5, CommitIsSound DEF InLaunch
  <2> QED
    BY <1>0, <2>1, <2>2, <2>3, <2>4, <2>5 DEF DoingIsSound
<1> QED
  BY <1>3, <1>4, <1>5, <1>6, <1>7, <1>8, <1>9, <1>10 DEF KindOfStep

LEMMA StepPhases ==
  ASSUME Typed, StatesAreSound, RoundIsSound, ReadIsSound', KindOfStep
  PROVE  PhaseIsSound'
<1> USE DEF PhaseIsSound
<1>0. PhaseIsSound /\ ReadIsSound
  BY DEF RoundIsSound
<1>1. CASE Drops
  <2>1. \A j \in DOMAIN plan : job'[j].state = "Waiting" => job[j].state = "Waiting"
    BY <1>1 DEF Drops, Typed
  <2> QED
    BY <1>0, <1>1, <2>1 DEF Drops
<1>2. CASE Cuts
  BY <1>2 DEF Cuts, Leaving
<1>3. CASE Tick
  BY <1>3 DEF Tick, round
<1>4. CASE Begin
  <2>1. \A j \in todo' : Queue[j] = "default" /\ j \in Jobs /\ job[j].resa = "None"
    BY <1>4 DEF Begin, Read, In
  <2>2. \A j \in todo' : j \notin Reservations
    BY <2>1 DEF StatesAreSound, StateIsSound
  <2> QED
    BY <1>4, <2>1, <2>2 DEF Begin, Nothing
<1>5. CASE SavePlan
  <2>1. CASE queue = "default"
    <3>1. \A j \in todo' : /\ j \in Jobs /\ job'[j].resa = "Scheduled" /\ j \in DOMAIN gantt'
      BY <1>5, <2>1 DEF SavePlan, Accepted, Read, In
    <3>2. \A j \in todo' : j \in Reservations
      BY <1>5, <3>1 DEF SavePlan, StatesAreSound, StateIsSound
    <3> QED
      BY <1>5, <2>1, <3>1, <3>2 DEF SavePlan
  <2>2. CASE queue # "default"
    BY <1>5, <2>2 DEF SavePlan
  <2> QED
    BY <2>1, <2>2
<1>6. CASE WaitingDone
  <2>1. \A j \in todo' : j \in Jobs /\ job[j].resa = "toSchedule"
    BY <1>6 DEF WaitingDone, Read, In
  <2>2. \A j \in todo' : j \in Reservations
    BY <2>1 DEF StatesAreSound, StateIsSound
  <2>3. plan' = Nothing
    BY <1>0, <1>6 DEF WaitingDone, ReadIsSound
  <2> QED
    BY <1>0, <1>6, <2>2, <2>3 DEF WaitingDone, Nothing
<1>7. CASE SaveNew
  <2>1. \A j \in todo' : /\ j \in Jobs /\ job[j].resa = "None" /\ Queue[j] = "besteffort"
    BY <1>7 DEF SaveNew, Read, In
  <2>2. \A j \in todo' : j \notin Reservations
    BY <2>1 DEF StatesAreSound, StateIsSound
  <2> QED
    BY <1>7, <2>1, <2>2 DEF SaveNew, Nothing
<1>8. CASE Decide
  <2>1. \A j \in todo' : j \in DOMAIN gantt /\ gantt[j].start <= now /\ gantt[j].res # {}
    BY <1>8 DEF Decide, Ready, AliveOf
  <2> QED
    BY <1>8, <2>1 DEF Decide, world
<1>9. CASE Gather
  BY <1>9 DEF Gather
<1>10. ASSUME NEW j \in Jobs, Submit(j) PROVE PhaseIsSound'
  <2>1. j \notin DOMAIN plan /\ j \notin todo
    BY <1>10 DEF Submit, StatesAreSound, StateIsSound
  <2> QED
    BY <1>0, <1>10, <2>1, SubmitRows DEF Submit, world, round, Typed
<1>11. ASSUME NEW j \in Jobs, Plan(j), ~UNCHANGED <<slots, plan>> PROVE PhaseIsSound'
  <2>1. DOMAIN plan' = DOMAIN plan \cup {j}
    BY <1>11, PlanRows DEF PlanAt
  <2> QED
    BY <1>0, <1>11, <2>1 DEF Plan
<1>12. ASSUME NEW j \in Jobs, WaitingReservation(j), Delay(j) \/ Reduce(j) PROVE PhaseIsSound'
  <2>1. DOMAIN gantt' = DOMAIN gantt
    BY <1>12, DelayRows, ReduceRows
  <2> QED
    BY <1>0, <1>12, <2>1 DEF WaitingReservation, Delay, Reduce
<1>13. ASSUME NEW j \in Reservations, j \in Jobs, NewReservation(j), Accept(j) PROVE PhaseIsSound'
  <2>1. DOMAIN plan' = DOMAIN plan \cup {j} /\ plan'[j].start >= now
        /\ \A i \in DOMAIN plan \ {j} : plan'[i] = plan[i]
    BY <1>13, AcceptRows DEF PlanAt
  <2>2. \A i \in Jobs \ {j} : job'[i] = job[i]
    BY <1>13, StateRows DEF Accept, Decided, StatesOf, OnlyState
  <2>3. job'[j].state # "Waiting"
    <3>1. /\ IsOver(j) => job'[j].state = job[j].state
          /\ ~IsOver(j) => job'[j].state = "toAckReservation"
      BY <1>13, StateRows DEF Accept, Decided, StatesOf, OnlyState
    <3> QED
      BY <3>1 DEF IsOver
  <2> QED
    BY <1>0, <1>13, <2>1, <2>2, <2>3 DEF NewReservation, Typed, world
<1>14. ASSUME NEW j \in Jobs, Launch(j) PROVE PhaseIsSound'
  <2>1. phase = "started"
    BY <1>14, LaunchGantt
  <2> QED
    BY <1>0, <1>14, <2>1 DEF Launch, world
<1>15. ASSUME NEW j \in Jobs, Answer(j) PROVE PhaseIsSound'
  BY <1>0, <1>15 DEF Answer, Mid, RoundIsSound, DoingIsSound, MarkIsSound
<1>16. ASSUME NEW j \in Jobs, Between(j) PROVE PhaseIsSound'
  <2>1. \A i \in Jobs : /\ job'[i].state = job[i].state
                        /\ job[i].resa = "Scheduled" => job'[i].resa = "Scheduled"
    BY <1>16 DEF Between
  <2>2. /\ DOMAIN gantt' = DOMAIN gantt /\ now \in Nat
        /\ \A i \in DOMAIN gantt : /\ gantt'[i].res = gantt[i].res
                                   /\ gantt'[i].start = gantt[i].start \/ gantt'[i].start = now
    BY <1>16, Settings DEF Between, Typed
  <2>3. UNCHANGED <<now, phase, queue, todo, plan>>
    BY <1>16 DEF Between, world
  <2> QED
    BY <1>0, <2>1, <2>2, <2>3 DEF Typed
<1> QED
  BY <1>1, <1>2, <1>3, <1>4, <1>5, <1>6, <1>7, <1>8, <1>9, <1>10, <1>11, <1>12, <1>13, <1>14, <1>15, <1>16
     DEF KindOfStep

(* When rows are saved nothing changes for the jobs that have a place *)
SamePlaces ==
  \A i \in Jobs : Placed(i)' => Placed(i) /\ Row(i)' = Row(i) /\ job'[i].state = job[i].state

(* But for those whose launch is cut, and may have moved in the gantt *)
SameUncut ==
  /\ cut \subseteq cut'
  /\ \A i \in Jobs \ cut' : Placed(i)' => Placed(i) /\ Row(i)' = Row(i) /\ job'[i].state = job[i].state

LEMMA IdleRows ==
  ASSUME Idle
  PROVE  \A i : Held(i) = gantt[i] /\ ~InLaunch(i)
BY DEF Idle, Held, InLaunch, LaunchSteps

LEMMA SameHeld ==
  ASSUME gantt' = gantt, doing' = doing \/ (OffLaunch /\ OffLaunch')
  PROVE  \A i : Held(i)' = Held(i)
BY DEF Held, InLaunch, OffLaunch

LEMMA SavedPlaces ==
  ASSUME Typed, RoundIsSound, SavePlan \/ SaveNew
  PROVE  SamePlaces
<1>1. plan' = Nothing /\ gantt' = Saved /\ job' = job /\ doing' = doing
  BY DEF SavePlan, SaveNew
<1>2. Idle
  BY PhasesOfDoing DEF SavePlan, SaveNew
<1>3. \A i : Held(i) = gantt[i] /\ Held(i)' = gantt'[i]
  BY <1>1, <1>2 DEF Idle, Held, InLaunch, LaunchSteps
<1> QED
  BY <1>1, <1>3, SavedRows DEF SamePlaces, Placed, Row, Nothing

LEMMA CutPlaces ==
  ASSUME Typed, RoundIsSound, Cuts
  PROVE  SameUncut
<1>1. plan' = Nothing /\ gantt' = gantt /\ job' = job /\ doing'.at = "none"
  BY DEF Cuts, Leaving, base, NotDoing
<1>2. DOMAIN plan \cap DOMAIN gantt = {}
  BY DEF RoundIsSound, ReadIsSound, Nothing
<1>3. \A i \in Jobs \ cut' : Placed(i) => ~InLaunch(i)
  BY DEF Cuts, Placed, Pending, IsOver
<1>4. \A i \in Jobs \ cut' : Placed(i) => Held(i)' = Held(i)
  BY <1>1, <1>3 DEF Held, InLaunch, LaunchSteps
<1>5. \A i \in Jobs : Placed(i)' => Placed(i) /\ Row(i)' = Held(i)' /\ Row(i) = Held(i)
  BY <1>1, <1>2 DEF Placed, Row, Nothing
<1> QED
  BY <1>1, <1>4, <1>5 DEF SameUncut, Cuts

LEMMA DropPlaces ==
  ASSUME Typed, Drops
  PROVE  SamePlaces
<1>1. \A i : Held(i)' = Held(i)
  BY SameHeld DEF Drops
<1> QED
  BY <1>1 DEF Drops, SamePlaces, Placed, Row, Pending

LEMMA SubmitPlaces ==
  ASSUME Typed, StatesAreSound, NEW j \in Jobs, Submit(j)
  PROVE  SamePlaces
<1>1. j \notin DOMAIN gantt \cup DOMAIN plan
  BY DEF Submit, StatesAreSound, StateIsSound
<1>2. \A i : Held(i)' = Held(i)
  BY SameHeld DEF Submit, round
<1> QED
  BY <1>1, <1>2, SubmitRows DEF Submit, round, SamePlaces, Placed, Row

LEMMA BeginPlaces ==
  ASSUME Typed, StatesAreSound, RoundIsSound, Begin
  PROVE  SamePlaces /\ \A i \in Jobs : Placed(i)' => i \in Reservations
<1>1. plan' = Nothing /\ plan = Nothing /\ job' = job /\ doing' = doing
  BY DEF Begin, RoundIsSound, ReadIsSound
<1>4. Idle
  BY PhasesOfDoing DEF Begin
<1>5. \A i : Held(i) = gantt[i] /\ Held(i)' = gantt'[i]
  BY <1>1, <1>4 DEF Idle, Held, InLaunch, LaunchSteps
<1>2. \A i \in Jobs : Placed(i)' => i \in DOMAIN gantt' /\ job[i].state \in Pending
  BY <1>1 DEF Placed, Nothing
<1>3. \A i \in Jobs : Placed(i)' => /\ i \in DOMAIN gantt /\ i \in Reservations /\ gantt'[i] = gantt[i]
  BY <1>2, BeginRows DEF Pending
<1> QED
  BY <1>1, <1>2, <1>3, <1>5 DEF SamePlaces, Placed, Row, Nothing

(* A job that is given a place *)
LEMMA PlanPlaces ==
  ASSUME Typed, RoundIsSound, NEW j \in Jobs, Plan(j), ~UNCHANGED <<slots, plan>>
  PROVE  \E start \in Nat, res \in SUBSET Resources :
           /\ start >= now /\ res # {} /\ res \subseteq seen /\ res \subseteq Place(j, start)
           /\ slots' = slots \cup {Taken(j, start, res)}
           /\ Row(j)'.start = start /\ Row(j)'.res = res
           /\ \A i \in Jobs \ {j} : Placed(i)' => Placed(i) /\ Row(i)' = Row(i)
<1>1. PICK start \in Nat : \E res \in SUBSET Place(j, start) :
        /\ start >= now /\ res # {} /\ res \subseteq seen /\ PlanAt(j, start, res)
  BY PlanRows
<1>2. PICK res \in SUBSET Place(j, start) :
        /\ start >= now /\ res # {} /\ res \subseteq seen /\ PlanAt(j, start, res)
  BY <1>1
<1>3. UNCHANGED <<job, gantt>>
  BY DEF Plan, base
<1>7. \A i : Held(i)' = Held(i)
  BY SameHeld DEF Plan, base
<1>4. Row(j)'.start = start /\ Row(j)'.res = res
  BY <1>2 DEF PlanAt, Row
<1>5. \A i \in Jobs \ {j} : Placed(i)' => Placed(i) /\ Row(i)' = Row(i)
  BY <1>2, <1>3, <1>7 DEF PlanAt, Row, Placed
<1>6. res \in SUBSET Resources
  BY <1>2 DEF Typed
<1> QED
  BY <1>2, <1>4, <1>5, <1>6 DEF PlanAt

LEMMA AcceptPlaces ==
  ASSUME Typed, RoundIsSound, NEW j \in Reservations, j \in Jobs, NewReservation(j), Accept(j)
  PROVE  /\ From(j) \in Nat /\ From(j) >= now
         /\ \E res \in SUBSET Resources :
              /\ res # {} /\ res \subseteq seen /\ res \subseteq Room(j)
              /\ slots' = slots \cup {Taken(j, From(j), res)}
              /\ Row(j)'.start = From(j) /\ Row(j)'.res = res
         /\ \A i \in Jobs \ {j} : Placed(i)' => Placed(i) /\ Row(i)' = Row(i)
         /\ \A i \in Jobs \ {j} : job'[i] = job[i]
         /\ Placed(j)' => job[j].state = "Waiting" /\ job'[j].state = "toAckReservation"
         /\ job'[j].walltime = job[j].walltime
<1>1. PICK res \in SUBSET Room(j) : res # {} /\ res \subseteq seen /\ PlanAt(j, From(j), res)
  BY AcceptRows
<1>2. Row(j)'.start = From(j) /\ Row(j)'.res = res
  BY <1>1 DEF PlanAt, Row
<1>3. OnlyState(j, "toAckReservation") /\ gantt' = gantt
  BY StateRows DEF NewReservation, Accept, Decided, StatesOf
<1>4. \A i \in Jobs \ {j} : job'[i] = job[i]
  BY <1>3 DEF OnlyState
<1>10. \A i : Held(i)' = Held(i)
  BY <1>3, SameHeld DEF NewReservation, Accept, Decided, Idle, OffLaunch, LaunchSteps
<1>5. \A i \in Jobs \ {j} : Placed(i)' => Placed(i) /\ Row(i)' = Row(i)
  BY <1>1, <1>3, <1>4, <1>10 DEF PlanAt, Row, Placed
<1>6. job[j].state \in {"Waiting", "Error", "Terminated"}
  BY DEF NewReservation, RoundIsSound, ReadIsSound, InRound
<1>7. /\ IsOver(j) => job'[j].state = job[j].state
      /\ ~IsOver(j) => job'[j].state = "toAckReservation"
      /\ job'[j].walltime = job[j].walltime
  BY <1>3 DEF OnlyState
<1>8. Placed(j)' => job[j].state = "Waiting" /\ job'[j].state = "toAckReservation"
  BY <1>6, <1>7 DEF IsOver, Placed, Pending
<1>9. res \in SUBSET Resources
  BY <1>1 DEF Typed
<1> QED
  BY <1>1, <1>2, <1>4, <1>5, <1>7, <1>8, <1>9, AcceptRows DEF PlanAt

LEMMA GanttPlaces ==
  ASSUME Typed, RoundIsSound, NEW j \in Jobs, WaitingReservation(j), Delay(j) \/ Reduce(j)
  PROVE  /\ \A i \in Jobs \ {j} : Placed(i)' => Placed(i) /\ Row(i)' = Row(i)
         /\ Placed(j)' => Placed(j)
         /\ \/ Row(j)'.res \cap seen = {} /\ Row(j)'.res = Row(j).res
            \/ Row(j)'.res = {}
            \/ Row(j)'.res = Row(j).res /\ Row(j)'.start = Row(j).start
         /\ j \in Reservations /\ job' = job
         /\ Row(j)'.start \in Nat
<1>1. UNCHANGED <<plan, job>> /\ plan = Nothing /\ now \in Nat
  BY Settings DEF WaitingReservation, Delay, Reduce, RoundIsSound, ReadIsSound, Typed
<1>2. /\ j \in DOMAIN gantt /\ DOMAIN gantt' = DOMAIN gantt
      /\ \A i \in DOMAIN gantt \ {j} : gantt'[i] = gantt[i]
      /\ \/ gantt'[j].res \cap seen = {} /\ gantt'[j].res = gantt[j].res /\ gantt'[j].start = now + 1
         \/ gantt'[j].res = {} /\ gantt'[j].start = gantt[j].start
         \/ gantt'[j].res = gantt[j].res /\ gantt'[j].start = gantt[j].start
  BY DelayRows, ReduceRows
<1>3. j \in Reservations
  BY DEF WaitingReservation, RoundIsSound, PhaseIsSound
<1>4. gantt[j].start \in Nat
  BY <1>2 DEF Typed, GanttJobsPrediction
<1>5. Idle /\ doing' = doing
  BY PhasesOfDoing DEF WaitingReservation
<1>6. \A i : Held(i) = gantt[i] /\ Held(i)' = gantt'[i]
  BY <1>5 DEF Idle, Held, InLaunch, LaunchSteps
<1> QED
  BY <1>1, <1>2, <1>3, <1>4, <1>6 DEF Placed, Row, Nothing

(* Between two commits all the places are the same *)
LEMMA BetweenPlaces ==
  ASSUME Typed, NEW j \in Jobs, Between(j)
  PROVE  /\ SamePlaces
         /\ \A i \in Jobs : /\ job[i].state = "toLaunch" => job'[i] = job[i]
                            /\ job'[i].state = job[i].state
<1>1. \A i \in Jobs : job'[i].state = job[i].state
  BY DEF Between
<1>2. /\ plan' = plan /\ DOMAIN gantt' = DOMAIN gantt /\ \A i \in DOMAIN gantt : Held(i)' = Held(i)
  BY DEF Between
<1>3. \A i \in Jobs : Placed(i)' => Placed(i) /\ Row(i)' = Row(i)
  BY <1>1, <1>2 DEF Placed, Row
<1> QED
  BY <1>1, <1>3 DEF SamePlaces, Between

(* A job that is launched: what its row is when it runs *)
LEMMA LaunchRows ==
  ASSUME Typed, RoundIsSound, NEW j \in Jobs, Launch(j)
  PROVE  /\ \A i \in Jobs \ {j} : job'[i] = job[i]
         /\ IsOver(j) => job'[j] = job[j]
         /\ ~IsOver(j) => job[j].state = "Waiting" /\ job'[j].state = "toLaunch"
         /\ job'[j].resa = job[j].resa /\ job'[j].start = job[j].start
         /\ job'[j].walltime = job[j].walltime /\ job'[j].res = job[j].res
         /\ j \in DOMAIN gantt /\ gantt[j].start <= now /\ gantt[j].res # {}
         /\ phase = "started" /\ j \in todo /\ gantt' = gantt /\ InLaunch(j) /\ ~InLaunch(j)'
<1>1. OnlyState(j, "toLaunch")
  BY StateRows DEF Launch, StatesOf
<1>2. gantt' = gantt /\ InLaunch(j) /\ ~InLaunch(j)'
  BY DEF Launch, Mid, InLaunch, LaunchSteps, NotDoing
<1> QED
  BY <1>1, <1>2, LaunchGantt DEF OnlyState, IsOver

(* It has begun at the date of the round, on the resources of its place; a *)
(* reservation that was late ends a security time after its walltime.      *)
LaunchedOnTime(j) ==
  /\ job'[j].start = now /\ job'[j].res = gantt[j].res /\ gantt[j].start = now
  /\ \/ /\ job[j].resa = "Scheduled" /\ Held(j).start < now
        /\ job'[j].walltime = Walltime[j] + Security - (now - Held(j).start)
     \/ Held(j).start = now /\ job'[j].walltime = Walltime[j]

LEMMA LaunchedRow ==
  ASSUME Typed, RoundIsSound, NEW j \in Jobs \ cut, Launch(j), ~IsOver(j)
  PROVE  LaunchedOnTime(j)
<1>1. /\ job[j].state = "Waiting" /\ job'[j].start = job[j].start
      /\ job'[j].walltime = job[j].walltime /\ job'[j].res = job[j].res
      /\ j \in DOMAIN gantt /\ InLaunch(j)
  BY LaunchRows
<1>2. LaunchIsSound(j) /\ doing.at = "rows"
  BY <1>1 DEF Launch, Mid, RoundIsSound, DoingIsSound
<1>3. Held(j).start = doing.start
  BY <1>1, HeldRow
<1> QED
  BY <1>1, <1>2, <1>3 DEF LaunchedOnTime, LaunchIsSound, LateLaunch, OtherLaunch

LEMMA LaunchPlaces ==
  ASSUME Typed, RoundIsSound, NEW j \in Jobs, Launch(j)
  PROVE  /\ \A i \in Jobs \ {j} : Placed(i)' => Placed(i) /\ Row(i)' = Row(i)
         /\ ~Placed(j)'
         /\ \A i \in DOMAIN gantt : Row(i) = Held(i)
         /\ ~IsOver(j) => Placed(j)
<1>1. plan = Nothing /\ plan' = plan /\ gantt' = gantt
  BY LaunchGantt DEF Launch, RoundIsSound, ReadIsSound
<1>2. /\ \A i \in Jobs \ {j} : job'[i] = job[i]
      /\ IsOver(j) => job'[j] = job[j]
      /\ ~IsOver(j) => job[j].state = "Waiting" /\ job'[j].state = "toLaunch"
      /\ j \in DOMAIN gantt
  BY LaunchRows
<1>3. \A i \in Jobs \ {j} : ~InLaunch(i) /\ ~InLaunch(i)'
  BY DEF Launch, Mid, InLaunch, NotDoing, LaunchSteps
<1>4. \A i \in Jobs \ {j} : Held(i)' = Held(i)
  BY <1>1, <1>3 DEF Held
<1> QED
  BY <1>1, <1>2, <1>4 DEF Placed, Row, Nothing, Pending, IsOver

LEMMA AcceptLaunchesNone ==
  ASSUME Typed, RoundIsSound, NEW j \in Jobs, NewReservation(j), Accept(j)
  PROVE  \A i \in Jobs : job'[i].state = "toLaunch" => job'[i] = job[i]
<1>1. /\ job[j].state \in {"Waiting", "Error", "Terminated"}
      /\ IsOver(j) => job'[j].state = job[j].state
      /\ ~IsOver(j) => job'[j].state = "toAckReservation"
      /\ \A i \in Jobs \ {j} : job'[i] = job[i]
  BY StateRows DEF NewReservation, RoundIsSound, ReadIsSound, InRound, Accept, Decided, StatesOf, OnlyState
<1> QED
  BY <1>1 DEF IsOver

LEMMA StepPlanned ==
  ASSUME Typed, StatesAreSound, RoundIsSound, StatesAreSound', PhaseIsSound', KindOfStep
  PROVE  PlannedIsSound'
<1> USE DEF PlannedIsSound, InRound, Planning
<1>0. PlannedIsSound
  BY DEF RoundIsSound
<1>1. CASE Drops
  BY <1>0, <1>1, DropPlaces DEF Drops, SamePlaces
<1>2. CASE Cuts
  BY <1>2 DEF Cuts, Leaving
<1>3. CASE Tick
  BY <1>3 DEF Tick, round
<1>4. CASE Begin
  BY <1>4, BeginPlaces
<1>5. CASE SavePlan
  BY <1>0, <1>5, SavedPlaces DEF SavePlan, SamePlaces, world
<1>6. CASE WaitingDone
  BY <1>0, <1>6, SameHeld DEF WaitingDone, world, base, Placed, Row
<1>7. CASE SaveNew
  BY <1>0, <1>7, SavedPlaces DEF SaveNew, SamePlaces, world
<1>8. CASE Decide
  BY <1>0, <1>8, SameHeld DEF Decide, world, Placed, Row
<1>9. CASE Gather
  BY <1>9 DEF Gather
<1>10. ASSUME NEW j \in Jobs, Submit(j) PROVE PlannedIsSound'
  BY <1>0, <1>10, SubmitPlaces DEF Submit, world, round, SamePlaces
<1>11. ASSUME NEW j \in Jobs, Plan(j), ~UNCHANGED <<slots, plan>> PROVE PlannedIsSound'
  <2>1. /\ Row(j)'.start >= now /\ Row(j)'.res \subseteq seen
        /\ \A i \in Jobs \ {j} : Placed(i)' => Placed(i) /\ Row(i)' = Row(i)
    BY <1>11, PlanPlaces
  <2>2. Queue[j] = queue
    BY <1>11 DEF Plan, RoundIsSound, PhaseIsSound
  <2>3. UNCHANGED <<now, seen, queue, phase>>
    BY <1>11 DEF Plan, world
  <2> QED
    BY <1>0, <2>1, <2>2, <2>3
<1>12. ASSUME NEW j \in Jobs, WaitingReservation(j), Delay(j) \/ Reduce(j) PROVE PlannedIsSound'
  <2>1. j \in Reservations /\ \A i \in Jobs \ {j} : Placed(i)' => Placed(i) /\ Row(i)' = Row(i)
    BY <1>12, GanttPlaces
  <2> QED
    BY <1>0, <1>12, <2>1 DEF WaitingReservation, world
<1>13. ASSUME NEW j \in Reservations, j \in Jobs, NewReservation(j), Accept(j) PROVE PlannedIsSound'
  <2>1. \A i \in Jobs \ {j} : Placed(i)' => Placed(i) /\ Row(i)' = Row(i)
    BY <1>13, AcceptPlaces
  <2> QED
    BY <1>0, <1>13, <2>1 DEF NewReservation, world
<1>14. ASSUME NEW j \in Jobs, Launch(j) PROVE PlannedIsSound'
  <2>1. \A i \in Jobs \ {j} : Placed(i)' => Placed(i) /\ Row(i)' = Row(i)
    BY <1>14, LaunchPlaces
  <2>2. ~Placed(j)'
    BY <1>14, LaunchPlaces
  <2> QED
    BY <1>0, <1>14, <2>1, <2>2 DEF Launch, world
<1>15. ASSUME NEW j \in Jobs, Answer(j) PROVE PlannedIsSound'
  BY <1>15 DEF Answer, Mid, RoundIsSound, DoingIsSound, MarkIsSound
<1>16. ASSUME NEW j \in Jobs, Between(j) PROVE PlannedIsSound'
  <2>1. SamePlaces /\ UNCHANGED <<now, phase, queue, seen>>
    BY <1>16, BetweenPlaces DEF Between, world
  <2> QED
    BY <1>0, <2>1 DEF SamePlaces
<1> QED
  BY <1>1, <1>2, <1>3, <1>4, <1>5, <1>6, <1>7, <1>8, <1>9, <1>10, <1>11, <1>12, <1>13, <1>14, <1>15, <1>16
     DEF KindOfStep

LEMMA StepRound ==
  Typed /\ StatesAreSound /\ RoundIsSound /\ StatesAreSound' /\ [Next]_vars => RoundIsSound'
BY StepKind, StepReads, StepPhases, StepPlanned, StepDoing DEF RoundIsSound

-----------------------------------------------------------------------------
(* What the slots take *)

(* More slots cover as much *)
LEMMA MoreSlots ==
  ASSUME NEW taken, NEW more, taken \subseteq more, NEW sight,
         NEW start, NEW walltime, NEW res, NEW low,
         Covers(taken, sight, start, walltime, res, low)
  PROVE  Covers(more, sight, start, walltime, res, low)
BY DEF Covers

LEMMA TakenCovers ==
  ASSUME Typed, NEW j \in Jobs, NEW start \in Int, NEW res, NEW taken, NEW sight, NEW part,
         Taken(j, start, res) \in taken, part \cap sight \subseteq res
  PROVE  Covers(taken, sight, start, job[j].walltime, part, Low(j))
<1>1. PICK s \in taken : s = Taken(j, start, res)
  OBVIOUS
<1>2. /\ s.from = start /\ s.to = start + job[j].walltime + Security - 1
      /\ s.res = res /\ s.be = Low(j)
  BY <1>1 DEF Taken, Low
<1>3. job[j].walltime \in Int /\ Security \in Int
  BY Settings DEF Typed, JobRows
<1>4. s.from <= start /\ start + job[j].walltime + Security <= s.to + 1
  BY <1>2, <1>3
<1> HIDE DEF Low
<1> QED
  BY <1>1, <1>2, <1>4 DEF Covers

(* A job stays among those whose launch was cut *)
LEMMA CutStays == ASSUME KindOfStep PROVE cut \subseteq cut' /\ (~Cuts => cut' = cut)
<1> USE DEF cuts
<1>1. ASSUME NEW j \in Jobs, Submit(j) \/ Plan(j) \/ WaitingReservation(j) \/ NewReservation(j)
                             \/ Launch(j) \/ Answer(j) \/ Between(j)
      PROVE  cut' = cut
  BY <1>1 DEF Submit, Plan, WaitingReservation, NewReservation, Launch, Answer, Between
<1>2. ASSUME Drops \/ Tick \/ Begin \/ SavePlan \/ WaitingDone \/ SaveNew \/ Decide \/ Gather
      PROVE  cut' = cut
  BY <1>2 DEF Drops, Tick, Begin, SavePlan, WaitingDone, SaveNew, Decide, Gather
<1>3. Cuts => cut \subseteq cut'
  BY DEF Cuts
<1> QED
  BY <1>1, <1>2, <1>3 DEF KindOfStep

(* In the phases that plan, the walltime of a job that waits is its own *)
LEMMA PlannedWalltime ==
  ASSUME Typed, StatesAreSound, RoundIsSound, phase \notin {"started"}, NEW j \in Jobs \ cut, job[j].state \in Pending
  PROVE  job[j].walltime = Walltime[j]
<1>1. ~InLaunch(j)
  BY DEF RoundIsSound, DoingIsSound, InLaunch
<1> QED
  BY <1>1, PendingWalltime

LEMMA StepSlots ==
  ASSUME Typed, StatesAreSound, RoundIsSound, SlotsCover, Typed', StatesAreSound', KindOfStep
  PROVE  SlotsCover'
<1> DEFINE Covered(i) ==
             /\ job'[i].state = "toLaunch" =>
                  Covers(slots', seen', job'[i].start, job'[i].walltime, job'[i].res, Low(i))
             /\ Placed(i)' => Covers(slots', seen', Row(i)'.start, Walltime[i], Row(i)'.res, Low(i))
<1> SUFFICES ASSUME Planning', NEW i \in Jobs \ cut'
             PROVE  Covered(i)
  BY DEF SlotsCover, Low
<1> USE DEF Planning
<1>00. i \in Jobs \ cut
  BY CutStays
<1>0. Planning =>
        /\ job[i].state = "toLaunch" =>
             Covers(slots, seen, job[i].start, job[i].walltime, job[i].res, Low(i))
        /\ Placed(i) => Covers(slots, seen, Row(i).start, Walltime[i], Row(i).res, Low(i))
  BY <1>00 DEF SlotsCover
<1>1. CASE Drops
  <2>1. Planning /\ slots' = slots /\ seen' = seen
    BY <1>1 DEF Drops
  <2>2. job'[i].state = "toLaunch" => job'[i] = job[i]
    BY <1>1 DEF Drops
  <2>3. Placed(i)' => Placed(i) /\ Row(i)' = Row(i)
    BY <1>1, DropPlaces DEF SamePlaces
  <2> QED
    BY <1>0, <2>1, <2>2, <2>3
<1>2. CASE Cuts \/ Gather \/ Decide
  BY <1>2 DEF Cuts, Leaving, Gather, Decide
<1>3. CASE Tick
  BY <1>3, <1>0, SameHeld DEF Tick, base, round, Placed, Row
<1>4. CASE Begin
  <2>1. slots' = {Taken(j, gantt'[j].start, Mapped(gantt'[j].res, Seen)) : j \in DOMAIN gantt'}
    BY <1>4 DEF Begin
  <2>2. seen' = Seen /\ job' = job /\ plan' = Nothing
    BY <1>4 DEF Begin
  <2>3. job[i].state = "toLaunch" \/ Placed(i)' => i \in DOMAIN gantt'
    BY <1>4, <2>2, BeginRows DEF Placed, Nothing
  <2>4. SUFFICES ASSUME i \in DOMAIN gantt' PROVE Covered(i)
    BY <2>2, <2>3
  <2>5. gantt'[i].start \in Int
    BY <2>4 DEF Typed, GanttJobsPrediction
  <2>6. Taken(i, gantt'[i].start, Mapped(gantt'[i].res, Seen)) \in slots'
    BY <2>1, <2>4
  <2>7. \A part : part \cap Seen \subseteq Mapped(gantt'[i].res, Seen) =>
           Covers(slots', seen', gantt'[i].start, job[i].walltime, part, Low(i))
    BY <2>2, <2>5, <2>6, TakenCovers
  <2>8. job[i].state = "toLaunch" =>
          /\ gantt'[i].start = job[i].start
          /\ job[i].res \cap Seen \subseteq Mapped(gantt'[i].res, Seen)
    <3>1. job[i].state = "toLaunch" =>
            gantt'[i].start = job[i].start /\ gantt'[i].res = Written(job[i].res, Seen)
      BY <1>4, <2>4, BeginRows DEF Pending
    <3>2. job[i].res \cap Seen \subseteq Mapped(Written(job[i].res, Seen), Seen)
      BY DEF Written, Mapped
    <3> QED
      BY <3>1, <3>2
  <2>9. Placed(i)' => /\ Row(i)'.start = gantt'[i].start /\ Row(i)'.res = gantt'[i].res
                      /\ job[i].walltime = Walltime[i]
    <3>1. Idle /\ doing' = doing
      BY <1>4, PhasesOfDoing DEF Begin
    <3>2. Held(i)' = gantt'[i]
      BY <3>1 DEF Idle, Held, InLaunch, LaunchSteps
    <3>3. Placed(i)' => job[i].state \in Pending
      BY <2>2 DEF Placed
    <3>4. phase = "rest"
      BY <1>4 DEF Begin
    <3> QED
      BY <1>00, <2>2, <3>2, <3>3, <3>4, PlannedWalltime DEF Row, Nothing
  <2>10. gantt'[i].res \cap Seen \subseteq Mapped(gantt'[i].res, Seen)
    BY DEF Mapped
  <2> QED
    BY <2>2, <2>7, <2>8, <2>9, <2>10
<1>5. CASE SavePlan
  <2>1. Planning /\ slots' = slots /\ seen' = seen /\ job' = job
    BY <1>5 DEF SavePlan
  <2>2. Placed(i)' => Placed(i) /\ Row(i)' = Row(i)
    BY <1>5, SavedPlaces DEF SamePlaces
  <2> QED
    BY <1>0, <2>1, <2>2
<1>6. CASE WaitingDone
  BY <1>0, <1>6, SameHeld DEF WaitingDone, base, Placed, Row
<1>7. CASE SaveNew
  <2>1. Planning /\ slots' = slots /\ seen' = seen /\ job' = job
    BY <1>7 DEF SaveNew
  <2>2. Placed(i)' => Placed(i) /\ Row(i)' = Row(i)
    BY <1>7, SavedPlaces DEF SamePlaces
  <2> QED
    BY <1>0, <2>1, <2>2
<1>8. ASSUME NEW j \in Jobs, Submit(j) PROVE Covered(i)
  <2>1. Planning /\ slots' = slots /\ seen' = seen
    BY <1>8 DEF Submit, round
  <2>2. job'[i].state = "toLaunch" => job'[i] = job[i]
    BY <1>8, SubmitRows
  <2>3. Placed(i)' => Placed(i) /\ Row(i)' = Row(i)
    BY <1>8, SubmitPlaces DEF SamePlaces
  <2> QED
    BY <1>0, <2>1, <2>2, <2>3
<1>9. ASSUME NEW j \in Jobs, Plan(j), ~UNCHANGED <<slots, plan>> PROVE Covered(i)
  <2>1. PICK start \in Nat, res \in SUBSET Resources :
          /\ slots' = slots \cup {Taken(j, start, res)}
          /\ Row(j)'.start = start /\ Row(j)'.res = res
          /\ \A k \in Jobs \ {j} : Placed(k)' => Placed(k) /\ Row(k)' = Row(k)
    BY <1>9, PlanPlaces
  <2>2. Planning /\ seen' = seen /\ job' = job
    BY <1>9 DEF Plan, base
  <2>3. CASE i # j
    <3>1. Placed(i)' => Placed(i) /\ Row(i)' = Row(i)
      BY <2>1, <2>3
    <3> QED
      BY <1>0, <2>1, <2>2, <3>1, MoreSlots
  <2>4. CASE i = j
    <3>1. Covers(slots', seen', start, job[j].walltime, res, Low(j))
      <4>1. start \in Int /\ Taken(j, start, res) \in slots' /\ res \cap seen' \subseteq res
        BY <2>1
      <4> QED
        BY <4>1, TakenCovers
    <3>2. Placed(j)' => job[j].walltime = Walltime[j]
      BY <1>00, <1>9, <2>2, <2>4, PlannedWalltime DEF Placed, Plan
    <3> QED
      BY <1>0, <2>1, <2>2, <2>4, <3>1, <3>2, MoreSlots
  <2> QED
    BY <2>3, <2>4
<1>10. ASSUME NEW j \in Jobs, WaitingReservation(j), Delay(j) \/ Reduce(j) PROVE Covered(i)
  <2>1. Planning /\ slots' = slots /\ seen' = seen
    BY <1>10 DEF WaitingReservation
  <2>2. /\ job' = job
        /\ i # j => (Placed(i)' => Placed(i) /\ Row(i)' = Row(i))
        /\ Placed(j)' => Placed(j)
        /\ \/ Row(j)'.res \cap seen = {} /\ Row(j)'.res = Row(j).res
           \/ Row(j)'.res = {}
           \/ Row(j)'.res = Row(j).res /\ Row(j)'.start = Row(j).start
    BY <1>10, GanttPlaces
  <2>3. \A res : res \cap seen = {} =>
          Covers(slots', seen', Row(j)'.start, Walltime[j], res, Low(j))
    BY <2>1 DEF Covers
  <2> QED
    BY <1>0, <2>1, <2>2, <2>3
<1>11. ASSUME NEW j \in Reservations, j \in Jobs, NewReservation(j), Accept(j) PROVE Covered(i)
  <2>1. PICK res \in SUBSET Resources :
          /\ slots' = slots \cup {Taken(j, From(j), res)}
          /\ Row(j)'.start = From(j) /\ Row(j)'.res = res
    BY <1>11, AcceptPlaces
  <2>2. /\ From(j) \in Nat
        /\ i # j => (Placed(i)' => Placed(i) /\ Row(i)' = Row(i)) /\ job'[i] = job[i]
        /\ Placed(j)' => job[j].state = "Waiting" /\ job'[j].state = "toAckReservation"
    BY <1>11, AcceptPlaces
  <2>3. Planning /\ seen' = seen
    BY <1>11 DEF NewReservation
  <2>4. CASE i # j
    BY <1>0, <2>1, <2>2, <2>3, <2>4, MoreSlots
  <2>5. CASE i = j
    <3>1. Covers(slots', seen', From(j), job[j].walltime, res, Low(j))
      <4>1. From(j) \in Int /\ Taken(j, From(j), res) \in slots' /\ res \cap seen' \subseteq res
        BY <2>1, <2>2
      <4> QED
        BY <1>11, <4>1, TakenCovers
    <3>2. Placed(j)' => job[j].walltime = Walltime[j]
      BY <1>00, <1>11, <2>2, <2>5, PlannedWalltime DEF Pending, NewReservation
    <3>3. job'[j].state # "toLaunch"
      <4>1. job[j].state # "toLaunch"
        BY <1>11 DEF NewReservation, RoundIsSound, ReadIsSound, InRound
      <4>2. job'[j].state = "toLaunch" => job'[j] = job[j]
        BY <1>11, AcceptLaunchesNone
      <4> QED
        BY <4>1, <4>2
    <3> QED
      BY <2>1, <2>5, <3>1, <3>2, <3>3
  <2> QED
    BY <2>4, <2>5
<1>12. ASSUME NEW j \in Jobs, Launch(j) PROVE Covered(i)
  BY <1>12, LaunchGantt DEF Launch
<1>13. ASSUME NEW j \in Jobs, Answer(j) PROVE Covered(i)
  BY <1>13 DEF Answer, Mid, RoundIsSound, DoingIsSound, MarkIsSound
<1>14. ASSUME NEW j \in Jobs, Between(j) PROVE Covered(i)
  <2>1. Planning /\ slots' = slots /\ seen' = seen
    BY <1>14 DEF Between
  <2>2. job'[i].state = "toLaunch" => job'[i] = job[i]
    BY <1>14, BetweenPlaces
  <2>3. Placed(i)' => Placed(i) /\ Row(i)' = Row(i)
    BY <1>14, BetweenPlaces DEF SamePlaces
  <2> QED
    BY <1>0, <2>1, <2>2, <2>3
<1> QED
  BY <1>1, <1>2, <1>3, <1>4, <1>5, <1>6, <1>7, <1>8, <1>9, <1>10, <1>11, <1>12, <1>13, <1>14
     DEF KindOfStep

-----------------------------------------------------------------------------
(* Steps that give no place and launch nothing *)

Frame ==
  /\ SameUncut
  /\ now' = now /\ fails' >= fails
  /\ \A i \in Jobs : job'[i].state = "toLaunch" => job'[i] = job[i]

LEMMA FrameSteps ==
  ASSUME Typed, StatesAreSound, RoundIsSound,
         \/ Drops \/ Cuts \/ Begin \/ SavePlan \/ WaitingDone \/ SaveNew \/ Decide \/ Gather
         \/ \E j \in Jobs : Submit(j) \/ Between(j)
  PROVE  Frame
<1>0. fails \in Nat
  BY DEF Typed
<1>8. SamePlaces /\ cut' = cut => SameUncut
  BY DEF SamePlaces, SameUncut
<1>1. CASE Drops
  <2>1. \A i \in Jobs : job'[i].state = "toLaunch" => job'[i] = job[i]
    BY <1>1 DEF Drops
  <2> QED
    BY <1>1, <1>8, <2>1, DropPlaces DEF Drops, Frame, cuts
<1>2. CASE Cuts
  BY <1>0, <1>2, CutPlaces DEF Frame, Cuts, world, base
<1>3. CASE Begin
  BY <1>0, <1>3, <1>8, BeginPlaces DEF Frame, Begin, world, cuts
<1>4. CASE SavePlan \/ SaveNew
  BY <1>0, <1>4, <1>8, SavedPlaces DEF Frame, SavePlan, SaveNew, world, cuts
<1>5. CASE WaitingDone \/ Gather
  BY <1>0, <1>5, <1>8, SameHeld DEF Frame, SamePlaces, Placed, Row, WaitingDone, Gather, world, base, cuts
<1>6. CASE Decide
  BY <1>0, <1>6, <1>8, SameHeld DEF Frame, SamePlaces, Placed, Row, Decide, world, cuts
<1>7. ASSUME NEW j \in Jobs, Submit(j) PROVE Frame
  <2>1. \A i \in Jobs : job'[i].state = "toLaunch" => job'[i] = job[i]
    BY <1>7, SubmitRows
  <2>2. SamePlaces
    BY <1>7, SubmitPlaces
  <2> QED
    BY <1>0, <1>7, <1>8, <2>1, <2>2 DEF Frame, Submit, world, cuts
<1>9. ASSUME NEW j \in Jobs, Between(j) PROVE Frame
  <2>1. \A i \in Jobs : job'[i].state = "toLaunch" => job'[i] = job[i]
    BY <1>9, BetweenPlaces
  <2> QED
    BY <1>0, <1>8, <1>9, <2>1, BetweenPlaces DEF Frame, Between, world, cuts
<1> QED
  BY <1>1, <1>2, <1>3, <1>4, <1>5, <1>6, <1>7, <1>9

-----------------------------------------------------------------------------
(* The places that a round gives *)

LEMMA FreeIsApart ==
  ASSUME Typed, NEW from \in Int, NEW to \in Int, NEW res, res \subseteq Free(from, to),
         NEW start \in Int, NEW walltime \in Int, NEW part, NEW k \in Jobs,
         Covers(slots, seen, start, walltime, part, Low(k)), queue = "besteffort" \/ ~Low(k)
  PROVE  Apart(res, part) \/ start + walltime + Security <= from \/ to < start
<1>1. res \subseteq seen
  BY DEF Free
<1>2. CASE part \cap seen = {}
  BY <1>1, <1>2 DEF Apart
<1>3. ASSUME NEW s \in slots, s.from <= start, start + walltime + Security <= s.to + 1,
             part \cap seen \subseteq s.res, s.be = Low(k)
      PROVE  Apart(res, part) \/ start + walltime + Security <= from \/ to < start
  <2>1. s.from \in Int /\ s.to \in Int /\ Security \in Int
    BY Settings DEF Typed
  <2>2. CASE s.from <= to /\ from <= s.to
    <3>1. Blocking(s)
      BY <1>3 DEF Blocking
    <3>2. res \cap s.res = {}
      BY <2>2, <3>1 DEF Free
    <3> QED
      BY <1>1, <1>3, <3>2 DEF Apart
  <2>3. CASE to < s.from
    BY <1>3, <2>1, <2>3
  <2>4. CASE s.to < from
    BY <1>3, <2>1, <2>4
  <2> QED
    BY <2>1, <2>2, <2>3, <2>4
<1> QED
  BY <1>2, <1>3 DEF Covers

(* The dates of the jobs *)
LEMMA JobDates ==
  ASSUME Typed, StatesAreSound, NEW j \in Jobs \ cut
  PROVE  /\ job[j].start \in Nat /\ job[j].walltime \in Nat
         /\ Walltime[j] \in Nat /\ Walltime[j] > 0 /\ Security \in Nat /\ now \in Nat
         /\ Placed(j) => Row(j).start \in Nat /\ Row(j).res \subseteq Resources
         /\ job[j].state = "toLaunch" => job[j].start <= now
<1>1. Walltime[j] \in Nat /\ Walltime[j] > 0 /\ Security \in Nat
  BY JobSettings, Settings
<1>2. now \in Nat /\ job[j] \in JobRows
  BY Settings DEF Typed
<1>3. StateIsSound(j)
  BY DEF StatesAreSound
<1>4. job[j].start \in Nat /\ job[j].walltime \in Nat
  BY <1>1, <1>2, <1>3 DEF StateIsSound, JobRows
<1>5. Placed(j) => Row(j).start \in Nat /\ Row(j).res \subseteq Resources
  BY HeldRow DEF Placed, Row, Typed, GanttJobsPrediction, GanttJobsResource
<1> QED
  BY <1>1, <1>2, <1>3, <1>4, <1>5 DEF StateIsSound, Placed

(* A place that is found is apart from what the slots take *)
LEMMA FoundIsApart ==
  ASSUME Typed, StatesAreSound, SlotsCover, Planning,
         NEW from \in Int, NEW to \in Int, NEW res, res \subseteq Free(from, to),
         NEW i \in Jobs \ cut, queue = "besteffort" \/ ~Low(i)
  PROVE  /\ Placed(i) => \/ Apart(res, Row(i).res)
                         \/ Row(i).start + Walltime[i] + Security <= from
                         \/ to < Row(i).start
         /\ job[i].state = "toLaunch" => \/ Apart(res, job[i].res)
                                         \/ job[i].start + job[i].walltime + Security <= from
                                         \/ to < job[i].start
<1>1. /\ job[i].state = "toLaunch" =>
           Covers(slots, seen, job[i].start, job[i].walltime, job[i].res, Low(i))
      /\ Placed(i) => Covers(slots, seen, Row(i).start, Walltime[i], Row(i).res, Low(i))
  BY DEF SlotsCover
<1>2. /\ job[i].start \in Int /\ job[i].walltime \in Int /\ Walltime[i] \in Int
      /\ Placed(i) => Row(i).start \in Int
  BY JobDates
<1>3. ASSUME Placed(i)
      PROVE  Apart(res, Row(i).res) \/ Row(i).start + Walltime[i] + Security <= from \/ to < Row(i).start
  BY <1>1, <1>2, <1>3, FreeIsApart
<1>4. ASSUME job[i].state = "toLaunch"
      PROVE  Apart(res, job[i].res) \/ job[i].start + job[i].walltime + Security <= from \/ to < job[i].start
  BY <1>1, <1>2, <1>4, FreeIsApart
<1> QED
  BY <1>3, <1>4

LEMMA ApartFrame ==
  ASSUME Frame, InRound, RoundIsApart
  PROVE  RoundIsApart'
BY DEF Frame, SameUncut, RoundIsApart, ApartFromPlaced, ApartFromLaunched, LooksAt, Low

(* A job of the round, against those whose place is known *)
LEMMA PlanIsApart ==
  ASSUME Typed, StatesAreSound, RoundIsSound, SlotsCover, RoundIsApart,
         NEW j \in Jobs, Plan(j), ~UNCHANGED <<slots, plan>>
  PROVE  RoundIsApart'
<1>1. PICK start \in Nat, res \in SUBSET Resources :
        /\ start >= now /\ res \subseteq Place(j, start)
        /\ Row(j)'.start = start /\ Row(j)'.res = res
        /\ \A k \in Jobs \ {j} : Placed(k)' => Placed(k) /\ Row(k)' = Row(k)
  BY PlanPlaces
<1>2. /\ phase = "plan" /\ j \in todo /\ UNCHANGED <<job, now, cut>>
      /\ j \notin Reservations /\ Queue[j] = queue
      /\ job[j].state \in {"Waiting", "Error", "Terminated"}
  BY DEF Plan, base, world, cuts, RoundIsSound, PhaseIsSound, ReadIsSound, InRound
<1>3. Planning /\ InRound
  BY <1>2 DEF Planning, InRound
<1>4. SUFFICES ASSUME NEW c \in Jobs \ (Reservations \cup cut), NEW i \in Jobs \ ({c} \cup cut), Placed(c)', LooksAt(c, i)
               PROVE  /\ Placed(i)' => ApartFromPlaced(c, i)'
                      /\ job[i].state = "toLaunch" => ApartFromLaunched(c, i)'
  BY <1>2 DEF RoundIsApart, LooksAt, Low
<1>5. Placed(j)' /\ j \notin cut => job[j].walltime = Walltime[j]
  BY <1>2, PlannedWalltime DEF Placed
<1>6. now \in Nat /\ job[j].walltime \in Int /\ Security \in Nat /\ Walltime[j] \in Nat /\ Walltime[j] > 0
  BY Settings, JobSettings DEF Typed, JobRows
<1>7. ASSUME NEW k \in Jobs \ cut, k # j, queue = "besteffort" \/ ~Low(k)
      PROVE  /\ Placed(k) => \/ Apart(res, Row(k).res)
                             \/ Row(k).start + Walltime[k] + Security <= start
                             \/ start + job[j].walltime + Security - 1 < Row(k).start
             /\ job[k].state = "toLaunch" =>
                             \/ Apart(res, job[k].res)
                             \/ job[k].start + job[k].walltime + Security <= start
                             \/ start + job[j].walltime + Security - 1 < job[k].start
  <2>1. res \subseteq Free(start, start + job[j].walltime + Security - 1)
    BY <1>1 DEF Place
  <2>2. start + job[j].walltime + Security - 1 \in Int
    BY <1>6
  <2> QED
    <3>1. start \in Int /\ k \in Jobs \ cut /\ (queue = "besteffort" \/ ~Low(k))
      BY <1>7
    <3> QED
      BY <1>3, <2>1, <2>2, <3>1, FoundIsApart
<1>8. CASE c = j
  <2>1. queue = "besteffort" \/ ~Low(i)
    BY <1>2, <1>4, <1>8 DEF LooksAt, Low
  <2>2. Placed(i)' => Placed(i) /\ Row(i)' = Row(i)
    BY <1>1, <1>4, <1>8
  <2>3. Placed(i)' => ApartFromPlaced(c, i)'
    <3>1. Placed(i) => Row(i).start \in Nat /\ Walltime[i] \in Nat
      BY JobDates
    <3> QED
      BY <1>1, <1>4, <1>5, <1>6, <1>7, <1>8, <2>1, <2>2, <3>1 DEF ApartFromPlaced, Apart
  <2>4. job[i].state = "toLaunch" => ApartFromLaunched(c, i)'
    <3>1. job[i].state = "toLaunch" =>
            job[i].start <= now /\ job[i].start \in Nat /\ job[i].walltime \in Nat
      BY JobDates
    <3> QED
      BY <1>1, <1>2, <1>4, <1>5, <1>6, <1>7, <1>8, <2>1, <3>1 DEF ApartFromLaunched, Apart
  <2> QED
    BY <2>3, <2>4
<1>9. CASE i = j
  <2>1. Placed(c) /\ Row(c)' = Row(c)
    BY <1>1, <1>4, <1>9
  <2>2. queue = "besteffort" \/ ~Low(c)
    <3>1. Low(c) => queue # "default"
      BY <1>3, <1>4, <2>1 DEF Low, RoundIsSound, PlannedIsSound
    <3> QED
      BY <3>1 DEF Typed
  <2>3. Placed(i)' => ApartFromPlaced(c, i)'
    <3>1. Row(c).start \in Nat /\ Walltime[c] \in Nat
      BY <2>1, JobDates
    <3> QED
      BY <1>1, <1>4, <1>5, <1>6, <1>7, <1>9, <2>1, <2>2, <3>1 DEF ApartFromPlaced, Apart
  <2> QED
    BY <1>2, <1>9, <2>3
<1>10. CASE c # j /\ i # j
  BY <1>1, <1>2, <1>3, <1>4, <1>10 DEF RoundIsApart, ApartFromPlaced, ApartFromLaunched
<1> QED
  BY <1>8, <1>9, <1>10

(* A new reservation, against the jobs of the round *)
LEMMA AcceptIsApart ==
  ASSUME Typed, StatesAreSound, RoundIsSound, SlotsCover, RoundIsApart,
         NEW j \in Reservations, j \in Jobs, NewReservation(j), Accept(j)
  PROVE  RoundIsApart'
<1>1. PICK res \in SUBSET Resources :
        /\ res \subseteq Room(j) /\ Row(j)'.start = From(j) /\ Row(j)'.res = res
  BY AcceptPlaces
<1>2. /\ From(j) \in Nat /\ From(j) >= now
      /\ \A i \in Jobs \ {j} : Placed(i)' => Placed(i) /\ Row(i)' = Row(i)
      /\ \A i \in Jobs \ {j} : job'[i] = job[i]
      /\ Placed(j)' => job[j].state = "Waiting" /\ job'[j].state = "toAckReservation"
  BY AcceptPlaces
<1>3. phase = "new" /\ UNCHANGED <<now, phase, queue, cut>>
  BY DEF NewReservation, world, cuts
<1>4. Planning /\ InRound /\ queue = "default"
  BY <1>3 DEF Planning, InRound, RoundIsSound, PhaseIsSound
<1>5. now \in Nat /\ job[j].walltime \in Int /\ Security \in Nat
  BY Settings DEF Typed, JobRows
<1>6. SUFFICES ASSUME NEW c \in Jobs \ (Reservations \cup cut), NEW i \in Jobs \ ({c} \cup cut), Placed(c)', LooksAt(c, i)
               PROVE  /\ Placed(i)' => ApartFromPlaced(c, i)'
                      /\ job'[i].state = "toLaunch" => ApartFromLaunched(c, i)'
  BY <1>3 DEF RoundIsApart, LooksAt, Low
<1>7. c # j /\ Placed(c) /\ Row(c)' = Row(c)
  BY <1>2, <1>6
<1>8. CASE i # j
  BY <1>2, <1>3, <1>4, <1>6, <1>7, <1>8 DEF RoundIsApart, ApartFromPlaced, ApartFromLaunched
<1>9. CASE i = j
  <2>1. ~Low(c)
    BY <1>4, <1>7 DEF Low, RoundIsSound, PlannedIsSound
  <2>2. ASSUME Placed(i)' PROVE ApartFromPlaced(c, i)'
    <3>1. job[j].walltime = Walltime[j]
      BY <1>2, <1>3, <1>6, <1>9, <2>2, PlannedWalltime DEF Pending
    <3>2. Room(j) = Free(From(j), From(j) + job[j].walltime) /\ From(j) + job[j].walltime \in Int
      BY <1>2, <1>5 DEF Room
    <3>3. \/ Apart(res, Row(c).res)
          \/ Row(c).start + Walltime[c] + Security <= From(j)
          \/ From(j) + job[j].walltime < Row(c).start
      <4>1. From(j) \in Int /\ From(j) + job[j].walltime \in Int /\ c \in Jobs \ cut
            /\ res \subseteq Free(From(j), From(j) + job[j].walltime)
        BY <1>1, <1>2, <1>6, <3>2
      <4> QED
        BY <1>4, <1>7, <2>1, <4>1, FoundIsApart
    <3>4. Row(c).start \in Nat /\ Walltime[c] \in Nat
      BY <1>7, JobDates
    <3> QED
      BY <1>1, <1>2, <1>3, <1>5, <1>7, <1>9, <2>2, <3>1, <3>3, <3>4 DEF ApartFromPlaced, Apart
  <2>3. job'[i].state # "toLaunch"
    <3>1. /\ job[j].state \in {"Waiting", "Error", "Terminated"}
          /\ IsOver(j) => job'[j].state = job[j].state
          /\ ~IsOver(j) => job'[j].state = "toAckReservation"
      BY StateRows DEF NewReservation, RoundIsSound, ReadIsSound, InRound, Accept, Decided, OnlyState, StatesOf
    <3> QED
      BY <1>9, <3>1 DEF IsOver
  <2> QED
    BY <2>2, <2>3
<1> QED
  BY <1>8, <1>9

(* A job that is launched, against the jobs of the round that still wait:  *)
(* its end is before their places, but for the security time when it is a  *)
(* reservation that is late.                                               *)
LEMMA LaunchIsApart ==
  ASSUME Typed, StatesAreSound, RoundIsSound, RoundIsApart, NEW j \in Jobs, Launch(j)
  PROVE  RoundIsApart'
<1>1. /\ \A i \in Jobs \ {j} : job'[i] = job[i]
      /\ IsOver(j) => job'[j] = job[j]
      /\ ~IsOver(j) => job'[j].state = "toLaunch"
      /\ j \in DOMAIN gantt /\ phase = "started"
  BY LaunchRows
<1>2. /\ \A i \in Jobs \ {j} : Placed(i)' => Placed(i) /\ Row(i)' = Row(i)
      /\ ~Placed(j)' /\ Row(j) = Held(j)
      /\ ~IsOver(j) => Placed(j)
  BY <1>1, LaunchPlaces
<1>3. UNCHANGED <<now, phase, cut>>
  BY DEF Launch, world, cuts
<1>4. SUFFICES ASSUME NEW c \in Jobs \ (Reservations \cup cut), NEW i \in Jobs \ ({c} \cup cut),
                      Placed(c)', LooksAt(c, i)
               PROVE  /\ Placed(i)' => ApartFromPlaced(c, i)'
                      /\ job'[i].state = "toLaunch" => ApartFromLaunched(c, i)'
  BY <1>3 DEF RoundIsApart, LooksAt, Low
<1>5. c # j /\ Placed(c) /\ Row(c)' = Row(c)
  BY <1>2, <1>4
<1>6. CASE i # j \/ IsOver(j)
  BY <1>1, <1>2, <1>3, <1>4, <1>5, <1>6 DEF RoundIsApart, InRound, ApartFromPlaced, ApartFromLaunched, IsOver
<1>7. CASE i = j /\ ~IsOver(j)
  <2>1. ApartFromPlaced(c, j) /\ job[j].state = "Waiting"
    BY <1>1, <1>2, <1>3, <1>4, <1>5, <1>7, LaunchRows DEF RoundIsApart, InRound
  <2>2. Row(c).start >= now
    BY <1>1, <1>5 DEF RoundIsSound, PlannedIsSound, InRound
  <2>3. /\ Row(c).start \in Nat /\ Held(j).start \in Nat /\ now \in Nat /\ Security \in Nat
        /\ Walltime[c] \in Nat /\ Walltime[c] > 0 /\ Walltime[j] \in Nat
    BY <1>2, <1>4, <1>5, <1>7, JobDates
  <2>4. LaunchedOnTime(j) /\ gantt[j].res = Held(j).res
    BY <1>4, <1>7, <1>1, LaunchedRow, HeldRow
  <2>5. Row(c).start' = Row(c).start
    BY <1>5
  <2>6. ApartFromLaunched(c, j)'
    <3>1. \/ Apart(Row(c).res, Row(j).res)
          \/ Row(c).start + Walltime[c] + Security <= Row(j).start
          \/ Row(j).start + Walltime[j] + Security <= Row(c).start
      BY <2>1 DEF ApartFromPlaced
    <3>2. CASE Apart(Row(c).res, Row(j).res)
      BY <1>2, <1>5, <2>4, <3>2 DEF ApartFromLaunched, LaunchedOnTime
    <3>3. CASE Row(c).start + Walltime[c] + Security <= Row(j).start
      <4>1. Row(j).start <= now
        BY <1>2, <2>3, <2>4 DEF LaunchedOnTime
      <4> QED
        BY <1>2, <2>2, <2>3, <3>3, <4>1
    <3>4. CASE Row(j).start + Walltime[j] + Security <= Row(c).start
      BY <1>2, <1>3, <1>5, <2>3, <2>4, <3>4 DEF ApartFromLaunched, LaunchedOnTime
    <3> QED
      BY <3>1, <3>2, <3>3, <3>4
  <2> QED
    BY <1>2, <1>7, <2>6
<1> QED
  BY <1>6, <1>7

LEMMA StepApart ==
  ASSUME Typed, StatesAreSound, RoundIsSound, SlotsCover, RoundIsApart, KindOfStep
  PROVE  RoundIsApart'
<1>1. CASE Drops \/ SavePlan \/ WaitingDone \/ SaveNew \/ Decide \/ \E j \in Jobs : Submit(j) \/ Between(j)
  <2>1. InRound' => InRound
    BY <1>1 DEF InRound, Drops, SavePlan, WaitingDone, SaveNew, Decide, Submit, Between, round
  <2> QED
    BY <1>1, <2>1, FrameSteps, ApartFrame DEF RoundIsApart
<1>2. CASE Cuts \/ Gather \/ Tick
  BY <1>2 DEF RoundIsApart, InRound, Cuts, Leaving, Gather, Tick, round
<1>3. CASE Begin
  BY <1>3, BeginPlaces DEF RoundIsApart
<1>4. ASSUME NEW j \in Jobs, WaitingReservation(j), Delay(j) \/ Reduce(j) PROVE RoundIsApart'
  <2>1. /\ \A i \in Jobs \ {j} : Placed(i)' => Placed(i) /\ Row(i)' = Row(i)
        /\ Placed(j)' => Placed(j)
        /\ \/ Row(j)'.res \cap seen = {}
           \/ Row(j)'.res = Row(j).res /\ Row(j)'.start = Row(j).start
        /\ j \in Reservations /\ job' = job
    BY <1>4, GanttPlaces
  <2>2. InRound /\ Planning /\ UNCHANGED <<now, phase, cut>>
    BY <1>4 DEF WaitingReservation, InRound, Planning, world, cuts
  <2>3. SUFFICES ASSUME NEW c \in Jobs \ (Reservations \cup cut), NEW i \in Jobs \ ({c} \cup cut), Placed(c)', LooksAt(c, i)
                 PROVE  /\ Placed(i)' => ApartFromPlaced(c, i)'
                        /\ job[i].state = "toLaunch" => ApartFromLaunched(c, i)'
    BY <2>1, <2>2 DEF RoundIsApart, LooksAt, Low
  <2>4. Placed(c) /\ Row(c)' = Row(c) /\ Row(c).res \subseteq seen
    BY <2>1, <2>2, <2>3 DEF RoundIsSound, PlannedIsSound
  <2>5. Placed(i)' => ApartFromPlaced(c, i)'
    BY <2>1, <2>2, <2>3, <2>4 DEF RoundIsApart, ApartFromPlaced, Apart
  <2>6. job[i].state = "toLaunch" => ApartFromLaunched(c, i)'
    BY <2>1, <2>2, <2>3, <2>4 DEF RoundIsApart, ApartFromLaunched
  <2> QED
    BY <2>5, <2>6
<1>5. ASSUME NEW j \in Jobs, Answer(j) PROVE RoundIsApart'
  BY <1>5 DEF Answer, Mid, RoundIsSound, DoingIsSound, MarkIsSound, RoundIsApart, InRound
<1> QED
  BY <1>1, <1>2, <1>3, <1>4, <1>5, PlanIsApart, AcceptIsApart, LaunchIsApart DEF KindOfStep
-----------------------------------------------------------------------------
(* The reservations *)

LEMMA ReservedFrame ==
  ASSUME Typed, Frame, ReservedIsApart
  PROVE  ReservedIsApart'
<1>1. fails' = 0 => fails = 0
  BY DEF Typed, Frame
<1>2. Reservations \subseteq Jobs
  BY JobsAssumption DEF Reservations
<1> QED
  BY <1>1, <1>2 DEF Frame, SameUncut, ReservedIsApart, ReservedFromPlaced, ReservedFromLaunched, Before, Low

(* A new reservation, against the reservations and the jobs that run. The  *)
(* room of the new one is looked for without the security time.            *)
LEMMA AcceptIsReserved ==
  ASSUME Typed, StatesAreSound, RoundIsSound, SlotsCover, ReservedIsApart,
         NEW j \in Reservations, j \in Jobs, NewReservation(j), Accept(j)
  PROVE  ReservedIsApart'
<1>1. PICK res \in SUBSET Resources :
        /\ res \subseteq Room(j) /\ Row(j)'.start = From(j) /\ Row(j)'.res = res
  BY AcceptPlaces
<1>2. /\ From(j) \in Nat /\ From(j) >= now
      /\ \A i \in Jobs \ {j} : Placed(i)' => Placed(i) /\ Row(i)' = Row(i)
      /\ \A i \in Jobs \ {j} : job'[i] = job[i]
      /\ Placed(j)' => job[j].state = "Waiting" /\ job'[j].state = "toAckReservation"
  BY AcceptPlaces
<1>3. phase = "new" /\ UNCHANGED <<now, fails, cut>>
  BY DEF NewReservation, world, cuts
<1>4. Planning /\ queue = "default"
  BY <1>3 DEF Planning, RoundIsSound, PhaseIsSound
<1>5. now \in Nat /\ job[j].walltime \in Int /\ Security \in Nat
  BY Settings DEF Typed, JobRows
<1>6. From(j) \in Int /\ From(j) + job[j].walltime \in Int
      /\ res \subseteq Free(From(j), From(j) + job[j].walltime)
  BY <1>1, <1>2, <1>5 DEF Room
<1>7. Placed(j)' /\ j \notin cut => job[j].walltime = Walltime[j] /\ job'[j].state # "toLaunch"
  BY <1>2, <1>3, PlannedWalltime DEF Pending
<1>8. ASSUME j \notin cut, NEW i \in Jobs \ ({j} \cup cut), i \in Reservations, Placed(i)', Placed(j)'
      PROVE  ReservedFromPlaced(j, i)' /\ ReservedFromPlaced(i, j)'
  <2>1. ~Low(i)
    BY <1>8, JobSettings DEF Low
  <2>2. Placed(i) /\ Row(i)' = Row(i)
    BY <1>2, <1>8
  <2>3. \/ Apart(res, Row(i).res)
        \/ Row(i).start + Walltime[i] + Security <= From(j)
        \/ From(j) + job[j].walltime < Row(i).start
    BY <1>4, <1>6, <1>8, <2>1, <2>2, FoundIsApart
  <2> QED
    BY <1>1, <1>7, <1>8, <2>2, <2>3 DEF ReservedFromPlaced, Before, Apart
<1>9. ASSUME j \notin cut, NEW i \in Jobs \ ({j} \cup cut), job[i].state = "toLaunch", ~Low(i), Placed(j)'
      PROVE  ReservedFromLaunched(j, i)'
  <2>1. \/ Apart(res, job[i].res)
        \/ job[i].start + job[i].walltime + Security <= From(j)
        \/ From(j) + job[j].walltime < job[i].start
    BY <1>4, <1>6, <1>9, FoundIsApart
  <2>2. job[i].start <= now /\ job[i].start \in Nat
    BY <1>9, JobDates
  <2>3. \/ Apart(res, job[i].res)
        \/ job[i].start + job[i].walltime + Security <= From(j)
    <3>1. job[j].walltime \in Nat
      BY <1>9, JobDates
    <3> QED
      BY <1>2, <1>5, <2>1, <2>2, <3>1
  <2> QED
    BY <1>1, <1>2, <1>9, <2>3 DEF ReservedFromLaunched, Apart
<1>10. ASSUME fails = 0, NEW k \in Reservations \ cut, k \in Jobs, NEW i \in Jobs \ ({k} \cup cut), Placed(k)'
       PROVE  /\ i \in Reservations /\ Placed(i)' => ReservedFromPlaced(k, i)'
              /\ job'[i].state = "toLaunch" /\ ~Low(i) => ReservedFromLaunched(k, i)'
  <2>1. CASE k = j
    BY <1>2, <1>8, <1>9, <1>10, <2>1
  <2>2. CASE i = j
    <3>1. job'[j].state # "toLaunch"
      <4>1. /\ job[j].state \in {"Waiting", "Error", "Terminated"}
            /\ IsOver(j) => job'[j].state = job[j].state
            /\ ~IsOver(j) => job'[j].state = "toAckReservation"
        BY StateRows DEF NewReservation, RoundIsSound, ReadIsSound, InRound, Accept, Decided, OnlyState, StatesOf
      <4> QED
        BY <4>1 DEF IsOver
    <3> QED
      BY <1>8, <1>10, <2>2, <3>1
  <2>3. CASE k # j /\ i # j
    BY <1>2, <1>10, <2>3 DEF ReservedIsApart, ReservedFromPlaced, ReservedFromLaunched, Before
  <2> QED
    BY <2>1, <2>2, <2>3
<1>11. Reservations \subseteq Jobs
  BY JobsAssumption DEF Reservations
<1> QED
  BY <1>3, <1>10, <1>11 DEF ReservedIsApart, Low

(* A job that is launched, against the reservations that wait *)
LEMMA LaunchIsReserved ==
  ASSUME Typed, StatesAreSound, RoundIsSound, RoundIsApart, ReservedIsApart,
         NEW j \in Jobs, Launch(j)
  PROVE  ReservedIsApart'
<1>1. /\ \A i \in Jobs \ {j} : job'[i] = job[i]
      /\ IsOver(j) => job'[j] = job[j]
      /\ j \in DOMAIN gantt /\ phase = "started"
  BY LaunchRows
<1>2. /\ \A i \in Jobs \ {j} : Placed(i)' => Placed(i) /\ Row(i)' = Row(i)
      /\ ~Placed(j)' /\ Row(j) = Held(j)
      /\ ~IsOver(j) => Placed(j)
  BY <1>1, LaunchPlaces
<1>3. UNCHANGED <<now, fails, cut>>
  BY DEF Launch, world, cuts
<1>4. SUFFICES ASSUME fails = 0, NEW k \in Reservations \ cut, NEW i \in Jobs \ ({k} \cup cut), Placed(k)'
               PROVE  /\ i \in Reservations /\ Placed(i)' => ReservedFromPlaced(k, i)'
                      /\ job'[i].state = "toLaunch" /\ ~Low(i) => ReservedFromLaunched(k, i)'
  BY <1>3 DEF ReservedIsApart, Low
<1>5. k \in Jobs \ cut /\ k # j /\ Placed(k) /\ Row(k)' = Row(k)
  BY <1>2, <1>4, JobsAssumption DEF Reservations
<1>6. CASE i # j \/ IsOver(j)
  BY <1>1, <1>2, <1>4, <1>5, <1>6
     DEF ReservedIsApart, ReservedFromPlaced, ReservedFromLaunched, Before, IsOver
<1>7. CASE i = j /\ ~IsOver(j)
  <2>1. /\ Row(k).start \in Nat /\ Held(j).start \in Nat /\ now \in Nat /\ Security \in Nat
        /\ Walltime[k] \in Nat /\ Walltime[k] > 0 /\ Walltime[j] \in Nat /\ Walltime[j] > 0
    BY <1>2, <1>4, <1>5, <1>7, JobDates
  <2>2. LaunchedOnTime(j) /\ gantt[j].res = Held(j).res
    BY <1>1, <1>4, <1>7, LaunchedRow, HeldRow
  <2>3. ASSUME j \in Reservations PROVE ReservedFromLaunched(k, j)'
    <3>1. ReservedFromPlaced(k, j)
      BY <1>2, <1>4, <1>5, <1>7, <2>3 DEF ReservedIsApart
    <3>2. CASE Apart(Row(k).res, Row(j).res)
      BY <1>2, <1>5, <2>2, <3>2 DEF ReservedFromLaunched, LaunchedOnTime
    <3>3. CASE Before(k, j)
      BY <1>2, <1>5, <2>1, <2>2, <2>3, <3>3 DEF ReservedFromLaunched, LaunchedOnTime, Before
    <3>4. CASE Before(j, k)
      <4>1. job'[j].start + job'[j].walltime <= Held(j).start + Walltime[j] + Security
            /\ job'[j].start = now /\ job'[j].walltime \in Int
        BY <2>1, <2>2 DEF LaunchedOnTime
      <4>2. \/ job'[j].start + job'[j].walltime = Held(j).start + Walltime[j] + Security
            \/ job'[j].start + job'[j].walltime = Held(j).start + Walltime[j]
        BY <2>1, <2>2 DEF LaunchedOnTime
      <4> QED
        BY <1>2, <1>5, <2>1, <2>3, <3>4, <4>1, <4>2 DEF ReservedFromLaunched, Before
    <3> QED
      BY <3>1, <3>2, <3>3, <3>4 DEF ReservedFromPlaced
  <2>4. ASSUME j \notin Reservations PROVE ~Low(j) => ReservedFromLaunched(k, j)'
    <3>1. ~Low(k)
      BY <1>4, <1>5, JobSettings DEF Low
    <3>2. ApartFromPlaced(j, k)
      BY <1>1, <1>2, <1>4, <1>5, <1>7, <2>4, <3>1 DEF RoundIsApart, InRound, LooksAt
    <3>3. job[j].resa # "Scheduled"
      BY <2>4 DEF StatesAreSound, StateIsSound
    <3>4. job'[j].start = now /\ job'[j].walltime = Walltime[j] /\ Held(j).start = now /\ job'[j].res = Row(j).res
      BY <1>2, <2>2, <3>3 DEF LaunchedOnTime
    <3> QED
      BY <1>2, <1>5, <2>1, <3>2, <3>4 DEF ApartFromPlaced, ReservedFromLaunched, Apart
  <2> QED
    BY <1>2, <1>7, <2>3, <2>4
<1> QED
  BY <1>6, <1>7

LEMMA StepReserved ==
  ASSUME Typed, StatesAreSound, RoundIsSound, SlotsCover, RoundIsApart, ReservedIsApart,
         NothingFails, KindOfStep
  PROVE  ReservedIsApart'
<1>1. CASE \/ Drops \/ Cuts \/ Begin \/ SavePlan \/ WaitingDone \/ SaveNew \/ Decide \/ Gather
           \/ \E j \in Jobs : Submit(j) \/ Between(j)
  BY <1>1, FrameSteps, ReservedFrame
<1>2. CASE Tick
  BY <1>2, SameHeld DEF Tick, base, round, cuts, ReservedIsApart, Placed, Row,
                        ReservedFromPlaced, ReservedFromLaunched, Before, Low
<1>3. Reservations \subseteq Jobs
  BY JobsAssumption DEF Reservations
<1>4. ASSUME NEW j \in Jobs, Plan(j), ~UNCHANGED <<slots, plan>> PROVE ReservedIsApart'
  <2>1. \A i \in Jobs \ {j} : Placed(i)' => Placed(i) /\ Row(i)' = Row(i)
    BY <1>4, PlanPlaces
  <2>2. j \notin Reservations
    BY <1>4 DEF Plan, RoundIsSound, PhaseIsSound
  <2>3. UNCHANGED <<job, fails, cut>>
    BY <1>4 DEF Plan, base, world, cuts
  <2> QED
    BY <1>3, <2>1, <2>2, <2>3 DEF ReservedIsApart, ReservedFromPlaced, ReservedFromLaunched, Before, Low
<1>5. ASSUME NEW j \in Jobs, WaitingReservation(j), Delay(j) \/ Reduce(j) PROVE ReservedIsApart'
  <2>1. /\ \A i \in Jobs \ {j} : Placed(i)' => Placed(i) /\ Row(i)' = Row(i)
        /\ Placed(j)' => Placed(j)
        /\ \/ Row(j)'.res \cap seen = {} /\ Row(j)'.res = Row(j).res
           \/ Row(j)'.res = {}
           \/ Row(j)'.res = Row(j).res /\ Row(j)'.start = Row(j).start
        /\ j \in Reservations /\ job' = job
    BY <1>5, GanttPlaces
  <2>2. fails' = fails /\ cut' = cut /\ phase = "waiting"
    BY <1>5 DEF WaitingReservation, world, cuts
  <2>3. ASSUME fails = 0, Placed(j), j \notin cut
        PROVE  Row(j)'.res = {} \/ (Row(j)'.res = Row(j).res /\ Row(j)'.start = Row(j).start)
    <3>1. seen = Resources
      BY <2>2, <2>3 DEF NothingFails, SeesAll
    <3>2. Row(j).res \subseteq Resources
      BY <2>3, JobDates
    <3> QED
      BY <2>1, <3>1, <3>2
  <2> QED
    BY <1>3, <2>1, <2>2, <2>3
       DEF ReservedIsApart, ReservedFromPlaced, ReservedFromLaunched, Before, Low, Apart
<1>6. ASSUME NEW j \in Jobs, Answer(j), job[j].state = "toAckReservation" PROVE ReservedIsApart'
  <2>1. OnlyState(j, "Waiting")
    BY <1>6, StateRows DEF Answer, StatesOf
  <2>2. UNCHANGED <<fails, gantt, plan, cut>> /\ OffLaunch /\ OffLaunch'
    BY <1>6 DEF Answer, Mid, OffLaunch, LaunchSteps, NotDoing, world, cuts
  <2>3. \A i \in Jobs : /\ Placed(i)' => Placed(i) /\ Row(i)' = Row(i)
                        /\ job'[i].state = "toLaunch" => job'[i] = job[i]
    <3>1. \A i : Held(i)' = Held(i)
      BY <2>2, SameHeld
    <3> QED
      BY <1>6, <2>1, <2>2, <3>1 DEF OnlyState, Placed, Row, Pending, IsOver
  <2> QED
    BY <1>3, <2>2, <2>3 DEF ReservedIsApart, ReservedFromPlaced, ReservedFromLaunched, Before, Low
<1> QED
  BY <1>1, <1>2, <1>3, <1>4, <1>5, <1>6, AcceptIsReserved, LaunchIsReserved DEF KindOfStep
(* No reservation is left in the gantt after its end: those that are too   *)
(* late are put in error, and those without resources move.                *)
LEMMA StepInTime ==
  ASSUME Typed, StatesAreSound, RoundIsSound, ReservationsAreInTime, StatesAreSound', KindOfStep
  PROVE  ReservationsAreInTime'
<1> DEFINE Due(j) == job[j].state = "Waiting" /\ j \in DOMAIN gantt /\ gantt[j].res # {}
<1> SUFFICES ASSUME NEW i \in Reservations \ cut', Due(i)', LookedAt(i)'
             PROVE  NotExpired(i)'
  BY DEF ReservationsAreInTime
<1>0. i \in Jobs \ cut /\ (Due(i) /\ LookedAt(i) => NotExpired(i))
  BY JobsAssumption, CutStays DEF ReservationsAreInTime, Reservations
<1>1. CASE Drops
  <2>1. Due(i)
    BY <1>0, <1>1 DEF Drops
  <2>2. LookedAt(i) \/ (phase = "waiting" /\ i \in todo \ todo')
    BY <1>1 DEF Drops, LookedAt
  <2>3. NotExpired(i)
    BY <1>0, <1>1, <2>1, <2>2 DEF Drops
  <2> QED
    BY <1>1, <2>3 DEF Drops, NotExpired
<1>2. CASE Cuts \/ Gather \/ Tick \/ Begin
  BY <1>2 DEF Cuts, Leaving, Gather, Tick, Begin, round, LookedAt
<1>3. CASE SavePlan
  <2>1. job' = job /\ gantt' = Saved /\ now' = now
    BY <1>3 DEF SavePlan, world
  <2>2. i \in DOMAIN gantt /\ gantt'[i] = gantt[i]
    BY <1>3, <2>1, SavedRows DEF SavePlan, RoundIsSound, PhaseIsSound
  <2>3. CASE queue = "default"
    <3>1. todo' = Accepted(queue) /\ phase' = "waiting"
      BY <1>3, <2>3 DEF SavePlan
    <3>2. job[i].resa = "Scheduled"
      <4>1. ~Mid(i, "state")
        BY <1>3 DEF SavePlan, Mid, RoundIsSound, DoingIsSound, MarkIsSound
      <4> QED
        BY <1>0, <2>1, <2>2, <4>1 DEF StatesAreSound, StateIsSound
    <3>3. i \in Accepted(queue)
      BY <1>0, <2>1, <2>3, <3>2, JobSettings DEF Accepted, Read, In
    <3> QED
      BY <3>1, <3>3 DEF LookedAt
  <2>4. CASE queue # "default"
    BY <1>0, <1>3, <2>1, <2>2, <2>4 DEF SavePlan, LookedAt, NotExpired, Typed
  <2> QED
    BY <2>3, <2>4
<1>4. CASE WaitingDone
  BY <1>0, <1>4 DEF WaitingDone, world, base, LookedAt, NotExpired
<1>5. CASE SaveNew
  <2>1. job' = job /\ gantt' = Saved /\ now' = now /\ phase = "new"
    BY <1>5 DEF SaveNew, world
  <2>2. i \in DOMAIN gantt /\ gantt'[i] = gantt[i]
    BY <2>1, SavedRows DEF RoundIsSound, PhaseIsSound
  <2> QED
    BY <1>0, <2>1, <2>2 DEF LookedAt, NotExpired
<1>6. CASE Decide
  BY <1>0, <1>6 DEF Decide, world, LookedAt, NotExpired
<1>7. ASSUME NEW j \in Jobs, Submit(j) PROVE NotExpired(i)'
  <2>1. i # j
    BY <1>7 DEF Submit, StatesAreSound, StateIsSound
  <2> QED
    BY <1>0, <1>7, <2>1, SubmitRows DEF Submit, world, round, LookedAt, NotExpired
<1>8. ASSUME NEW j \in Jobs, Plan(j), ~UNCHANGED <<slots, plan>> PROVE NotExpired(i)'
  BY <1>0, <1>8 DEF Plan, world, base, LookedAt, NotExpired
<1>9. ASSUME NEW j \in Jobs, WaitingReservation(j), Delay(j) PROVE NotExpired(i)'
  <2>1. /\ DOMAIN gantt' = DOMAIN gantt /\ \A k \in DOMAIN gantt \ {j} : gantt'[k] = gantt[k]
        /\ gantt'[j].start = now + 1
    BY <1>9, DelayRows
  <2>2. job' = job /\ now' = now /\ phase' = phase /\ todo' = todo \ {j} /\ queue' = queue
    BY <1>9 DEF WaitingReservation, Delay, world
  <2>3. CASE i = j
    <3>1. now \in Nat /\ Walltime[j] \in Nat /\ Security \in Nat
      BY Settings, JobSettings DEF Typed
    <3> QED
      BY <2>1, <2>2, <2>3, <3>1 DEF NotExpired
  <2>4. CASE i # j
    BY <1>0, <2>1, <2>2, <2>4 DEF LookedAt, NotExpired
  <2> QED
    BY <2>3, <2>4
<1>10. ASSUME NEW j \in Jobs, WaitingReservation(j), Reduce(j) PROVE NotExpired(i)'
  <2>1. /\ DOMAIN gantt' = DOMAIN gantt /\ \A k \in DOMAIN gantt \ {j} : gantt'[k] = gantt[k]
        /\ gantt'[j].start = gantt[j].start
    BY <1>10, ReduceRows
  <2>2. job' = job /\ now' = now /\ phase' = phase /\ todo' = todo \ {j} /\ queue' = queue
    BY <1>10 DEF WaitingReservation, Reduce, world
  <2>3. CASE i = j
    <3>1. now <= gantt[j].start + job[j].walltime + Security
      BY <1>10 DEF Reduce, End
    <3>2. job[j].walltime = Walltime[j]
      BY <1>0, <1>10, <2>2, <2>3, PlannedWalltime DEF Pending, WaitingReservation
    <3> QED
      BY <2>1, <2>2, <2>3, <3>1, <3>2 DEF NotExpired
  <2>4. CASE i # j
    <3>1. gantt'[i] = gantt[i]
      BY <2>1, <2>4
    <3> QED
      BY <1>0, <2>1, <2>2, <2>4, <3>1 DEF LookedAt, NotExpired
  <2> QED
    BY <2>3, <2>4
<1>11. ASSUME NEW j \in Reservations, j \in Jobs, NewReservation(j), Accept(j) PROVE NotExpired(i)'
  <2>1. UNCHANGED <<gantt, now, phase, queue>> /\ phase = "new"
    BY <1>11 DEF NewReservation, world
  <2>2. /\ \A k \in Jobs \ {j} : job'[k] = job[k]
        /\ Placed(j)' => job'[j].state = "toAckReservation"
    BY <1>11, AcceptPlaces
  <2>3. i # j
    BY <2>2 DEF Placed, Pending
  <2> QED
    BY <1>0, <2>1, <2>2, <2>3 DEF LookedAt, NotExpired
<1>12. ASSUME NEW j \in Jobs, Launch(j) PROVE NotExpired(i)'
  <2>1. /\ \A k \in Jobs \ {j} : job'[k] = job[k]
        /\ gantt' = gantt
    BY <1>12, LaunchRows
  <2>2. job'[j].state # "Waiting"
    <3>1. /\ IsOver(j) => job'[j] = job[j]
          /\ ~IsOver(j) => job'[j].state = "toLaunch"
      BY <1>12, LaunchRows
    <3> QED
      BY <3>1 DEF IsOver
  <2> QED
    BY <1>0, <1>12, <2>1, <2>2 DEF Launch, world, LookedAt, NotExpired
<1>13. ASSUME NEW j \in Jobs, Answer(j) PROVE NotExpired(i)'
  <2>1. phase = "answer" /\ phase' = phase
    BY <1>13 DEF Answer, Mid, RoundIsSound, DoingIsSound, MarkIsSound
  <2> QED
    BY <2>1 DEF LookedAt
<1>14. ASSUME NEW j \in Jobs, Between(j) PROVE NotExpired(i)'
  <2>1. /\ job'[i].state = job[i].state
        /\ DOMAIN gantt' = DOMAIN gantt
        /\ \A k \in DOMAIN gantt : /\ gantt'[k].res = gantt[k].res
                                   /\ gantt'[k].start = gantt[k].start \/ gantt'[k].start = now
        /\ UNCHANGED <<now, phase, queue, todo>>
    BY <1>0, <1>14 DEF Between, world
  <2>2. gantt'[i].start = gantt[i].start \/ gantt'[i].start = now
    BY <2>1
  <2>3. Due(i) /\ LookedAt(i)
    BY <2>1 DEF LookedAt
  <2>4. now \in Nat /\ Walltime[i] \in Nat /\ Security \in Nat
    BY <1>0, Settings, JobSettings DEF Typed
  <2> QED
    BY <1>0, <2>1, <2>2, <2>3, <2>4 DEF NotExpired
<1> QED
  BY <1>1, <1>2, <1>3, <1>4, <1>5, <1>6, <1>7, <1>8, <1>9, <1>10, <1>11, <1>12, <1>13, <1>14 DEF KindOfStep

-----------------------------------------------------------------------------
(* As long as nothing fails *)

LEMMA StepNodes ==
  ASSUME Typed, fails = 0 => NodesAreUp, [Next]_vars
  PROVE  fails' = 0 => fails = 0 /\ NodesAreUp /\ NodesAreUp'
<1> USE DEF NodesAreUp
<1>0. fails \in Nat
  BY DEF Typed
<1>1. ASSUME NEW r \in Resources, Fail(r) PROVE fails' # 0
  BY <1>0, <1>1 DEF Fail
<1>2. ASSUME NEW r \in Resources, Return(r) PROVE fails' = 0 => fails = 0 /\ NodesAreUp /\ NodesAreUp'
  BY <1>2 DEF Return, Typed
<1>3. ASSUME UNCHANGED <<up, fails>> PROVE fails' = 0 => fails = 0 /\ NodesAreUp /\ NodesAreUp'
  BY <1>3
<1>4. ASSUME NEW j \in Jobs, Submit(j) \/ Leave(j) PROVE UNCHANGED <<up, fails>>
  BY <1>4 DEF Submit, Leave, world
<1>5. ASSUME NEW j \in Reservations, Hangup(j) PROVE UNCHANGED <<up, fails>>
  BY <1>5 DEF Hangup, world
<1>6. ASSUME Tick PROVE UNCHANGED <<up, fails>>
  BY <1>6 DEF Tick
<1>7. ASSUME Round PROVE UNCHANGED <<up, fails>>
  BY <1>7 DEF Round, world, Begin, SavePlan, WaitingDone, SaveNew, Decide, Gather, Finish, Raise,
              Plan, WaitingReservation, NewReservation, SetScheduled, SetMaxTime, SetGanttStart, SetStart,
              AddPairs, Launch, Notify, Answer, Unheard
<1>8. ASSUME Crash \/ UNCHANGED vars PROVE UNCHANGED <<up, fails>>
  BY <1>8 DEF Crash, vars, world
<1>9. ASSUME Environment PROVE fails' = 0 => fails = 0 /\ NodesAreUp /\ NodesAreUp'
  <2> HIDE DEF NodesAreUp
  <2> QED
    BY <1>1, <1>2, <1>3, <1>4, <1>5, <1>6, <1>9 DEF Environment
<1> HIDE DEF NodesAreUp
<1> QED
  BY <1>3, <1>7, <1>8, <1>9 DEF Next

(* A round sees all the resources *)
LEMMA AllSeen ==
  ASSUME Typed, NodesAreUp
  PROVE  Seen = Resources
BY DEF Typed, NodesAreUp, Seen

LEMMA StepSees ==
  ASSUME Typed, NodesAreUp, SeesAll, KindOfStep
  PROVE  SeesAll'
<1>1. CASE Begin
  BY <1>1, AllSeen DEF Begin, SeesAll
<1>2. ASSUME NEW j \in Jobs, Submit(j) PROVE SeesAll'
  BY <1>2 DEF Submit, round, SeesAll
<1>3. CASE Drops \/ Cuts \/ Tick
  BY <1>3 DEF Drops, Cuts, Leaving, Tick, round, SeesAll
<1>4. CASE SavePlan \/ WaitingDone \/ SaveNew \/ Decide \/ Gather
  BY <1>4 DEF SavePlan, WaitingDone, SaveNew, Decide, Gather, SeesAll
<1>5. ASSUME NEW j \in Jobs, \/ Plan(j) \/ WaitingReservation(j) \/ NewReservation(j)
                             \/ Launch(j) \/ Answer(j) \/ Between(j)
      PROVE  SeesAll'
  BY <1>5 DEF Plan, WaitingReservation, NewReservation, Launch, Answer, Between, SeesAll
<1> QED
  BY <1>1, <1>2, <1>3, <1>4, <1>5 DEF KindOfStep

LEMMA StepRunning ==
  ASSUME Typed, StatesAreSound, RoundIsSound, NodesAreUp, GanttHasRunning, KindOfStep
  PROVE  GanttHasRunning'
<1> USE DEF GanttHasRunning
<1> DEFINE Same == \A i \in DOMAIN gantt : job[i].state = "toLaunch" => i \in DOMAIN gantt' /\ gantt'[i] = gantt[i]
<1>0. cut \subseteq cut'
  BY CutStays
<1>1. ASSUME Same, \A i \in Jobs : job'[i].state = "toLaunch" => job'[i] = job[i]
      PROVE  GanttHasRunning'
  BY <1>0, <1>1
<1>2. CASE \/ Drops \/ Cuts \/ WaitingDone \/ Decide \/ Gather \/ \E j \in Jobs : Submit(j)
  <2>1. \A i \in Jobs : job'[i].state = "toLaunch" => job'[i] = job[i]
    BY <1>2, FrameSteps DEF Frame
  <2>2. gantt' = gantt
    BY <1>2 DEF Drops, Cuts, WaitingDone, Decide, Gather, Submit, base
  <2> QED
    BY <1>1, <2>1, <2>2
<1>3. CASE SavePlan \/ SaveNew
  <2>1. gantt' = Saved /\ job' = job
    BY <1>3 DEF SavePlan, SaveNew
  <2>2. DOMAIN plan \cap DOMAIN gantt = {}
    BY <1>3 DEF SavePlan, SaveNew, RoundIsSound, ReadIsSound
  <2> QED
    BY <1>1, <2>1, <2>2, SavedRows
<1>4. CASE Begin
  <2>1. job' = job
    BY <1>4 DEF Begin
  <2>2. ASSUME NEW i \in Jobs, job[i].state = "toLaunch"
        PROVE  /\ i \in DOMAIN gantt' /\ gantt'[i].start = job[i].start
               /\ gantt'[i].res = Written(job[i].res, Seen)
    BY <1>4, <2>2, BeginRows DEF Pending
  <2>3. \A i \in Jobs : Written(job[i].res, Seen) = job[i].res
    <3>1. \A i \in Jobs : job[i].res \subseteq Resources
      BY DEF Typed, JobRows
    <3> QED
      BY <3>1, AllSeen DEF Written, Mapped
  <2> QED
    BY <2>1, <2>2, <2>3
<1>5. CASE Tick
  BY <1>0, <1>5 DEF Tick, base
<1>6. ASSUME NEW j \in Jobs, Plan(j) PROVE GanttHasRunning'
  BY <1>0, <1>6 DEF Plan, base
<1>7. ASSUME NEW j \in Jobs, WaitingReservation(j), Delay(j) \/ Reduce(j) PROVE GanttHasRunning'
  <2>1. job[j].state # "toLaunch" /\ job' = job
    BY <1>7 DEF WaitingReservation, Delay, Reduce, RoundIsSound, ReadIsSound, InRound
  <2>2. DOMAIN gantt' = DOMAIN gantt /\ \A i \in DOMAIN gantt \ {j} : gantt'[i] = gantt[i]
    BY <1>7, DelayRows, ReduceRows
  <2> QED
    BY <1>1, <2>1, <2>2
<1>8. ASSUME NEW j \in Reservations, j \in Jobs, NewReservation(j), Accept(j) PROVE GanttHasRunning'
  <2>1. \A i \in Jobs : job'[i].state = "toLaunch" => job'[i] = job[i]
    BY <1>8, AcceptLaunchesNone
  <2> QED
    BY <1>1, <1>8, <2>1 DEF NewReservation
<1>9. ASSUME NEW j \in Jobs, Launch(j) PROVE GanttHasRunning'
  <2>1. /\ \A i \in Jobs \ {j} : job'[i] = job[i]
        /\ IsOver(j) => job'[j] = job[j]
        /\ j \in DOMAIN gantt /\ gantt' = gantt
    BY <1>9, LaunchRows
  <2>2. j \notin cut /\ ~IsOver(j) => job'[j].start = gantt'[j].start /\ job'[j].res = gantt'[j].res
    BY <1>9, <2>1, LaunchedRow DEF LaunchedOnTime
  <2> QED
    BY <1>0, <2>1, <2>2 DEF IsOver
<1>10. ASSUME NEW j \in Jobs, Answer(j), job[j].state = "toAckReservation" PROVE GanttHasRunning'
  <2>1. OnlyState(j, "Waiting")
    BY <1>10, StateRows DEF Answer, StatesOf
  <2>2. \A i \in Jobs : job'[i].state = "toLaunch" => job'[i] = job[i]
    BY <1>10, <2>1 DEF OnlyState, IsOver
  <2> QED
    BY <1>1, <1>10, <2>2 DEF Answer
<1>11. ASSUME NEW j \in Jobs, Between(j) PROVE GanttHasRunning'
  <2>1. \A i \in Jobs : job'[i].state = "toLaunch" => job'[i] = job[i] /\ i # j
    BY <1>11, BetweenPlaces DEF Between
  <2>2. DOMAIN gantt' = DOMAIN gantt /\ \A i \in DOMAIN gantt : i # j => gantt'[i] = gantt[i]
    BY <1>11 DEF Between
  <2> QED
    BY <1>0, <2>1, <2>2
<1> QED
  BY <1>2, <1>3, <1>4, <1>5, <1>6, <1>7, <1>8, <1>9, <1>10, <1>11 DEF KindOfStep

LEMMA StepNothingFails ==
  Typed /\ StatesAreSound /\ RoundIsSound /\ NothingFails /\ [Next]_vars => NothingFails'
<1> SUFFICES ASSUME Typed, StatesAreSound, RoundIsSound, NothingFails, [Next]_vars, fails' = 0
             PROVE  NodesAreUp' /\ SeesAll' /\ GanttHasRunning'
  BY DEF NothingFails
<1>1. fails = 0 /\ NodesAreUp /\ NodesAreUp'
  BY StepNodes DEF NothingFails
<1>2. SeesAll /\ GanttHasRunning
  BY <1>1 DEF NothingFails
<1> QED
  BY <1>1, <1>2, StepKind, StepSees, StepRunning

-----------------------------------------------------------------------------
(* What is granted and answered *)

LEMMA NoFaultBefore ==
  ASSUME Typed, Typed', KindOfStep
  PROVE  (fails' = 0 => fails = 0) /\ (crashes' = 0 => crashes = 0)
<1>1. {fails, fails', crashes, crashes'} \subseteq Nat
  BY DEF Typed
<1>2. CASE Drops \/ Cuts
  BY <1>1, <1>2 DEF Drops, Cuts, world, cuts
<1>3. CASE Tick \/ Begin \/ SavePlan \/ WaitingDone \/ SaveNew \/ Decide \/ Gather
  BY <1>3 DEF Tick, Begin, SavePlan, WaitingDone, SaveNew, Decide, Gather, world, cuts
<1>4. ASSUME NEW j \in Jobs, \/ Submit(j) \/ Plan(j) \/ WaitingReservation(j) \/ NewReservation(j)
                             \/ Launch(j) \/ Answer(j) \/ Between(j)
      PROVE  UNCHANGED <<fails, crashes>>
  BY <1>4 DEF Submit, Plan, WaitingReservation, NewReservation, Launch, Answer, Between, world, cuts
<1> QED
  BY <1>2, <1>3, <1>4 DEF KindOfStep

Granted(i) ==
  \/ job[i].state = "toAckReservation"
  \/ job[i].state = "Waiting" /\ job[i].resa = "Scheduled"

(* Between two rounds, one that is accepted has its kind *)
LEMMA GrantedScheduled ==
  ASSUME StatesAreSound, NEW i \in Reservations, i \in Jobs, Granted(i), i \in DOMAIN gantt, phase = "rest", RoundIsSound
  PROVE  job[i].resa = "Scheduled"
BY DEF Granted, StatesAreSound, StateIsSound, RoundIsSound, DoingIsSound, MarkIsSound, Mid

LEMMA StepGranted ==
  ASSUME Typed, Typed', StatesAreSound, RoundIsSound, NothingFails, GrantedHasPlace, KindOfStep
  PROVE  GrantedHasPlace'
<1> SUFFICES ASSUME crashes' + fails' = 0, NEW i \in Reservations, Granted(i)'
             PROVE  \/ i \in DOMAIN gantt' /\ gantt'[i].res # {}
                    \/ phase' = "new" /\ i \in DOMAIN plan' /\ plan'[i].res # {}
  BY DEF GrantedHasPlace, Granted
<1> DEFINE Has == \/ i \in DOMAIN gantt' /\ gantt'[i].res # {}
                  \/ phase' = "new" /\ i \in DOMAIN plan' /\ plan'[i].res # {}
<1>0. fails = 0 /\ crashes = 0 /\ fails' = 0 /\ crashes' = 0
  <2>1. fails' \in Nat /\ crashes' \in Nat
    BY DEF Typed
  <2>2. \A m, n \in Nat : m + n = 0 => n = 0 /\ m = 0
    OBVIOUS
  <2>3. fails' = 0 /\ crashes' = 0
    BY <2>1, <2>2
  <2> QED
    BY <2>3, NoFaultBefore
<1>1. i \in Jobs
  BY JobsAssumption DEF Reservations
<1>2. ASSUME Granted(i)
      PROVE  \/ i \in DOMAIN gantt /\ gantt[i].res # {}
             \/ phase = "new" /\ i \in DOMAIN plan /\ plan[i].res # {}
  BY <1>0, <1>2 DEF GrantedHasPlace, Granted
<1>3. CASE Drops
  <2>1. job'[i] = job[i]
    BY <1>1, <1>3 DEF Drops, Granted
  <2> QED
    BY <1>2, <1>3, <2>1 DEF Drops, Granted
<1>4. CASE Cuts
  <2>1. UNCHANGED <<job, gantt>> /\ (crashes' > crashes \/ phase \in {"waiting", "started", "answer"})
    BY <1>4 DEF Cuts, base
  <2>2. Granted(i) /\ phase # "new"
    BY <1>0, <2>1 DEF Granted
  <2> QED
    BY <1>2, <2>1, <2>2
<1>5. CASE Tick \/ WaitingDone \/ Gather
  BY <1>0, <1>2, <1>5 DEF Tick, WaitingDone, Gather, base, round, world, RoundIsSound, ReadIsSound, Nothing, Granted
<1>6. CASE Decide
  BY <1>2, <1>6 DEF Decide, Granted
<1>7. CASE Begin
  <2>1. fails = 0 /\ crashes = 0 /\ job' = job /\ phase = "rest"
    BY <1>0, <1>7 DEF Begin, world
  <2>2. i \in DOMAIN gantt /\ gantt[i].res # {}
    BY <1>2, <2>1 DEF Granted
  <2>3. i \in DOMAIN gantt'
    <3>1. job[i].state \in Pending /\ job[i].resa = "Scheduled"
      BY <1>1, <2>1, <2>2, GrantedScheduled DEF Granted, Pending
    <3> QED
      BY <1>7, <2>2, <3>1, BeginRows
  <2>4. gantt'[i] = gantt[i]
    BY <1>1, <1>7, <2>1, <2>3, BeginRows DEF Pending, Granted
  <2> QED
    BY <2>2, <2>3, <2>4
<1>8. CASE SavePlan \/ SaveNew
  <2>1. fails = 0 /\ crashes = 0 /\ job' = job /\ gantt' = Saved
    BY <1>0, <1>8 DEF SavePlan, SaveNew, world
  <2>2. DOMAIN plan \cap DOMAIN gantt = {}
    BY <1>8 DEF SavePlan, SaveNew, RoundIsSound, ReadIsSound
  <2> QED
    BY <1>2, <2>1, <2>2, SavedRows DEF Granted
<1>9. ASSUME NEW j \in Jobs, Submit(j) PROVE Has
  <2>1. /\ \A k \in Jobs \ {j} : job'[k] = job[k]
        /\ job[j].state = "none" /\ job'[j].resa = job[j].resa /\ job'[j].state = "Waiting"
    BY <1>9, SubmitRows
  <2>2. i # j
    BY <1>1, <2>1 DEF StatesAreSound, StateIsSound, Granted
  <2> QED
    BY <1>1, <1>2, <1>9, <2>1, <2>2 DEF Submit, round, Granted
<1>10. ASSUME NEW j \in Jobs, Plan(j) PROVE Has
  <2>1. phase = "plan" /\ UNCHANGED <<job, gantt>>
    BY <1>10 DEF Plan, base, world
  <2> QED
    BY <1>0, <1>2, <2>1 DEF Granted
<1>11. ASSUME NEW j \in Jobs, WaitingReservation(j), Delay(j) \/ Reduce(j) PROVE Has
  <2>1. phase = "waiting" /\ UNCHANGED <<job, fails>>
    BY <1>11 DEF WaitingReservation, Delay, Reduce, world
  <2>2. i \in DOMAIN gantt /\ gantt[i].res # {}
    BY <1>0, <1>2, <2>1 DEF Granted
  <2>3. seen = Resources
    BY <1>0, <2>1 DEF NothingFails, SeesAll
  <2>4. Missing(j) = {}
    BY <1>11, <2>3, MappedTyped, DelayRows, ReduceRows DEF Missing, Typed, GanttJobsPrediction, GanttJobsResource
  <2>5. DOMAIN gantt' = DOMAIN gantt /\ gantt'[i].res = gantt[i].res
    BY <1>11, <2>2, <2>4, DelayRows, ReduceRows
  <2> QED
    BY <2>2, <2>5
<1>12. ASSUME NEW j \in Reservations, j \in Jobs, NewReservation(j), Accept(j) PROVE Has
  <2>1. phase' = "new" /\ phase = "new" /\ gantt' = gantt
    BY <1>12 DEF NewReservation, world
  <2>2. PICK res : res # {} /\ PlanAt(j, From(j), res)
    BY <1>12, AcceptRows
  <2>3. CASE i = j
    BY <2>1, <2>2, <2>3 DEF PlanAt
  <2>4. CASE i # j
    <3>1. job'[i] = job[i]
      BY <1>1, <1>12, <2>4, AcceptPlaces
    <3> QED
      BY <1>0, <1>2, <2>1, <2>2, <2>4, <3>1 DEF PlanAt, Granted
  <2> QED
    BY <2>3, <2>4
<1>13. ASSUME NEW j \in Jobs, Launch(j) PROVE Has
  <2>1. /\ \A k \in Jobs \ {j} : job'[k] = job[k]
        /\ job'[j].state \notin Pending
        /\ gantt' = gantt /\ phase = "started"
    BY <1>13, LaunchRows DEF IsOver, Pending
  <2>2. i # j /\ job'[i] = job[i]
    BY <1>1, <2>1 DEF Granted, Pending
  <2> QED
    BY <1>2, <2>1, <2>2 DEF Granted
<1>14. ASSUME NEW j \in Jobs, Answer(j), job[j].state = "toAckReservation" PROVE Has
  <2>1. OnlyState(j, "Waiting")
    BY <1>14, StateRows DEF Answer, StatesOf
  <2>2. phase = "answer" /\ gantt' = gantt
    BY <1>14 DEF Answer, Mid, RoundIsSound, DoingIsSound, MarkIsSound
  <2>3. Granted(i)
    BY <1>1, <1>14, <2>1 DEF OnlyState, Granted
  <2> QED
    BY <1>2, <2>2, <2>3
<1>15. ASSUME NEW j \in Jobs, Between(j) PROVE Has
  <2>1. /\ job'[i].state = job[i].state /\ UNCHANGED <<phase, plan>>
        /\ job'[i].resa = job[i].resa \/ job[i].state # "Waiting"
        /\ DOMAIN gantt' = DOMAIN gantt /\ \A k \in DOMAIN gantt : gantt'[k].res = gantt[k].res
    BY <1>1, <1>15 DEF Between
  <2>2. Granted(i)
    BY <2>1 DEF Granted
  <2> QED
    BY <1>2, <2>1, <2>2
<1> QED
  BY <1>3, <1>4, <1>5, <1>6, <1>7, <1>8, <1>9, <1>10, <1>11, <1>12, <1>13, <1>14, <1>15 DEF KindOfStep

LEMMA StepAnswers ==
  ASSUME Typed, RoundIsSound, AnswersAreDue, KindOfStep
  PROVE  AnswersAreDue'
<1> SUFFICES ASSUME phase' = "answer", NEW i \in Jobs, job'[i].state \in {"toAckReservation", "toError"}
             PROVE  i \in todo' \cup fragged'
  BY DEF AnswersAreDue, Unanswered, In
<1>0. ASSUME phase = "answer", job[i].state \in {"toAckReservation", "toError"}
      PROVE  i \in todo \cup fragged
  BY <1>0 DEF AnswersAreDue, Unanswered, In
<1>1. CASE Drops
  <2>1. /\ phase = "answer" /\ job'[i].state = job[i].state
        /\ i \in todo \cup fragged => i \in todo' \cup fragged'
    BY <1>1 DEF Drops
  <2> QED
    BY <1>0, <2>1
<1>2. CASE Gather
  BY <1>2 DEF Gather, Unanswered, In, base
<1>3. ASSUME NEW j \in Jobs, Submit(j) PROVE i \in todo' \cup fragged'
  BY <1>0, <1>3, SubmitRows DEF Submit, round
<1>4. ASSUME NEW j \in Jobs, Answer(j), job[j].state = "toAckReservation" PROVE i \in todo' \cup fragged'
  <2>1. OnlyState(j, "Waiting") /\ ~IsOver(j)
    BY <1>4, StateRows DEF Answer, StatesOf, IsOver
  <2>2. i # j /\ job'[i] = job[i]
    BY <2>1 DEF OnlyState
  <2>3. phase = "answer" /\ todo' = todo \ {j} /\ fragged' = fragged
    BY <1>4 DEF Answer
  <2> QED
    BY <1>0, <2>2, <2>3
<1>7. ASSUME NEW j \in Jobs, Between(j) PROVE i \in todo' \cup fragged'
  <2>1. job'[i].state = job[i].state /\ UNCHANGED <<phase, todo, fragged>>
    BY <1>7 DEF Between
  <2> QED
    BY <1>0, <2>1
<1>5. ASSUME NEW j \in Jobs, Plan(j) \/ WaitingReservation(j) \/ NewReservation(j) \/ Launch(j)
      PROVE  FALSE
  <2>1. phase # "answer" /\ phase' = phase
    BY <1>5, LaunchRows DEF Plan, WaitingReservation, NewReservation, Launch
  <2> QED
    BY <2>1
<1>6. CASE Cuts \/ Tick \/ Begin \/ SavePlan \/ WaitingDone \/ SaveNew \/ Decide
  BY <1>6 DEF Cuts, Leaving, Tick, round, Begin, SavePlan, WaitingDone, SaveNew, Decide
<1> QED
  BY <1>1, <1>2, <1>3, <1>4, <1>5, <1>6, <1>7 DEF KindOfStep

-----------------------------------------------------------------------------
(* Besteffort jobs *)

LEMMA StepHolders ==
  ASSUME Typed, Typed', StatesAreSound, RoundIsSound, NothingFails, HoldersAreKnown, KindOfStep
  PROVE  HoldersAreKnown'
<1> DEFINE Known(b) == \E h \in holders' : h.job = b /\ h.res = job'[b].res
           BeforeAcks(p) == p \in {"plan", "waiting", "new", "launch"}
<1> SUFFICES ASSUME fails' = 0, BeforeAcks(phase'), NEW b \in Jobs \ cut', job'[b].state = "toLaunch", Low(b)
             PROVE  Known(b)
  BY DEF HoldersAreKnown, Low
<1>1. fails = 0 /\ b \in Jobs \ cut
  BY NoFaultBefore, CutStays
<1>2. ASSUME BeforeAcks(phase), job'[b] = job[b], holders' = holders
      PROVE  Known(b)
  BY <1>1, <1>2 DEF HoldersAreKnown
<1>3. CASE Begin
  <2>1. Seen = Resources
    BY <1>1, AllSeen DEF NothingFails
  <2>2. job' = job /\ job[b].res \subseteq Resources
    BY <1>3 DEF Begin, Typed, JobRows
  <2>3. b \in DOMAIN gantt' /\ gantt'[b].res = Written(job[b].res, Seen)
    BY <1>3, <2>2, BeginRows DEF Pending
  <2>4. Mapped(gantt'[b].res, Seen) = job[b].res
    BY <2>1, <2>2, <2>3 DEF Written, Mapped
  <2>5. [job |-> b, res |-> Mapped(gantt'[b].res, Seen)] \in holders'
    BY <1>3, <2>3 DEF Begin, Low
  <2> QED
    BY <2>2, <2>4, <2>5
<1>4. CASE Drops \/ SavePlan \/ WaitingDone \/ SaveNew \/ \E j \in Jobs : Submit(j)
  <2>1. job'[b] = job[b]
    BY <1>4, FrameSteps DEF Frame
  <2>2. BeforeAcks(phase) /\ holders' = holders
    BY <1>4 DEF Drops, SavePlan, WaitingDone, SaveNew, Submit, round
  <2> QED
    BY <1>2, <2>1, <2>2
<1>5. CASE Cuts \/ Decide \/ Gather
  BY <1>5 DEF Cuts, Leaving, Decide, Gather
<1>6. CASE Tick
  BY <1>2, <1>6 DEF Tick, base, round
<1>7. ASSUME NEW j \in Jobs, Plan(j) PROVE Known(b)
  BY <1>2, <1>7 DEF Plan, base
<1>8. ASSUME NEW j \in Jobs, WaitingReservation(j), Delay(j) \/ Reduce(j) PROVE Known(b)
  BY <1>2, <1>8 DEF WaitingReservation, Delay, Reduce
<1>9. ASSUME NEW j \in Jobs, NewReservation(j), Accept(j) PROVE Known(b)
  <2>1. job'[b] = job[b]
    BY <1>9, AcceptLaunchesNone
  <2> QED
    BY <1>2, <1>9, <2>1 DEF NewReservation
<1>10. ASSUME NEW j \in Jobs, Launch(j) \/ Answer(j) PROVE FALSE
  <2>1. phase \in {"started", "answer"} /\ phase' = phase
    BY <1>10, LaunchRows DEF Launch, Answer, Mid, RoundIsSound, DoingIsSound, MarkIsSound
  <2> QED
    BY <2>1
<1>11. ASSUME NEW j \in Jobs, Between(j) PROVE Known(b)
  <2>1. job'[b] = job[b]
    BY <1>11, BetweenPlaces
  <2> QED
    BY <1>2, <1>11, <2>1 DEF Between
<1> QED
  BY <1>3, <1>4, <1>5, <1>6, <1>7, <1>8, <1>9, <1>10, <1>11 DEF KindOfStep

(* No job that the round launches meets a besteffort job that runs, but a  *)
(* reservation at its very last date.                                      *)
LEMMA StepToLaunchIsClear ==
  ASSUME Typed, Typed', StatesAreSound, RoundIsSound, RoundIsApart, NothingFails, HoldersAreKnown,
         ToLaunchIsClear, KindOfStep
  PROVE  ToLaunchIsClear'
<1> DEFINE Clear(j, b) == \/ Apart(gantt'[j].res, job'[b].res)
                          \/ Held(j)'.start + Walltime[j] + Security <= now'
<1> SUFFICES ASSUME fails' = 0, Asleep = {}, phase' = "started", NEW j \in todo' \ cut', NEW b \in Jobs \ cut',
                    job'[j].state = "Waiting", ~Low(j), job'[b].state = "toLaunch", Low(b)
             PROVE  Clear(j, b)
  BY DEF ToLaunchIsClear, Low
<1>0. fails = 0 /\ j \in Jobs \ cut /\ b \in Jobs \ cut
  BY NoFaultBefore, CutStays DEF Typed
<1>1. ASSUME phase = "started", j \in todo, job[j].state = "Waiting", job[b].state = "toLaunch"
      PROVE  \/ Apart(gantt[j].res, job[b].res)
             \/ Held(j).start + Walltime[j] + Security <= now
  BY <1>0, <1>1 DEF ToLaunchIsClear
<1>2. CASE Drops
  <2>1. job'[j] = job[j] /\ job'[b] = job[b] /\ j \in todo
    BY <1>0, <1>2 DEF Drops
  <2>2. Held(j)' = Held(j)
    BY <1>2, SameHeld DEF Drops
  <2> QED
    BY <1>1, <1>2, <2>1, <2>2 DEF Drops
<1>3. ASSUME NEW k \in Jobs, Submit(k) PROVE Clear(j, b)
  <2>1. \A i \in Jobs \ {k} : job'[i] = job[i]
    BY <1>3, SubmitRows
  <2>2. job[k].state = "none" /\ job'[k].state = "Waiting"
    BY <1>3, SubmitRows
  <2>3. phase = "started" /\ j \in todo /\ UNCHANGED <<gantt, now, doing>>
    BY <1>3 DEF Submit, round, world
  <2>4. b # k /\ j # k
    BY <2>2, <2>3 DEF RoundIsSound, ReadIsSound, InRound
  <2>5. Held(j)' = Held(j)
    BY <2>3, SameHeld
  <2> QED
    BY <1>0, <1>1, <2>1, <2>3, <2>4, <2>5
<1>4. CASE Decide
  <2>1. /\ phase = "launch" /\ UNCHANGED <<now, job, gantt>>
        /\ ToKill = {} /\ j \in Ready
    BY <1>4 DEF Decide, world
  <2>2. NodesAreUp /\ seen = Resources
    BY <1>0, <2>1 DEF NothingFails, SeesAll
  <2>3. j \in DOMAIN gantt /\ gantt[j].res \subseteq Resources
    BY <2>1 DEF Ready, Typed, GanttJobsPrediction, GanttJobsResource
  <2>4. \A r \in Resources : up[r] = "Alive"
    BY <2>2 DEF NodesAreUp, Typed
  <2>5. Mapped(AliveOf(j), seen) = gantt[j].res
    BY <2>2, <2>3, <2>4 DEF Mapped, AliveOf
  <2>6. PICK h \in holders : h.job = b /\ h.res = job[b].res
    BY <1>0, <2>1 DEF HoldersAreKnown
  <2>7. h.res \cap gantt[j].res = {}
    BY <2>1, <2>5 DEF ToKill
  <2> QED
    BY <2>1, <2>6, <2>7 DEF Apart
<1>5. ASSUME NEW k \in Jobs, Launch(k) PROVE Clear(j, b)
  <2>1. phase = "started" /\ j \in todo /\ j # k /\ now' = now /\ gantt' = gantt /\ k \in DOMAIN gantt
    BY <1>5, LaunchRows DEF Launch, world
  <2>2. job'[j] = job[j] /\ j \in DOMAIN gantt /\ ~InLaunch(j) /\ ~InLaunch(j)'
    <3>1. job'[j] = job[j]
      BY <1>0, <1>5, <2>1, LaunchRows
    <3>2. j \in DOMAIN gantt
      BY <2>1 DEF RoundIsSound, PhaseIsSound
    <3>3. doing.job = k /\ doing' = NotDoing
      BY <1>5 DEF Launch, Mid
    <3> QED
      BY <2>1, <3>1, <3>2, <3>3 DEF InLaunch, NotDoing, LaunchSteps
  <2>3. Held(j)' = Held(j)
    BY <2>1, <2>2 DEF Held
  <2>4. CASE b # k
    <3>1. job'[b] = job[b]
      BY <1>0, <1>5, <2>4, LaunchRows
    <3> QED
      BY <1>1, <2>1, <2>2, <2>3, <3>1
  <2>5. CASE b = k
    <3>1. ~IsOver(k)
      BY <1>5, <2>5, LaunchRows DEF IsOver
    <3>2. LaunchedOnTime(k)
      BY <1>0, <1>5, <2>5, <3>1, LaunchedRow
    <3>3. b \in Jobs \ Reservations
      BY JobSettings DEF Low
    <3>4. job[k].resa # "Scheduled"
      BY <2>5, <3>3 DEF StatesAreSound, StateIsSound
    <3>5. job'[b].res = gantt[b].res /\ Held(b).start = now
      BY <2>5, <3>2, <3>4 DEF LaunchedOnTime
    <3>6. Row(b) = Held(b) /\ Row(j) = Held(j) /\ Placed(b) /\ Placed(j)
      BY <1>5, <2>1, <2>2, <2>5, <3>1, LaunchPlaces DEF Placed, Pending
    <3>7. Held(b).res = gantt[b].res /\ Held(j).res = gantt[j].res
      BY <2>1, <2>2, <2>5, HeldRow
    <3>8. ApartFromPlaced(b, j)
      BY <1>0, <2>1, <2>5, <3>3, <3>6 DEF RoundIsApart, InRound, LooksAt
    <3>9. /\ Row(b).start \in Nat /\ Row(j).start \in Nat /\ now \in Nat /\ Security \in Nat
          /\ Walltime[b] \in Nat /\ Walltime[b] > 0 /\ Walltime[j] \in Nat
      BY <1>0, <3>6, JobDates
    <3>10. job[j].state = "Waiting"
      BY <2>2
    <3>11. CASE Row(b).start + Walltime[b] + Security <= Row(j).start
      <4>1. InRound
        BY <2>1 DEF InRound
      <4>2. Held(j).start <= now
        <5>1. gantt[j].start <= now
          BY <2>1 DEF RoundIsSound, PhaseIsSound
        <5> QED
          BY <2>2, <5>1 DEF Held
      <4> QED
        BY <3>5, <3>6, <3>9, <3>11, <4>2
    <3> QED
      BY <2>1, <2>3, <3>5, <3>6, <3>7, <3>8, <3>9, <3>10, <3>11 DEF ApartFromPlaced, Apart
  <2> QED
    BY <2>4, <2>5
<1>6. ASSUME Cuts \/ Tick \/ Begin \/ SavePlan \/ WaitingDone \/ SaveNew \/ Gather PROVE FALSE
  BY <1>6 DEF Cuts, Leaving, Tick, round, Begin, SavePlan, WaitingDone, SaveNew, Gather
<1>7. ASSUME NEW k \in Jobs, Plan(k) \/ WaitingReservation(k) \/ NewReservation(k) \/ Answer(k)
      PROVE  FALSE
  <2>1. phase # "started" /\ phase' = phase
    BY <1>7 DEF Plan, WaitingReservation, NewReservation, Answer, Mid, RoundIsSound, DoingIsSound, MarkIsSound
  <2> QED
    BY <2>1
<1>8. ASSUME NEW k \in Jobs, Between(k) PROVE Clear(j, b)
  <2>1. /\ phase = "started" /\ j \in todo /\ now' = now
        /\ \A i \in DOMAIN gantt : Held(i)' = Held(i) /\ gantt'[i].res = gantt[i].res
    BY <1>8 DEF Between, world
  <2>2. j \in DOMAIN gantt
    BY <2>1 DEF RoundIsSound, PhaseIsSound
  <2>3. job'[b] = job[b] /\ job[j].state = job'[j].state
    BY <1>0, <1>8, BetweenPlaces
  <2> QED
    BY <1>1, <2>1, <2>2, <2>3
<1> QED
  BY <1>2, <1>3, <1>4, <1>5, <1>6, <1>7, <1>8 DEF KindOfStep

-----------------------------------------------------------------------------
(* One job per resource *)

LEMMA LaunchesNone ==
  ASSUME Typed, Typed', StatesAreSound, RoundIsSound, KindOfStep, \A j \in Jobs : ~Launch(j)
  PROVE  /\ \A i \in Jobs : job'[i].state = "toLaunch" => job'[i] = job[i]
         /\ now' >= now /\ fails' >= fails
<1> DEFINE Quiet == /\ \A i \in Jobs : job'[i].state = "toLaunch" => job'[i] = job[i]
                    /\ now' >= now /\ fails' >= fails
<1>0. {now, now', fails, fails'} \subseteq Nat
  BY Settings DEF Typed
<1>1. ASSUME job' = job, UNCHANGED <<now, fails>> PROVE Quiet
  BY <1>0, <1>1
<1>2. CASE \/ Drops \/ Cuts \/ Begin \/ SavePlan \/ WaitingDone \/ SaveNew \/ Decide \/ Gather
           \/ \E j \in Jobs : Submit(j) \/ Between(j)
  BY <1>0, <1>2, FrameSteps DEF Frame
<1>3. CASE Tick
  BY <1>0, <1>3 DEF Tick, base
<1>4. ASSUME NEW j \in Jobs, Plan(j) PROVE Quiet
  BY <1>1, <1>4 DEF Plan, base, world
<1>5. ASSUME NEW j \in Jobs, WaitingReservation(j), Delay(j) \/ Reduce(j) PROVE Quiet
  BY <1>1, <1>5 DEF WaitingReservation, Delay, Reduce, world
<1>6. ASSUME NEW j \in Jobs, NewReservation(j), Accept(j) PROVE Quiet
  BY <1>0, <1>6, AcceptLaunchesNone DEF NewReservation, world
<1>7. ASSUME NEW j \in Jobs, Answer(j), job[j].state = "toAckReservation" PROVE Quiet
  <2>1. OnlyState(j, "Waiting")
    BY <1>7, StateRows DEF Answer, StatesOf
  <2> QED
    BY <1>0, <1>7, <2>1 DEF Answer, OnlyState, IsOver, world
<1> HIDE DEF Quiet
<1>8. Quiet
  BY <1>2, <1>3, <1>4, <1>5, <1>6, <1>7 DEF KindOfStep, Quiet
<1> QED
  BY <1>8 DEF Quiet

(* The dates of a job that is launched: a reservation that is late ends    *)
(* the security time after its end in the gantt.                           *)
LEMMA LaunchDates ==
  ASSUME Typed, StatesAreSound, RoundIsSound, NEW j \in Jobs \ cut, Launch(j), ~IsOver(j)
  PROVE  /\ Placed(j) /\ Row(j) = Held(j) /\ job[j].state = "Waiting"
         /\ Held(j).res = gantt[j].res /\ Held(j).start \in Nat
         /\ job'[j].start = now /\ job'[j].res = gantt[j].res /\ job'[j].walltime \in Nat
         /\ \/ Held(j).start = now /\ job'[j].walltime = Walltime[j]
            \/ /\ j \in Reservations /\ Held(j).start < now
               /\ now + job'[j].walltime = Held(j).start + Walltime[j] + Security
<1>1. /\ j \in DOMAIN gantt /\ job[j].state = "Waiting" /\ job'[j].walltime = job[j].walltime
  BY LaunchRows
<1>2. Placed(j) /\ Row(j) = Held(j) /\ Held(j).res = gantt[j].res
  BY <1>1, LaunchPlaces, HeldRow
<1>3. /\ Held(j).start \in Nat /\ now \in Nat /\ Security \in Nat
      /\ Walltime[j] \in Nat /\ job[j].walltime \in Nat
  BY <1>2, JobDates
<1>4. job[j].resa = "Scheduled" => j \in Reservations
  BY DEF StatesAreSound, StateIsSound
<1>5. LaunchedOnTime(j)
  BY LaunchedRow
<1> QED
  BY <1>1, <1>2, <1>3, <1>4, <1>5 DEF LaunchedOnTime

LEMMA LaunchMeetsNone ==
  ASSUME Typed, StatesAreSound, RoundIsSound, RoundIsApart, ReservedIsApart,
         ToLaunchIsClear, NEW j \in Jobs \ cut, Launch(j), ~IsOver(j), job'[j].walltime > 0,
         NEW k \in Jobs \ ({j} \cup cut), k \in Standing, gantt[j].res \cap job[k].res # {}
  PROVE  \/ fails > 0 /\ j \in Reservations
         \/ (fails > 0 \/ Asleep # {}) /\ Queue[j] # Queue[k]
         \/ /\ j \in Reservations /\ k \in Reservations
            /\ \/ job[k].start + job[k].walltime < now + Security
               \/ now + job'[j].walltime < job[k].start + Security
<1>1. /\ Placed(j) /\ Row(j) = Held(j) /\ job[j].state = "Waiting" /\ Held(j).res = gantt[j].res
      /\ job'[j].start = now /\ job'[j].res = gantt[j].res /\ job'[j].walltime \in Nat
      /\ \/ Held(j).start = now /\ job'[j].walltime = Walltime[j]
         \/ /\ j \in Reservations /\ Held(j).start < now
            /\ now + job'[j].walltime = Held(j).start + Walltime[j] + Security
  BY LaunchDates
<1>2. /\ Held(j).start \in Nat /\ now \in Nat /\ Security \in Nat
      /\ Walltime[j] \in Nat /\ Walltime[j] > 0
      /\ job[k].start \in Nat /\ job[k].walltime \in Nat /\ job[k].start <= now
  BY <1>1, JobDates DEF Standing, In
<1>3. /\ job[k].state = "toLaunch" /\ job[k].walltime > 0
      /\ now < job[k].start + job[k].walltime + Security
  BY DEF Standing, In
<1>4. phase = "started" /\ InRound /\ j \in todo
  BY LaunchRows DEF InRound
<1>5. ~Apart(Row(j).res, job[k].res)
  BY <1>1 DEF Apart
<1>6. ~(Held(j).start + Walltime[j] + Security <= now)
  BY <1>1, <1>2
<1>7. CASE Low(k) /\ ~Low(j)
  <2>1. fails \in Nat
    BY DEF Typed
  <2>2. fails > 0 \/ Asleep # {}
    BY <1>1, <1>3, <1>4, <1>5, <1>6, <1>7, <2>1 DEF ToLaunchIsClear
  <2> QED
    BY <1>7, <2>2 DEF Low
<1>8. CASE ~(Low(k) /\ ~Low(j)) /\ j \notin Reservations
  <2>1. ApartFromLaunched(j, k)
    BY <1>1, <1>3, <1>4, <1>8 DEF RoundIsApart, LooksAt
  <2> QED
    BY <1>1, <1>2, <1>3, <1>5, <1>8, <2>1 DEF ApartFromLaunched
<1>9. CASE ~(Low(k) /\ ~Low(j)) /\ j \in Reservations /\ ~(fails > 0)
  <2>1. fails = 0
    BY <1>9 DEF Typed
  <2>2. ~Low(j) /\ ~Low(k)
    BY <1>9, JobSettings DEF Low
  <2>3. ReservedFromLaunched(j, k)
    BY <1>1, <1>3, <1>9, <2>1, <2>2 DEF ReservedIsApart
  <2> QED
    BY <1>1, <1>2, <1>3, <1>5, <1>9, <2>3 DEF ReservedFromLaunched
<1> QED
  BY <1>7, <1>8, <1>9

LEMMA StepOneJob ==
  ASSUME Typed, Typed', StatesAreSound, RoundIsSound, RoundIsApart, ReservedIsApart,
         ToLaunchIsClear, OneJobPerResource, KindOfStep
  PROVE  OneJobPerResource'
<1>0. /\ fails \in Nat /\ fails' \in Nat /\ now \in Nat /\ now' \in Nat /\ Security \in Nat
      /\ \A i \in Jobs : /\ job[i].start \in Int /\ job[i].walltime \in Int
                         /\ job'[i].start \in Int /\ job'[i].walltime \in Int
  BY Settings DEF Typed, JobRows
<1>9. cut \subseteq cut'
  BY CutStays
<1>1. ASSUME \A i \in Jobs : job'[i].state = "toLaunch" => job'[i] = job[i],
             now' >= now, fails' >= fails
      PROVE  OneJobPerResource'
  <2>1. \A i \in Standing' : i \in Standing /\ i \in Jobs /\ job'[i] = job[i]
    BY <1>0, <1>1 DEF Standing, In
  <2> QED
    BY <1>0, <1>1, <1>9, <2>1 DEF OneJobPerResource, MayMeet, RunsInto, Briefly
<1>2. ASSUME NEW j \in Jobs, Launch(j) PROVE OneJobPerResource'
  <2>1. \A i \in Jobs \ {j} : job'[i] = job[i]
    BY <1>2, LaunchRows
  <2>2. fails' = fails /\ now' = now /\ cut' = cut
    BY <1>2 DEF Launch, world, cuts
  <2>3. CASE IsOver(j)
    <3>1. job'[j] = job[j]
      BY <1>2, <2>3, LaunchRows
    <3> QED
      BY <1>0, <1>1, <2>1, <2>2, <3>1
  <2>5. CASE ~IsOver(j) /\ j \in cut
    <3>1. \A i \in Standing' \ {j} : i \in Standing /\ i \in Jobs /\ job'[i] = job[i]
      BY <2>1, <2>2 DEF Standing, In
    <3> QED
      BY <2>2, <2>5, <3>1 DEF OneJobPerResource, MayMeet, RunsInto, Briefly
  <2>4. CASE ~IsOver(j) /\ j \notin cut
    <3>1. job'[j].start = now /\ job'[j].res = gantt[j].res
      BY <1>2, <2>4, LaunchDates
    <3>2. \A i \in Standing' \ {j} : i \in Standing /\ i \in Jobs /\ job'[i] = job[i]
      BY <2>1, <2>2 DEF Standing, In
    <3>3. ASSUME NEW k \in Standing' \ {j}, j \in Standing', gantt[j].res \cap job[k].res # {}
          PROVE  MayMeet(j, k)' /\ MayMeet(k, j)'
      <4>1. job'[j].walltime > 0 /\ k \in Standing /\ k \in Jobs \ {j} /\ job'[k] = job[k]
        BY <3>2, <3>3 DEF Standing
      <4>3. CASE k \in cut
        BY <2>2, <4>3 DEF MayMeet
      <4>2. ASSUME k \notin cut
            PROVE  \/ fails > 0 /\ j \in Reservations
                   \/ (fails > 0 \/ Asleep # {}) /\ Queue[j] # Queue[k]
                   \/ /\ j \in Reservations /\ k \in Reservations
                      /\ \/ job[k].start + job[k].walltime < now + Security
                         \/ now + job'[j].walltime < job[k].start + Security
        BY <1>2, <2>4, <3>3, <4>1, <4>2, LaunchMeetsNone
      <4> QED
        BY <2>2, <3>1, <4>1, <4>2, <4>3 DEF MayMeet, RunsInto, Briefly
    <3>4. ASSUME NEW i \in Standing', NEW k \in Standing', i # k, job'[i].res \cap job'[k].res # {}
          PROVE  MayMeet(i, k)'
      <4>1. CASE i = j
        BY <3>1, <3>2, <3>3, <3>4, <4>1
      <4>2. CASE k = j
        <5>1. gantt[j].res \cap job[i].res # {}
          BY <3>1, <3>2, <3>4, <4>2
        <5> QED
          BY <3>3, <3>4, <4>2, <5>1
      <4>3. CASE i # j /\ k # j
        <5>1. /\ i \in Standing /\ k \in Standing /\ job'[i] = job[i] /\ job'[k] = job[k]
          BY <3>2, <3>4, <4>3
        <5>2. MayMeet(i, k)
          BY <3>4, <5>1 DEF OneJobPerResource
        <5> QED
          BY <2>2, <5>1, <5>2 DEF MayMeet, RunsInto, Briefly
      <4> QED
        BY <4>1, <4>2, <4>3
    <3> QED
      BY <3>4 DEF OneJobPerResource
  <2> QED
    BY <2>3, <2>4, <2>5
<1>3. CASE \A j \in Jobs : ~Launch(j)
  BY <1>1, <1>3, LaunchesNone
<1> QED
  BY <1>2, <1>3

-----------------------------------------------------------------------------
(* The gantt *)

Shown == {i \in DOMAIN gantt \ cut : Queue[i] = "default" /\ job[i].state \in Active}

LEMMA DisjointFrame ==
  ASSUME PlansDisjoint,
         \A i \in Shown' : \/ gantt'[i].res = {}
                           \/ /\ i \in Shown /\ job'[i].walltime = job[i].walltime
                              /\ gantt'[i].start = gantt[i].start /\ gantt'[i].res = gantt[i].res
  PROVE  PlansDisjoint'
<1>1. ASSUME NEW j \in Shown', NEW k \in Shown', j # k, gantt'[j].res \cap gantt'[k].res # {}
      PROVE  Follows(j, k)' \/ Follows(k, j)'
  <2>1. /\ j \in Shown /\ job'[j].walltime = job[j].walltime
        /\ gantt'[j].start = gantt[j].start /\ gantt'[j].res = gantt[j].res
    BY <1>1
  <2>2. /\ k \in Shown /\ job'[k].walltime = job[k].walltime
        /\ gantt'[k].start = gantt[k].start /\ gantt'[k].res = gantt[k].res
    BY <1>1
  <2>3. Follows(j, k) \/ Follows(k, j)
    BY <1>1, <2>1, <2>2 DEF PlansDisjoint, Shown
  <2> QED
    BY <2>1, <2>2, <2>3 DEF Follows, EndOf, Briefly
<1> QED
  BY <1>1 DEF PlansDisjoint, Shown

(* What a row says of a job, and whether one follows another *)
FollowsFrom(i, end, k, start) == end <= start \/ Briefly(i, end, k, start)

(* A job that has a place, and another of the default queue *)
LEMMA PlaceFollows ==
  ASSUME Typed, StatesAreSound, RoundIsApart, ReservedIsApart, InRound, fails = 0,
         NEW c \in Jobs \ cut, NEW i \in Jobs \ ({c} \cup cut), ~Low(c), ~Low(i), Placed(c)
  PROVE  /\ Placed(i) => \/ Apart(Row(c).res, Row(i).res)
                         \/ FollowsFrom(c, Row(c).start + Walltime[c], i, Row(i).start)
                         \/ FollowsFrom(i, Row(i).start + Walltime[i], c, Row(c).start)
         /\ job[i].state = "toLaunch" =>
              \/ Apart(Row(c).res, job[i].res)
              \/ FollowsFrom(c, Row(c).start + Walltime[c], i, job[i].start)
              \/ FollowsFrom(i, job[i].start + job[i].walltime, c, Row(c).start)
<1>1. /\ Row(c).start \in Nat /\ Walltime[c] \in Nat /\ Walltime[i] \in Nat /\ Security \in Nat
      /\ job[i].start \in Nat /\ job[i].walltime \in Nat
      /\ Placed(i) => Row(i).start \in Nat
  BY JobDates
<1>2. CASE Placed(i) /\ c \notin Reservations
  <2>1. ApartFromPlaced(c, i)
    BY <1>2 DEF RoundIsApart, LooksAt
  <2> QED
    BY <1>1, <1>2, <2>1 DEF ApartFromPlaced, FollowsFrom, Placed, Pending
<1>3. CASE Placed(i) /\ i \notin Reservations
  <2>1. ApartFromPlaced(i, c)
    BY <1>3 DEF RoundIsApart, LooksAt
  <2> QED
    BY <1>1, <1>3, <2>1 DEF ApartFromPlaced, FollowsFrom, Apart, Placed, Pending
<1>4. CASE Placed(i) /\ c \in Reservations /\ i \in Reservations
  <2>1. ReservedFromPlaced(c, i)
    BY <1>4 DEF ReservedIsApart
  <2> QED
    BY <1>1, <1>4, <2>1 DEF ReservedFromPlaced, Before, FollowsFrom, Placed, Pending
<1>5. CASE job[i].state = "toLaunch" /\ c \notin Reservations
  <2>1. ApartFromLaunched(c, i)
    BY <1>5 DEF RoundIsApart, LooksAt
  <2> QED
    BY <1>1, <1>5, <2>1 DEF ApartFromLaunched, FollowsFrom, Placed, Pending
<1>6. CASE job[i].state = "toLaunch" /\ c \in Reservations
  <2>1. ReservedFromLaunched(c, i)
    BY <1>6 DEF ReservedIsApart
  <2> QED
    BY <1>1, <1>6, <2>1 DEF ReservedFromLaunched, FollowsFrom, Briefly, Placed, Pending
<1> QED
  BY <1>2, <1>3, <1>4, <1>5, <1>6

LEMMA SavedDisjoint ==
  ASSUME Typed, StatesAreSound, RoundIsSound, RoundIsApart, ReservedIsApart, GanttHasRunning,
         fails = 0, PlansDisjoint, SavePlan \/ SaveNew
  PROVE  PlansDisjoint'
<1>1. gantt' = Saved /\ job' = job /\ cut' = cut /\ InRound /\ phase # "started"
  BY DEF SavePlan, SaveNew, InRound, cuts
<1>7. \A i : Held(i) = gantt[i]
  BY PhasesOfDoing, IdleRows DEF SavePlan, SaveNew
<1>2. DOMAIN plan \cap DOMAIN gantt = {}
  BY DEF SavePlan, SaveNew, RoundIsSound, ReadIsSound
<1>3. \A i \in Shown' : /\ i \in Jobs \ cut /\ ~Low(i) /\ job[i].state \in Active
                        /\ i \in DOMAIN gantt \cup DOMAIN plan /\ gantt'[i] = Row(i)
  BY <1>1, <1>7, SavedRows DEF Shown, Row, Low
<1>4. \A i \in Shown' \ DOMAIN plan : i \in Shown /\ gantt'[i] = gantt[i]
  BY <1>1, <1>3, <1>7 DEF Shown, Row
<1>5. ASSUME NEW c \in Shown' \cap DOMAIN plan, NEW i \in Shown' \ {c}, gantt'[c].res \cap gantt'[i].res # {}
      PROVE  Follows(c, i)' \/ Follows(i, c)'
  <2>1. Placed(c) /\ job[c].walltime = Walltime[c]
    BY <1>1, <1>2, <1>3, <1>5, PlannedWalltime DEF GanttHasRunning, Placed, Pending, Active
  <2>2. CASE job[i].state \in Pending
    <3>1. Placed(i) /\ job[i].walltime = Walltime[i]
      BY <1>1, <1>3, <1>5, <2>2, PlannedWalltime DEF Placed
    <3>2. \/ FollowsFrom(c, Row(c).start + Walltime[c], i, Row(i).start)
          \/ FollowsFrom(i, Row(i).start + Walltime[i], c, Row(c).start)
      BY <1>1, <1>3, <1>5, <2>1, <3>1, PlaceFollows DEF Apart
    <3> QED
      BY <1>1, <1>3, <1>5, <2>1, <3>1, <3>2 DEF Follows, EndOf, FollowsFrom
  <2>3. CASE job[i].state = "toLaunch"
    <3>1. i \in DOMAIN gantt /\ gantt[i].start = job[i].start /\ gantt[i].res = job[i].res
      BY <1>3, <1>5, <2>3 DEF GanttHasRunning
    <3>2. Row(i) = gantt[i]
      BY <1>2, <1>7, <3>1 DEF Row
    <3>3. \/ FollowsFrom(c, Row(c).start + Walltime[c], i, job[i].start)
          \/ FollowsFrom(i, job[i].start + job[i].walltime, c, Row(c).start)
      BY <1>1, <1>3, <1>5, <2>1, <2>3, <3>1, <3>2, PlaceFollows DEF Apart
    <3> QED
      BY <1>1, <1>3, <1>5, <2>1, <3>1, <3>2, <3>3 DEF Follows, EndOf, FollowsFrom
  <2> QED
    BY <1>3, <1>5, <2>2, <2>3 DEF Active, Pending
<1>6. ASSUME NEW j \in Shown', NEW k \in Shown', j # k, gantt'[j].res \cap gantt'[k].res # {}
      PROVE  Follows(j, k)' \/ Follows(k, j)'
  <2>1. CASE j \in DOMAIN plan
    BY <1>5, <1>6, <2>1
  <2>2. CASE k \in DOMAIN plan
    <3>1. gantt'[k].res \cap gantt'[j].res # {}
      BY <1>6
    <3> QED
      BY <1>5, <1>6, <2>2, <3>1
  <2>3. CASE j \notin DOMAIN plan /\ k \notin DOMAIN plan
    <3>1. Follows(j, k) \/ Follows(k, j)
      BY <1>4, <1>6, <2>3 DEF PlansDisjoint, Shown
    <3> QED
      BY <1>1, <1>4, <1>6, <2>3, <3>1 DEF Follows, EndOf
  <2> QED
    BY <2>1, <2>2, <2>3
<1> QED
  BY <1>6 DEF PlansDisjoint, Shown

(* A reservation that is late: its row may move, and its end too, by no    *)
(* more than the security time.                                            *)
LateMove(j) ==
  /\ j \in Reservations \ cut /\ job[j].state = "Waiting" /\ j \in DOMAIN gantt
  /\ gantt'[j].res = gantt[j].res /\ gantt'[j].start \in Nat /\ Held(j).start <= gantt'[j].start
  /\ job'[j].walltime \in Int
  /\ gantt'[j].start + job'[j].walltime <= Held(j).start + Walltime[j] + Security
  /\ \A i \in Jobs \ {j} : job'[i] = job[i] /\ ~InLaunch(i)
  /\ DOMAIN gantt' = DOMAIN gantt /\ \A i \in DOMAIN gantt \ {j} : gantt'[i] = gantt[i]
  /\ cut' = cut /\ plan = Nothing /\ InRound

LEMMA LateDisjoint ==
  ASSUME Typed, StatesAreSound, RoundIsApart, ReservedIsApart, GanttHasRunning, fails = 0, PlansDisjoint,
         NEW j \in Jobs, LateMove(j)
  PROVE  PlansDisjoint'
<1>1. /\ Placed(j) /\ Row(j) = Held(j) /\ Held(j).res = gantt[j].res
  BY HeldRow DEF LateMove, Placed, Pending, Row, Nothing
<1>2. ~Low(j) /\ InRound /\ plan = Nothing /\ j \in Reservations \ cut
  BY JobSettings DEF Low, LateMove
<1>3. /\ Row(j).start \in Nat /\ Walltime[j] \in Nat /\ Security \in Nat
      /\ gantt'[j].start \in Nat /\ job'[j].walltime \in Int
      /\ Row(j).start <= gantt'[j].start
      /\ gantt'[j].start + job'[j].walltime <= Row(j).start + Walltime[j] + Security
  BY <1>1, <1>2, JobDates DEF LateMove
<1>4. \A i \in Shown' \ {j} : i \in Shown /\ job'[i] = job[i] /\ gantt'[i] = gantt[i]
  BY DEF Shown, LateMove, Typed
<1>5. ASSUME NEW k \in Shown' \ {j}, gantt[j].res \cap gantt[k].res # {}
      PROVE  Follows(j, k)' \/ Follows(k, j)'
  <2>1. k \in Jobs \ ({j} \cup cut) /\ ~Low(k) /\ k \in DOMAIN gantt /\ job[k].state \in Active
    BY <1>4, <1>5 DEF Shown, Low, Typed
  <2>2. /\ gantt'[k] = gantt[k] /\ job'[k] = job[k] /\ ~InLaunch(k)
        /\ Row(k) = gantt[k] /\ ~Apart(Row(j).res, Row(k).res)
    BY <1>1, <1>2, <1>4, <1>5, <2>1 DEF LateMove, Row, Held, Nothing, Apart
  <2>3. CASE job[k].state \in Pending
    <3>1. Placed(k) /\ job[k].walltime = Walltime[k]
      BY <2>1, <2>2, <2>3, PendingWalltime DEF Placed
    <3>2. Row(k).start \in Nat /\ Walltime[k] \in Nat /\ Walltime[k] > 0
      BY <2>1, <3>1, JobDates
    <3>3. EndOf(k)' = Row(k).start + Walltime[k] /\ gantt'[k].start = Row(k).start
      BY <2>2, <3>1 DEF EndOf
    <3>4. \/ Row(j).start + Walltime[j] + Security <= Row(k).start
          \/ k \in Reservations /\ Row(j).start + Walltime[j] < Row(k).start
          \/ Row(k).start + Walltime[k] <= Row(j).start
      <4>1. CASE k \in Reservations
        <5>1. ReservedFromPlaced(j, k)
          BY <1>1, <1>2, <2>1, <3>1, <4>1 DEF ReservedIsApart
        <5> QED
          BY <1>3, <2>2, <3>2, <4>1, <5>1 DEF ReservedFromPlaced, Before
      <4>2. CASE k \notin Reservations
        <5>1. ApartFromPlaced(k, j) /\ job[j].state = "Waiting"
          BY <1>1, <1>2, <2>1, <3>1, <4>2 DEF RoundIsApart, LooksAt, LateMove
        <5> QED
          BY <1>3, <2>2, <3>2, <5>1 DEF ApartFromPlaced, Apart
      <4> QED
        BY <4>1, <4>2
    <3>5. EndOf(j)' = gantt'[j].start + job'[j].walltime
      BY DEF EndOf
    <3> QED
      BY <1>2, <1>3, <3>2, <3>3, <3>4, <3>5 DEF Follows, Briefly
  <2>4. CASE job[k].state = "toLaunch"
    <3>1. gantt[k].start = job[k].start /\ gantt[k].res = job[k].res
      BY <2>1, <2>4 DEF GanttHasRunning
    <3>2. job[k].start \in Nat /\ job[k].walltime \in Nat
      BY <2>1, JobDates
    <3>3. EndOf(k)' = job[k].start + job[k].walltime /\ gantt'[k].start = job[k].start
      BY <2>2, <3>1 DEF EndOf
    <3>4. \/ job[k].start + job[k].walltime + Security <= Row(j).start
          \/ Row(j).start + Walltime[j] + Security <= job[k].start
          \/ /\ k \in Reservations
             /\ \/ job[k].start + job[k].walltime < Row(j).start + Security
                \/ Row(j).start + Walltime[j] < job[k].start
      <4>1. ReservedFromLaunched(j, k)
        BY <1>1, <1>2, <2>1, <2>4 DEF ReservedIsApart
      <4> QED
        BY <2>2, <3>1, <4>1 DEF ReservedFromLaunched
    <3>5. EndOf(j)' = gantt'[j].start + job'[j].walltime
      BY DEF EndOf
    <3> QED
      BY <1>2, <1>3, <3>2, <3>3, <3>4, <3>5 DEF Follows, Briefly
  <2> QED
    BY <2>1, <2>3, <2>4 DEF Active, Pending
<1>6. gantt'[j].res = gantt[j].res
  BY DEF LateMove
<1>7. ASSUME NEW i \in Shown', NEW k \in Shown', i # k, gantt'[i].res \cap gantt'[k].res # {}
      PROVE  Follows(i, k)' \/ Follows(k, i)'
  <2>1. CASE i = j
    BY <1>4, <1>5, <1>6, <1>7, <2>1
  <2>2. CASE k = j
    <3>1. gantt[j].res \cap gantt[i].res # {}
      BY <1>4, <1>6, <1>7, <2>2
    <3> QED
      BY <1>5, <1>7, <2>2, <3>1
  <2>3. CASE i # j /\ k # j
    <3>1. Follows(i, k) \/ Follows(k, i)
      BY <1>4, <1>7, <2>3 DEF PlansDisjoint, Shown
    <3> QED
      BY <1>4, <1>7, <2>3, <3>1 DEF Follows, EndOf
  <2> QED
    BY <2>1, <2>2, <2>3
<1> QED
  BY <1>7 DEF PlansDisjoint, Shown

(* The first commit of a late launch: its end, then its beginning *)
LEMMA MaxTimeMoves ==
  ASSUME Typed, StatesAreSound, RoundIsSound, NEW j \in Jobs \ cut, SetMaxTime(j), ~IsOver(j)
  PROVE  LateMove(j)
<1>1. /\ j \in DOMAIN gantt /\ gantt[j].start <= now /\ phase = "started" /\ job[j].state = "Waiting"
  BY LaunchGantt DEF IsOver
<1>2. Idle /\ gantt' = gantt /\ cut' = cut /\ job[j].resa = "Scheduled" /\ gantt[j].start < now
  BY DEF SetMaxTime, ToDo, Late, cuts
<1>3. /\ \A i \in Jobs \ {j} : job'[i] = job[i]
      /\ job'[j].walltime = NewWalltime(j)
  BY MaxTimeRows
<1>4. \A i : Held(i) = gantt[i] /\ ~InLaunch(i)
  BY <1>2, IdleRows
<1>5. job[j].walltime = Walltime[j]
  BY <1>1, <1>4, PendingWalltime DEF Pending
<1>6. gantt[j].start \in Nat /\ now \in Nat /\ Walltime[j] \in Nat /\ Security \in Nat
  BY <1>1, JobDates DEF Typed, GanttJobsPrediction
<1>7. NewWalltime(j) = Walltime[j] + Security - (now - gantt[j].start)
  BY <1>5 DEF NewWalltime
<1>8. job'[j].walltime \in Int /\ gantt[j].start + job'[j].walltime <= gantt[j].start + Walltime[j] + Security
  <2> HIDE DEF NewWalltime
  <2> QED
    BY <1>2, <1>3, <1>6, <1>7
<1>9. j \in Reservations
  BY <1>2 DEF StatesAreSound, StateIsSound
<1>10. plan = Nothing /\ InRound
  BY <1>1 DEF RoundIsSound, ReadIsSound, InRound
<1> QED
  BY <1>1, <1>2, <1>3, <1>4, <1>6, <1>8, <1>9, <1>10 DEF LateMove

LEMMA GanttStartMoves ==
  ASSUME Typed, StatesAreSound, RoundIsSound, NEW j \in Jobs \ cut, SetGanttStart(j), ~IsOver(j)
  PROVE  LateMove(j)
<1>1. /\ j \in DOMAIN gantt /\ phase = "started" /\ job[j].state = "Waiting"
  BY LaunchGantt DEF IsOver
<1>2. doing.at = "walltime" /\ doing.job = j /\ job' = job /\ cut' = cut
  BY DEF SetGanttStart, Mid, cuts
<1>3. InLaunch(j) /\ \A i : i # j => ~InLaunch(i)
  BY <1>2 DEF InLaunch, LaunchSteps
<1>4. LateLaunch(j)
  BY <1>1, <1>2, <1>3 DEF RoundIsSound, DoingIsSound, LaunchIsSound, OtherLaunch
<1>5. Held(j).start = doing.start /\ Held(j).start \in Nat
  BY <1>1, <1>3, HeldRow
<1>6. /\ DOMAIN gantt' = DOMAIN gantt /\ \A i \in DOMAIN gantt \ {j} : gantt'[i] = gantt[i]
      /\ gantt'[j].res = gantt[j].res /\ gantt'[j].start = now
  BY GanttStartRows
<1>7. now \in Nat /\ Walltime[j] \in Nat /\ Security \in Nat
  BY JobDates
<1>8. /\ job'[j].walltime \in Int /\ Held(j).start <= now
      /\ now + job'[j].walltime <= Held(j).start + Walltime[j] + Security
  BY <1>2, <1>4, <1>5, <1>7 DEF LateLaunch
<1>9. j \in Reservations
  BY <1>4 DEF LateLaunch, StatesAreSound, StateIsSound
<1>10. plan = Nothing /\ InRound
  BY <1>1 DEF RoundIsSound, ReadIsSound, InRound
<1> QED
  BY <1>1, <1>2, <1>3, <1>6, <1>7, <1>8, <1>9, <1>10 DEF LateMove

LEMMA StepDisjoint ==
  ASSUME Typed, Typed', StatesAreSound, RoundIsSound, RoundIsApart, ReservedIsApart,
         NothingFails, fails = 0 => PlansDisjoint, KindOfStep
  PROVE  fails' = 0 => PlansDisjoint'
<1> SUFFICES ASSUME fails' = 0
             PROVE  PlansDisjoint'
  OBVIOUS
<1>0. fails = 0 /\ PlansDisjoint /\ NodesAreUp /\ SeesAll /\ GanttHasRunning
  BY NoFaultBefore DEF NothingFails
<1>1. DOMAIN gantt \subseteq Jobs /\ cut \subseteq cut'
  BY CutStays DEF Typed
<1>2. ASSUME gantt' = gantt, \A i \in Jobs : job'[i].state \in Active =>
                               (i \in DOMAIN gantt => /\ job[i].state \in Active
                                                      /\ job'[i].walltime = job[i].walltime)
      PROVE  PlansDisjoint'
  <2>1. \A i \in Shown' : i \in Shown /\ job'[i].walltime = job[i].walltime
    BY <1>1, <1>2 DEF Shown
  <2> QED
    BY <1>0, <1>2, <2>1, DisjointFrame
<1>3. CASE Drops
  BY <1>2, <1>3 DEF Drops, Active
<1>4. CASE Cuts \/ Tick \/ WaitingDone \/ Decide \/ Gather \/ \E j \in Jobs : Plan(j)
  BY <1>2, <1>4 DEF Cuts, Tick, WaitingDone, Decide, Gather, Plan, base
<1>5. ASSUME NEW j \in Jobs, Submit(j) PROVE PlansDisjoint'
  <2>1. /\ \A i \in Jobs \ {j} : job'[i] = job[i]
        /\ job[j].state = "none"
    BY <1>5, SubmitRows
  <2>2. j \notin DOMAIN gantt
    BY <2>1 DEF StatesAreSound, StateIsSound
  <2> QED
    BY <1>2, <1>5, <2>1, <2>2 DEF Submit
<1>6. CASE Begin
  <2>1. Seen = Resources /\ job' = job /\ cut' = cut
    BY <1>0, <1>6, AllSeen DEF Begin, cuts
  <2>2. ASSUME NEW i \in Shown'
        PROVE  i \in Shown /\ gantt'[i].start = gantt[i].start /\ gantt'[i].res = gantt[i].res
    <3>1. CASE i \in DOMAIN gantt /\ gantt'[i] = gantt[i]
      BY <2>1, <2>2, <3>1 DEF Shown
    <3>2. CASE /\ job[i].state = "toLaunch" /\ gantt'[i].start = job[i].start
               /\ gantt'[i].res = Written(job[i].res, Seen)
      <4>1. i \in Jobs
        BY <1>6, <2>2, <3>2 DEF Begin, Shown, Kept, Current, In, Typed
      <4>2. job[i].res \subseteq Resources
        BY <4>1 DEF Typed, JobRows
      <4>3. Written(job[i].res, Seen) = job[i].res
        BY <2>1, <4>2 DEF Written, Mapped
      <4> QED
        BY <1>0, <2>1, <2>2, <3>2, <4>1, <4>3 DEF GanttHasRunning, Shown
    <3> QED
      BY <1>6, <2>2, <3>1, <3>2, BeginRows DEF Shown
  <2> QED
    BY <1>0, <2>1, <2>2, DisjointFrame
<1>7. CASE SavePlan \/ SaveNew
  BY <1>0, <1>7, SavedDisjoint
<1>8. ASSUME NEW j \in Jobs, WaitingReservation(j), Delay(j) \/ Reduce(j) PROVE PlansDisjoint'
  <2>1. job' = job /\ seen = Resources
    BY <1>0, <1>8 DEF WaitingReservation, Delay, Reduce, SeesAll
  <2>6. cut \subseteq cut'
    BY <1>1
  <2>2. j \in DOMAIN gantt /\ gantt[j].res \subseteq Resources
    BY <1>8, DelayRows, ReduceRows DEF Typed, GanttJobsPrediction, GanttJobsResource
  <2>3. DOMAIN gantt' = DOMAIN gantt /\ \A i \in DOMAIN gantt \ {j} : gantt'[i] = gantt[i]
    BY <1>8, DelayRows, ReduceRows
  <2>4. gantt'[j].res = {} \/ (gantt'[j].res = gantt[j].res /\ gantt'[j].start = gantt[j].start)
    BY <1>8, <2>1, <2>2, DelayRows, ReduceRows
  <2>5. \A i \in Shown' : i \in Shown
    BY <2>1, <2>3, <2>6 DEF Shown
  <2> QED
    BY <1>0, <2>1, <2>3, <2>4, <2>5, DisjointFrame DEF Shown
<1>9. ASSUME NEW j \in Reservations, j \in Jobs, NewReservation(j), Accept(j) PROVE PlansDisjoint'
  <2>1. /\ \A i \in Jobs \ {j} : job'[i] = job[i]
        /\ IsOver(j) => job'[j].state = job[j].state
        /\ job'[j].walltime = job[j].walltime
    BY <1>9, StateRows DEF Accept, Decided, OnlyState, StatesOf
  <2>2. job[j].state \in {"Waiting", "Error", "Terminated"}
    BY <1>9 DEF NewReservation, RoundIsSound, ReadIsSound, InRound
  <2> QED
    BY <1>2, <1>9, <2>1, <2>2 DEF NewReservation, Active, IsOver
<1>10. ASSUME NEW j \in Jobs, Launch(j) PROVE PlansDisjoint'
  <2>1. /\ \A i \in Jobs \ {j} : job'[i] = job[i]
        /\ IsOver(j) => job'[j] = job[j]
        /\ ~IsOver(j) => job[j].state = "Waiting"
        /\ job'[j].walltime = job[j].walltime /\ gantt' = gantt
    BY <1>10, LaunchRows
  <2> QED
    BY <1>2, <2>1 DEF Active
<1>11. ASSUME NEW j \in Jobs, Answer(j), job[j].state = "toAckReservation" PROVE PlansDisjoint'
  <2>1. OnlyState(j, "Waiting")
    BY <1>11, StateRows DEF Answer, StatesOf
  <2>2. \A i \in Jobs : /\ job'[i].state \in Active => job[i].state \in Active
                        /\ job'[i].walltime = job[i].walltime
    BY <1>11, <2>1 DEF OnlyState, Active
  <2> QED
    BY <1>2, <1>11, <2>2 DEF Answer
<1>12. ASSUME NEW j \in Jobs, SetScheduled(j) \/ SetStart(j) \/ AddPairs(j) PROVE PlansDisjoint'
  <2>1. /\ \A i \in Jobs : job'[i].state = job[i].state /\ job'[i].walltime = job[i].walltime
        /\ gantt' = gantt
    <3>1. CASE SetScheduled(j)
      BY <3>1, ScheduledRows DEF SetScheduled
    <3>2. CASE SetStart(j)
      BY <3>2, StartRows DEF SetStart
    <3>3. CASE AddPairs(j)
      BY <3>3, PairsRows DEF AddPairs
    <3> QED
      BY <1>12, <3>1, <3>2, <3>3
  <2> QED
    BY <1>2, <2>1
<1>13. ASSUME NEW j \in Jobs, SetMaxTime(j) \/ SetGanttStart(j) PROVE PlansDisjoint'
  <2>1. CASE ~IsOver(j) /\ j \notin cut
    BY <1>0, <1>13, <2>1, MaxTimeMoves, GanttStartMoves, LateDisjoint
  <2>2. CASE IsOver(j) \/ j \in cut
    <3>1. /\ \A i \in Jobs \ {j} : job'[i] = job[i]
          /\ job'[j].state = job[j].state
          /\ DOMAIN gantt' = DOMAIN gantt /\ \A i \in DOMAIN gantt \ {j} : gantt'[i] = gantt[i]
      BY <1>13, MaxTimeRows, GanttStartRows DEF SetMaxTime, SetGanttStart
    <3>2. \A i \in Shown' : i # j /\ i \in Shown /\ job'[i] = job[i] /\ gantt'[i] = gantt[i]
      BY <1>1, <2>2, <3>1 DEF Shown, IsOver, Active
    <3> QED
      BY <1>0, <3>2, DisjointFrame
  <2> QED
    BY <2>1, <2>2
<1> QED
  BY <1>3, <1>4, <1>5, <1>6, <1>7, <1>8, <1>9, <1>10, <1>11, <1>12, <1>13 DEF KindOfStep, LaunchCommit

-----------------------------------------------------------------------------
(* The invariant *)

LEMMA StepCuts == Typed /\ NothingIsCut /\ [Next]_vars => NothingIsCut'
<1> SUFFICES ASSUME Typed, NothingIsCut, [Next]_vars
             PROVE  NothingIsCut'
  OBVIOUS
<1>1. ASSUME UNCHANGED cuts PROVE NothingIsCut'
  BY <1>1 DEF NothingIsCut, cuts
<1>2. CASE Crash
  <2>1. crashes' = crashes + 1 /\ crashes \in Nat
    BY <1>2 DEF Crash, Typed
  <2> QED
    BY <2>1 DEF NothingIsCut
<1>3. CASE Environment
  <2>1. UNCHANGED cuts
    BY <1>3 DEF Environment, Submit, Leave, Hangup, Fail, Return, Tick
  <2> QED
    BY <1>1, <2>1
<1>4. CASE Round
  <2>1. UNCHANGED cuts
    BY <1>4 DEF Round, Begin, SavePlan, WaitingDone, SaveNew, Decide, Gather, Finish, Raise,
                Plan, WaitingReservation, NewReservation, SetScheduled, SetMaxTime, SetGanttStart, SetStart,
                AddPairs, Launch, Notify, Answer, Unheard
  <2> QED
    BY <1>1, <2>1
<1> QED
  BY <1>1, <1>2, <1>3, <1>4 DEF Next, vars

LEMMA InitIInv == Init => IInv
<1> SUFFICES ASSUME Init
             PROVE  IInv
  OBVIOUS
<1>1. Typed
  BY InitTyped
<1>2. /\ \A j \in Jobs : /\ job[j].state \in {"none", "Waiting"} /\ job[j].resa # "Scheduled"
                         /\ job[j].start = 0 /\ job[j].walltime = Walltime[j] /\ job[j].res = {}
                         /\ job[j].resa = "None" <=> j \notin Reservations
      /\ DOMAIN gantt = {} /\ DOMAIN plan = {} /\ plan = Nothing /\ todo = {}
      /\ phase = "rest" /\ \A j \in Reservations : oarsub[j] # "GOOD"
      /\ doing = NotDoing /\ cut = {} /\ now = 0
  BY DEF Init, Nothing
<1>3. StatesAreSound
  <2>1. \A j \in Jobs : Walltime[j] \in 0..(Walltime[j] + Security)
    BY JobSettings, Settings
  <2>2. now = 0
    BY DEF Init
  <2> QED
    BY <1>2, <2>1, <2>2 DEF StatesAreSound, StateIsSound, Pending
<1>4. RoundIsSound
  <2>1. Idle /\ \A j \in Jobs : ~InLaunch(j)
    BY <1>2 DEF Idle, InLaunch, NotDoing, LaunchSteps
  <2>2. DoingIsSound
    BY <2>1 DEF DoingIsSound, MarkIsSound, Idle, LaunchSteps
  <2> QED
    BY <1>2, <2>2 DEF RoundIsSound, ReadIsSound, PhaseIsSound, PlannedIsSound, InRound
<1>5. SlotsCover /\ RoundIsApart /\ SeesAll /\ AnswersAreDue /\ HoldersAreKnown /\ ToLaunchIsClear
  BY <1>2 DEF SlotsCover, Planning, RoundIsApart, InRound, SeesAll, AnswersAreDue, HoldersAreKnown, ToLaunchIsClear
<1>6. Reservations \subseteq Jobs
  BY JobsAssumption DEF Reservations
<1>7. ReservedIsApart /\ ReservationsAreInTime /\ GrantedHasPlace /\ GanttHasRunning
  BY <1>2, <1>6 DEF ReservedIsApart, Placed, ReservationsAreInTime, GrantedHasPlace, GanttHasRunning
<1>8. NodesAreUp
  BY DEF Init, NodesAreUp
<1>9. OneJobPerResource /\ PlansDisjoint
  BY <1>2 DEF OneJobPerResource, Standing, In, PlansDisjoint
<1>10. NothingIsCut
  BY <1>2 DEF NothingIsCut
<1> QED
  BY <1>1, <1>3, <1>4, <1>5, <1>7, <1>8, <1>9, <1>10 DEF IInv, NothingFails

LEMMA StepIInv == IInv /\ [Next]_vars => IInv'
<1> SUFFICES ASSUME IInv, [Next]_vars
             PROVE  IInv'
  OBVIOUS
<1> USE DEF IInv
<1>1. Typed' /\ StatesAreSound'
  BY StepTyped, StepStates
<1>2. RoundIsSound' /\ KindOfStep
  BY <1>1, StepRound, StepKind
<1>3. SlotsCover' /\ RoundIsApart' /\ ReservedIsApart'
  BY <1>1, <1>2, StepSlots, StepApart, StepReserved
<1>4. ReservationsAreInTime' /\ NothingFails'
  BY <1>1, <1>2, StepInTime, StepNothingFails
<1>5. GrantedHasPlace' /\ AnswersAreDue'
  BY <1>1, <1>2, StepGranted, StepAnswers
<1>6. HoldersAreKnown' /\ ToLaunchIsClear'
  BY <1>1, <1>2, StepHolders, StepToLaunchIsClear
<1>7. OneJobPerResource' /\ (fails' = 0 => PlansDisjoint')
  BY <1>1, <1>2, StepOneJob, StepDisjoint
<1>8. NothingIsCut'
  BY <1>1, StepCuts
<1> QED
  BY <1>1, <1>2, <1>3, <1>4, <1>5, <1>6, <1>7, <1>8

(* The inductive invariant, for any resources, jobs, dates and failures *)
THEOREM Invariance == Spec => []IInv
BY InitIInv, StepIInv, PTL DEF Spec

(* Two jobs never have a resource at the same time, from a round to the    *)
(* next, but for the cases that MayMeet names: late reservations for less  *)
(* than the security time, those that a failure has moved, jobs whose      *)
(* launch was cut between two commits, and besteffort jobs on nodes that   *)
(* sleep or fail.                                                          *)
THEOREM JobsAreApart == Spec => []OneJobPerResource
<1>1. IInv => OneJobPerResource
  BY DEF IInv
<1> QED
  BY Invariance, <1>1, PTL

(* Every row has its type; and what the gantt shows of the jobs that wait  *)
(* or run does not meet, as long as no node fails, whichever commits of a  *)
(* launch are done, but for the jobs whose launch was cut.                 *)
THEOREM GanttSoundness == Spec => []GanttIsSound
<1>1. ASSUME IInv PROVE TypeOK
  <2> USE <1>1 DEF IInv
  <2>1. ASSUME NEW j \in Jobs
        PROVE  /\ job[j].state \in StatesOf /\ job[j].resa \in {"None", "toSchedule", "Scheduled"}
               /\ job[j].walltime \in Int /\ (j \notin cut => job[j].walltime \in 0..(Walltime[j] + Security))
               /\ job[j].res \subseteq Resources
               /\ j \in DOMAIN gantt => gantt[j] \in GanttJobsPrediction
               /\ j \in DOMAIN plan => plan[j] \in GanttJobsPrediction
    BY <2>1 DEF Typed, JobRows, StatesAreSound, StateIsSound
  <2>2. plan # Nothing => phase \in {"plan", "new"}
    BY DEF RoundIsSound, ReadIsSound
  <2>3. /\ now \in 0..Horizon
        /\ todo \cup fragged \cup cut \cup DOMAIN gantt \cup DOMAIN plan \subseteq Jobs
    BY DEF Typed
  <2>4. /\ seen \subseteq Resources
        /\ \A s \in slots : s.res \subseteq Resources
        /\ \A h \in holders : h.res \subseteq Resources
    BY DEF Typed
  <2> QED
    BY <2>1, <2>2, <2>3, <2>4 DEF TypeOK, StatesOf
<1>2. IInv => GanttIsSound
  BY <1>1 DEF IInv, GanttIsSound
<1> QED
  BY Invariance, <1>2, PTL

(* What oarsub has been told is granted keeps its place and its resources  *)
(* until it is launched, as long as no node fails and no round is cut.     *)
THEOREM GrantedKeepsItsPlace == Spec => []GrantedIsPlanned
<1>1. ASSUME IInv PROVE GrantedIsPlanned
  <2> USE <1>1 DEF IInv
  <2> SUFFICES ASSUME NEW j \in Reservations, crashes + fails = 0, oarsub[j] = "GOOD",
                      job[j].state = "Waiting"
               PROVE  j \in DOMAIN gantt /\ gantt[j].res # {}
    BY DEF GrantedIsPlanned
  <2>1. j \in Jobs
    BY JobsAssumption DEF Reservations
  <2>4. j \notin cut
    <3>1. crashes \in Nat /\ fails \in Nat
      BY DEF Typed
    <3> QED
      BY <3>1 DEF NothingIsCut
  <2>2. job[j].resa = "Scheduled"
    BY <2>1, <2>4 DEF StatesAreSound, StateIsSound, Pending
  <2>3. ~(phase = "new" /\ j \in DOMAIN plan)
    BY DEF RoundIsSound, PhaseIsSound
  <2> QED
    BY <2>2, <2>3 DEF GrantedHasPlace, Pending
<1> QED
  BY Invariance, <1>1, PTL

(* A round that comes to its end leaves no reservation without an answer,  *)
(* but those that it has marked to be deleted.                             *)
THEOREM EveryRoundAnswers == Spec => RoundAnswers
<1> DEFINE Answered == Finish => \A j \in Jobs : job[j].state \in {"toAckReservation", "toError"} => j \in fragged
<1>1. IInv => Answered
  BY DEF IInv, AnswersAreDue, Unanswered, In, Finish
<1>2. IInv /\ [Next]_vars => [Answered]_vars
  BY <1>1
<1> QED
  BY Invariance, <1>2, PTL DEF Spec, RoundAnswers
=============================================================================
