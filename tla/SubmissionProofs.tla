-------------------------- MODULE SubmissionProofs --------------------------
(***************************************************************************)
(* For any oarsub and requests, and any bound on the table: a job that     *)
(* waits has the rows that describe it and its dependencies, or was let go *)
(* early; oarsub prints complete jobs; and a job begins only when those it *)
(* awaits have ended well. The invariant says, stage by stage, what each   *)
(* oarsub has written and what the others may have done to it since; every *)
(* step is shown to let the tables grow, to release nothing without its    *)
(* rows, and to spare the arrays that others fill.                         *)
(***************************************************************************)
EXTENDS Submission, FiniteSetTheorems, SequenceTheorems, TLAPS

-----------------------------------------------------------------------------
(* The inductive invariant *)

(* The stages of an oarsub: a job alone or with keys, then an array without *)
KeyStages == {"subjob", "fill", "release"}
FillStages == {"groups", "descriptions", "types", "needs", "state", "logs"}
Stages == Over \cup KeyStages \cup {"first", "others", "moldables"} \cup FillStages \cup {"print"}

(* It has written, or will write, and has not failed *)
Started == Stages \ {"begin", "refused", "gone"}

AllRequests == UNION {Requests[p] : p \in Submitters}

JobsTyped ==
  /\ jobs \in Seq(Job)
  /\ Len(jobs) <= MaxJobs
  /\ \A j \in DOMAIN jobs :
       /\ jobs[j].array \in DOMAIN jobs /\ jobs[j].root \in DOMAIN jobs
       /\ jobs[j].wants \subseteq DOMAIN jobs

OthersTyped ==
  /\ needs \subseteq JobDependencie
  /\ events \subseteq (DOMAIN jobs) \X EventTypes
  /\ round.waiting \cup round.fit \subseteq DOMAIN jobs

SubTyped ==
  sub \in [Submitters -> [at : Stages, asked : {"none"} \cup AllRequests,
                          array : Nat, ids : Seq(Nat)]]

(* The jobs of the array that oarsub fills, and copies of them             *)
Originals(p) == {j \in OfArray(sub[p].array) : jobs[j].root = j}
Copies(p) == {j \in OfArray(sub[p].array) : jobs[j].root # j}

(* What is asked is known and awaits jobs of the table; the jobs that      *)
(* oarsub knows are of its array.                                          *)
KnowsItsJobs(p) ==
  /\ sub[p].at \in {"begin", "refused", "gone"} => sub[p].array = 0 /\ sub[p].ids = <<>>
  /\ sub[p].at \in Started =>
       /\ Asked(p) \in Requests[p]
       /\ Asked(p).after \subseteq DOMAIN jobs
       /\ sub[p].array \in 0..Len(jobs)
       /\ sub[p].array = 0 <=> (sub[p].at = "first" \/ (sub[p].at = "subjob" /\ sub[p].ids = <<>>))
       /\ \A i \in DOMAIN sub[p].ids :
            /\ sub[p].ids[i] \in DOMAIN jobs
            /\ jobs[sub[p].ids[i]].array = sub[p].array
            /\ jobs[sub[p].ids[i]].root = sub[p].ids[i]

(* No other oarsub fills its array *)
ArraysApart ==
  \A p, q \in Submitters :
    /\ p # q /\ sub[p].at \in Started /\ sub[q].at \in Started
    /\ sub[p].array = sub[q].array
    => sub[p].array = 0

(* A job that is copied before it is complete is known as such, and those  *)
(* that oarsub inserts await what is asked.                                *)
MembersAreKnown(p) ==
  sub[p].at \notin Over =>
    /\ \A j \in Copies(p) : jobs[j].forced
    /\ \A j \in Originals(p) : jobs[j].wants = Asked(p).after

Unreleased(j) == jobs[j].state \in {"Hold", "Error"} \/ jobs[j].forced

NotReleasedYet(p) ==
  /\ sub[p].at \in {"fill", "release"} => Unreleased(Last(sub[p].ids))
  /\ sub[p].at \in {"others", "moldables"} \cup (FillStages \ {"logs"}) =>
       \A j \in OfArray(sub[p].array) : Unreleased(j)

(* What is not written yet of the job that comes in place i *)
ToFill(p, i) == i = Len(sub[p].ids) /\ sub[p].at = "fill"
ToRelease(p, i) == i = Len(sub[p].ids) /\ sub[p].at \in {"fill", "release"}

SubjobIsFilled(p, i) ==
  /\ jobs[sub[p].ids[i]].index = i
  /\ jobs[sub[p].ids[i]].rows = Tables \/ ToFill(p, i)
  /\ jobs[sub[p].ids[i]].state = "Hold" => Asked(p).hold \/ ToRelease(p, i)

SubjobsInOrder(p) ==
  sub[p].at \in KeyStages =>
    /\ Len(sub[p].ids) <= Asked(p).n
    /\ sub[p].at = "subjob" => Len(sub[p].ids) < Asked(p).n
    /\ sub[p].at # "subjob" => sub[p].ids # <<>>
    /\ \A i \in DOMAIN sub[p].ids : SubjobIsFilled(p, i)

(* As many jobs as asked, with their numbers *)
Numbered(p, ids) ==
  /\ IsFiniteSet(ids)
  /\ Cardinality(ids) = Asked(p).n
  /\ {jobs[j].index : j \in ids} = 1..Asked(p).n

ArrayInserted(p) ==
  /\ sub[p].at \in {"first", "others", "moldables"} => sub[p].ids = <<>> /\ Asked(p).n > 1
  /\ sub[p].at \in {"others", "moldables"} =>
       \A j \in Copies(p) : "challenge" \in jobs[j].rows
  /\ sub[p].at = "others" => Originals(p) = {sub[p].array} /\ jobs[sub[p].array].index = 1
  /\ sub[p].at = "moldables" => Numbered(p, Originals(p))

(* The tables that are filled, stage by stage *)
Filled(at) ==
  {"challenge", "moldable"}
  \cup (IF at # "groups" THEN {"group"} ELSE {})
  \cup (IF at \notin {"groups", "descriptions"} THEN {"description"} ELSE {})
  \cup (IF at \notin {"groups", "descriptions", "types"} THEN {"type"} ELSE {})

(* Each job that a job awaits, or a copy of it, is among those it needs    *)
NeedsAll(j) == \A k \in jobs[j].wants : \E d \in needs : d[1] = j /\ SameJob(d[2], k)

ArrayFilled(p) ==
  sub[p].at \in FillStages =>
    /\ ToSet(sub[p].ids) = Originals(p)
    /\ Numbered(p, Originals(p))
    /\ \A j \in Originals(p) :
         /\ Filled(sub[p].at) \subseteq jobs[j].rows
         /\ sub[p].at \in {"state", "logs"} => NeedsAll(j)
         /\ sub[p].at = "logs" /\ jobs[j].state = "Hold" => Asked(p).hold

ArrayComplete(p) ==
  sub[p].at \in {"print", "told"} =>
    /\ Numbered(p, ToSet(sub[p].ids))
    /\ \A j \in ToSet(sub[p].ids) :
         jobs[j].rows = Tables /\ (jobs[j].state = "Hold" => Asked(p).hold)

SubmissionIsSound(p) ==
  /\ KnowsItsJobs(p) /\ MembersAreKnown(p) /\ NotReleasedYet(p)
  /\ SubjobsInOrder(p) /\ ArrayInserted(p) /\ ArrayFilled(p) /\ ArrayComplete(p)

Lawful(j) == jobs[j].root = j /\ ~jobs[j].forced

(* The log is written last, and a job waits when it is released *)
NeedsAreKnown ==
  /\ \A j \in DOMAIN jobs : "log" \in jobs[j].rows /\ jobs[j].root = j => NeedsAll(j)
  /\ \A j \in DOMAIN jobs : jobs[j].state = "Waiting" /\ Lawful(j) => NeedsAll(j)

(* Each job that it awaits, or a copy, has ended well or was let go early  *)
AwaitedAreOver(j) ==
  \A k \in jobs[j].wants :
    \E c \in DOMAIN jobs : SameJob(c, k) /\ (jobs[c].state = "Terminated" \/ jobs[c].forced)

RoundIsSound ==
  /\ \A j \in round.waiting : Lawful(j) => NeedsAll(j)
  /\ \A j \in round.fit : Lawful(j) => AwaitedAreOver(j)

IInv ==
  /\ JobsTyped /\ OthersTyped /\ SubTyped
  /\ ArraysApart
  /\ \A p \in Submitters : SubmissionIsSound(p)
  /\ NeedsAreKnown /\ RoundIsSound
  /\ WaitingIsDescribed

-----------------------------------------------------------------------------
(* What the helpers do to the table of jobs *)

(* What never changes of a job, and what only grows *)
SameOrigin(j) ==
  /\ jobs'[j].array = jobs[j].array /\ jobs'[j].index = jobs[j].index
  /\ jobs'[j].root = jobs[j].root /\ jobs'[j].wants = jobs[j].wants
  /\ jobs'[j].passive = jobs[j].passive

SameJobs == DOMAIN jobs' = DOMAIN jobs /\ Len(jobs') = Len(jobs) /\ jobs' \in Seq(Job)

(* The table has one row for each id from 1, and each is well typed *)
LEMMA JobsAreRows ==
  ASSUME JobsTyped
  PROVE  /\ Len(jobs) \in Nat /\ DOMAIN jobs = 1..Len(jobs)
         /\ \A j \in DOMAIN jobs : jobs[j] \in Job
         /\ DOMAIN jobs \subseteq Ids
<1>1. jobs \in Seq(Job) /\ Len(jobs) <= MaxJobs
  BY DEF JobsTyped
<1>2. Len(jobs) \in Nat /\ DOMAIN jobs = 1..Len(jobs)
  BY <1>1
<1>3. ASSUME NEW j \in DOMAIN jobs
      PROVE  jobs[j] \in Job
  BY <1>1, <1>2, <1>3, ElementOfSeq
<1>4. DOMAIN jobs \subseteq Ids
  BY <1>1, <1>2, BoundAssumption DEF Ids
<1> QED
  BY <1>2, <1>3, <1>4

(* The array and the root of a job are ids of the table *)
LEMMA ArraysAreJobs ==
  ASSUME JobsTyped, NEW j \in DOMAIN jobs
  PROVE  jobs[j].array \in 1..Len(jobs) /\ jobs[j].root \in 1..Len(jobs) /\ jobs[j].array # 0
<1>1. jobs[j].array \in 1..Len(jobs) /\ jobs[j].root \in 1..Len(jobs) /\ Len(jobs) \in Nat
  BY JobsAreRows DEF JobsTyped
<1> QED
  BY <1>1

(* With adds rows, and nothing else *)
RowsAdded(ids, tables) ==
  /\ SameJobs
  /\ \A j \in DOMAIN jobs :
       /\ SameOrigin(j)
       /\ jobs'[j].state = jobs[j].state /\ jobs'[j].forced = jobs[j].forced
       /\ jobs'[j].rows = jobs[j].rows \cup (IF j \in ids THEN tables ELSE {})

(* With writes rows of the jobs given, and touches nothing else of the table *)
LEMMA WithAddsRows ==
  ASSUME JobsTyped, NEW ids, NEW tables \in SUBSET Tables, jobs' = With(ids, tables)
  PROVE  RowsAdded(ids, tables)
<1> DEFINE Row(j) == IF j \in ids THEN [jobs[j] EXCEPT !.rows = @ \cup tables] ELSE jobs[j]
<1>1. jobs' = [j \in DOMAIN jobs |-> Row(j)]
  BY DEF With
<1>2. ASSUME NEW j \in DOMAIN jobs
      PROVE  /\ Row(j) \in Job
             /\ Row(j).array = jobs[j].array /\ Row(j).index = jobs[j].index
             /\ Row(j).root = jobs[j].root /\ Row(j).wants = jobs[j].wants
             /\ Row(j).passive = jobs[j].passive
             /\ Row(j).state = jobs[j].state /\ Row(j).forced = jobs[j].forced
             /\ Row(j).rows = jobs[j].rows \cup (IF j \in ids THEN tables ELSE {})
  <2>1. jobs[j] \in Job
    BY <1>2, JobsAreRows
  <2> QED
    BY <2>1 DEF Job
<1> HIDE DEF Row
<1>3. jobs' \in [1..Len(jobs) -> Job] /\ Len(jobs) \in Nat
  BY <1>1, <1>2, JobsAreRows
<1>4. SameJobs
  BY <1>3, JobsAreRows DEF SameJobs
<1>5. ASSUME NEW j \in DOMAIN jobs
      PROVE  jobs'[j] = Row(j)
  BY <1>1, <1>5
<1> QED
  BY <1>2, <1>4, <1>5 DEF RowsAdded, SameOrigin

(* WithState changes the states of some jobs *)
StatesSet(ids, state) ==
  /\ SameJobs
  /\ \A j \in DOMAIN jobs :
       /\ SameOrigin(j)
       /\ jobs'[j].rows = jobs[j].rows /\ jobs'[j].forced = jobs[j].forced
       /\ jobs'[j].state = IF j \in ids THEN state ELSE jobs[j].state

(* WithState writes the states of the jobs given, and nothing else *)
LEMMA WithStateSetsStates ==
  ASSUME JobsTyped, NEW ids,
         NEW state \in {"Hold", "Waiting", "Running", "Terminated", "Error"},
         jobs' = WithState(ids, state)
  PROVE  StatesSet(ids, state)
<1> DEFINE Row(j) == IF j \in ids THEN [jobs[j] EXCEPT !.state = state] ELSE jobs[j]
<1>1. jobs' = [j \in DOMAIN jobs |-> Row(j)]
  BY DEF WithState
<1>2. ASSUME NEW j \in DOMAIN jobs
      PROVE  /\ Row(j) \in Job
             /\ Row(j).array = jobs[j].array /\ Row(j).index = jobs[j].index
             /\ Row(j).root = jobs[j].root /\ Row(j).wants = jobs[j].wants
             /\ Row(j).passive = jobs[j].passive
             /\ Row(j).rows = jobs[j].rows /\ Row(j).forced = jobs[j].forced
             /\ Row(j).state = IF j \in ids THEN state ELSE jobs[j].state
  <2>1. jobs[j] \in Job
    BY <1>2, JobsAreRows
  <2> QED
    BY <2>1 DEF Job
<1> HIDE DEF Row
<1>3. jobs' \in [1..Len(jobs) -> Job] /\ Len(jobs) \in Nat
  BY <1>1, <1>2, JobsAreRows
<1>4. SameJobs
  BY <1>3, JobsAreRows DEF SameJobs
<1>5. ASSUME NEW j \in DOMAIN jobs
      PROVE  jobs'[j] = Row(j)
  BY <1>1, <1>5
<1> QED
  BY <1>2, <1>4, <1>5 DEF StatesSet, SameOrigin

(* A job more, and the others as they are *)
JobAdded(row) ==
  /\ jobs' \in Seq(Job)
  /\ Len(jobs') = Len(jobs) + 1 /\ DOMAIN jobs' = 1..(Len(jobs) + 1)
  /\ \A j \in DOMAIN jobs : jobs'[j] = jobs[j]
  /\ jobs'[Len(jobs) + 1] = row

(* An INSERT into jobs leaves the rows that are there *)
LEMMA AppendAddsJob ==
  ASSUME JobsTyped, NEW row \in Job, jobs' = Append(jobs, row)
  PROVE  JobAdded(row)
<1>1. jobs \in Seq(Job)
  BY DEF JobsTyped
<1> QED
  BY <1>1, AppendProperties, LenProperties DEF JobAdded

(* What happens to an oarsub: the others stay as they are *)
OnlyMoves(p) == \A q \in Submitters \ {p} : sub'[q] = sub[q]

(* Goto moves one oarsub, which keeps what it knows *)
LEMMA GotoGoes ==
  ASSUME SubTyped, NEW p \in Submitters, NEW label \in Stages, Goto(p, label)
  PROVE  /\ SubTyped' /\ OnlyMoves(p)
         /\ sub'[p].at = label /\ sub'[p].asked = sub[p].asked
         /\ sub'[p].array = sub[p].array /\ sub'[p].ids = sub[p].ids
<1> QED
  BY DEF SubTyped, Goto, OnlyMoves

(* An oarsub that ends forgets what it knew *)
LEMMA AtIsFresh ==
  ASSUME SubTyped, NEW p \in Submitters, NEW label \in Stages, sub' = [sub EXCEPT ![p] = At(label)]
  PROVE  /\ SubTyped' /\ OnlyMoves(p) /\ sub'[p].at = label
         /\ sub'[p].array = 0 /\ sub'[p].ids = <<>>
<1> QED
  BY DEF SubTyped, At, OnlyMoves

-----------------------------------------------------------------------------
(* What every step leaves *)

(* The table of jobs grows, what a job needs follows the copies, and only  *)
(* a job that was let go early comes back from Terminated.                 *)
Grows ==
  /\ jobs' \in Seq(Job)
  /\ Len(jobs) <= Len(jobs') /\ Len(jobs') <= MaxJobs
  /\ \A j \in DOMAIN jobs :
       /\ SameOrigin(j)
       /\ jobs[j].rows \subseteq jobs'[j].rows
       /\ jobs[j].forced => jobs'[j].forced
       /\ jobs'[j].state = "Hold" => jobs[j].state = "Hold"
       /\ jobs[j].state = "Terminated" /\ ~jobs[j].forced => jobs'[j].state = "Terminated"
  /\ \A d \in needs : \E e \in needs' : e[1] = d[1] /\ jobs'[e[2]].root = jobs'[d[2]].root

(* What becomes complete, is released or begins is so for a reason *)
Founded ==
  /\ \A j \in DOMAIN jobs :
       jobs[j].state = "Waiting" /\ jobs'[j].state = "Running" => j \in round.fit
  /\ \A j \in DOMAIN jobs' :
       /\ jobs'[j].root = j /\ "log" \in jobs'[j].rows =>
            (j \in DOMAIN jobs /\ "log" \in jobs[j].rows) \/ NeedsAll(j)'
       /\ jobs'[j].state \in {"Waiting", "Running"} /\ ~jobs'[j].forced =>
            (j \in DOMAIN jobs /\ jobs[j].state \in {"Waiting", "Running"}) \/ Described(j)'
       /\ jobs'[j].state = "Waiting" /\ jobs'[j].root = j /\ ~jobs'[j].forced =>
            (j \in DOMAIN jobs /\ jobs[j].state = "Waiting") \/ NeedsAll(j)'

(* What others do to an array that is being filled: they copy its jobs, or *)
(* let them go early.                                                      *)
Spared(array) ==
  \A j \in DOMAIN jobs' : jobs'[j].array = array =>
    /\ j \in DOMAIN jobs => (Unreleased(j) => Unreleased(j)')
    /\ j \notin DOMAIN jobs =>
         jobs'[j].root # j /\ jobs'[j].forced /\ "challenge" \in jobs'[j].rows

(* No row of the table jobs goes away *)
LEMMA DomainGrows ==
  ASSUME JobsTyped, Grows
  PROVE  /\ DOMAIN jobs \subseteq DOMAIN jobs'
         /\ Len(jobs') \in Nat /\ DOMAIN jobs' = 1..Len(jobs')
         /\ Len(jobs) \in Nat /\ DOMAIN jobs = 1..Len(jobs)
<1>1. jobs' \in Seq(Job) /\ Len(jobs) <= Len(jobs')
  BY DEF Grows
<1>2. Len(jobs') \in Nat /\ DOMAIN jobs' = 1..Len(jobs')
  BY <1>1, LenProperties
<1> QED
  BY <1>1, <1>2, JobsAreRows

(* What a job needs is there for ever: resubmit_job redirects a dependency to the
   copy, which has the same root *)
LEMMA NeedsStay ==
  ASSUME JobsTyped, OthersTyped, Grows, NEW j \in DOMAIN jobs, NeedsAll(j)
  PROVE  NeedsAll(j)'
<1> SUFFICES ASSUME NEW k \in jobs[j].wants
             PROVE  \E d \in needs' : d[1] = j /\ jobs'[d[2]].root = jobs'[k].root
  BY DEF NeedsAll, SameJob, Grows, SameOrigin
<1>1. k \in DOMAIN jobs
  BY DEF JobsTyped
<1>2. PICK d \in needs : d[1] = j /\ jobs[d[2]].root = jobs[k].root
  BY DEF NeedsAll, SameJob
<1>3. d[2] \in DOMAIN jobs
  BY <1>2 DEF OthersTyped, JobDependencie
<1>4. PICK e \in needs' : e[1] = d[1] /\ jobs'[e[2]].root = jobs'[d[2]].root
  BY <1>2 DEF Grows
<1>5. jobs'[d[2]].root = jobs[d[2]].root /\ jobs'[k].root = jobs[k].root
  BY <1>1, <1>3 DEF Grows, SameOrigin
<1> QED
  BY <1>2, <1>4, <1>5

(* A job whose awaited jobs have ended well stays so *)
LEMMA AwaitedStayOver ==
  ASSUME JobsTyped, Grows, NEW j \in DOMAIN jobs, AwaitedAreOver(j)
  PROVE  AwaitedAreOver(j)'
<1> SUFFICES ASSUME NEW k \in jobs[j].wants
             PROVE  \E c \in DOMAIN jobs' : /\ jobs'[c].root = jobs'[k].root
                                            /\ jobs'[c].state = "Terminated" \/ jobs'[c].forced
  BY DEF AwaitedAreOver, SameJob, Grows, SameOrigin
<1>1. k \in DOMAIN jobs
  BY DEF JobsTyped
<1>2. PICK c \in DOMAIN jobs : /\ jobs[c].root = jobs[k].root
                               /\ jobs[c].state = "Terminated" \/ jobs[c].forced
  BY DEF AwaitedAreOver, SameJob
<1>3. jobs'[c].root = jobs'[k].root
  BY <1>1, <1>2 DEF Grows, SameOrigin
<1>4. jobs'[c].state = "Terminated" \/ jobs'[c].forced
  BY <1>2 DEF Grows
<1> QED
  BY <1>2, <1>3, <1>4, DomainGrows

(* If what is released is complete, then all that waits is *)
LEMMA FoundedIsKnown ==
  ASSUME JobsTyped, OthersTyped, NeedsAreKnown, WaitingIsDescribed, Grows, Founded
  PROVE  NeedsAreKnown' /\ WaitingIsDescribed'
<1>1. ASSUME NEW j \in DOMAIN jobs', jobs'[j].root = j, "log" \in jobs'[j].rows
      PROVE  NeedsAll(j)'
  <2>1. CASE NeedsAll(j)'
    BY <2>1
  <2>2. CASE j \in DOMAIN jobs /\ "log" \in jobs[j].rows
    <3>1. jobs[j].root = j
      BY <1>1, <2>2 DEF Grows, SameOrigin
    <3>2. NeedsAll(j)
      BY <2>2, <3>1 DEF NeedsAreKnown
    <3> QED
      BY <2>2, <3>2, NeedsStay
  <2> QED
    BY <1>1, <2>1, <2>2 DEF Founded
<1>2. ASSUME NEW j \in DOMAIN jobs', jobs'[j].state = "Waiting", jobs'[j].root = j, ~jobs'[j].forced
      PROVE  NeedsAll(j)'
  <2>1. CASE NeedsAll(j)'
    BY <2>1
  <2>2. CASE j \in DOMAIN jobs /\ jobs[j].state = "Waiting"
    <3>1. Lawful(j)
      BY <1>2, <2>2 DEF Grows, SameOrigin, Lawful
    <3>2. NeedsAll(j)
      BY <2>2, <3>1 DEF NeedsAreKnown
    <3> QED
      BY <2>2, <3>2, NeedsStay
  <2> QED
    BY <1>2, <2>1, <2>2 DEF Founded
<1>3. ASSUME NEW j \in DOMAIN jobs', jobs'[j].state \in {"Waiting", "Running"}, ~jobs'[j].forced
      PROVE  Described(j)'
  <2>1. CASE Described(j)'
    BY <2>1
  <2>2. CASE j \in DOMAIN jobs /\ jobs[j].state \in {"Waiting", "Running"}
    <3>1. Described(j)
      BY <1>3, <2>2 DEF Grows, WaitingIsDescribed
    <3> QED
      BY <2>2, <3>1 DEF Described, Grows
  <2> QED
    BY <1>3, <2>1, <2>2 DEF Founded
<1> QED
  BY <1>1, <1>2, <1>3 DEF NeedsAreKnown, WaitingIsDescribed, Lawful

(* What a round has read stays true while others write *)
LEMMA RoundStaysSound ==
  ASSUME JobsTyped, OthersTyped, RoundIsSound, Grows, round' = round
  PROVE  RoundIsSound'
<1>1. ASSUME NEW j \in round.waiting, Lawful(j)'
      PROVE  NeedsAll(j)'
  <2>1. j \in DOMAIN jobs
    BY DEF OthersTyped
  <2>2. Lawful(j)
    BY <1>1, <2>1 DEF Lawful, Grows, SameOrigin
  <2> QED
    BY <2>1, <2>2, NeedsStay DEF RoundIsSound
<1>2. ASSUME NEW j \in round.fit, Lawful(j)'
      PROVE  AwaitedAreOver(j)'
  <2>1. j \in DOMAIN jobs
    BY DEF OthersTyped
  <2>2. Lawful(j)
    BY <1>2, <2>1 DEF Lawful, Grows, SameOrigin
  <2> QED
    BY <2>1, <2>2, AwaitedStayOver DEF RoundIsSound
<1> QED
  BY <1>1, <1>2 DEF RoundIsSound

(* The submissions that do not move stay sound *)
LEMMA OriginalsStay ==
  ASSUME JobsTyped, Grows, NEW p \in Submitters, sub'[p] = sub[p], Spared(sub[p].array)
  PROVE  Originals(p)' = Originals(p)
<1>1. ASSUME NEW j \in Originals(p)'
      PROVE  j \in Originals(p)
  <2>1. j \in DOMAIN jobs' /\ jobs'[j].array = sub[p].array /\ jobs'[j].root = j
    BY DEF Originals, OfArray
  <2>2. j \in DOMAIN jobs
    BY <2>1 DEF Spared
  <2> QED
    BY <2>1, <2>2 DEF Originals, OfArray, Grows, SameOrigin
<1>2. ASSUME NEW j \in Originals(p)
      PROVE  j \in Originals(p)'
  BY DomainGrows DEF Originals, OfArray, Grows, SameOrigin
<1> QED
  BY <1>1, <1>2

(* The indexes of the jobs of an array never change *)
LEMMA NumberedStays ==
  ASSUME JobsTyped, Grows, NEW p \in Submitters, sub'[p].asked = sub[p].asked,
         NEW ids \in SUBSET DOMAIN jobs, Numbered(p, ids)
  PROVE  /\ IsFiniteSet(ids) /\ Cardinality(ids) = sub'[p].asked.n
         /\ {jobs'[j].index : j \in ids} = 1..(sub'[p].asked.n)
<1>1. \A j \in ids : jobs'[j].index = jobs[j].index
  BY DEF Grows, SameOrigin
<1> QED
  BY <1>1 DEF Numbered, Asked

(* An oarsub that does not move finds its jobs as it left them, whoever writes *)
LEMMA StaysSound ==
  ASSUME JobsTyped, OthersTyped, SubTyped, Grows, NEW p \in Submitters, sub'[p] = sub[p],
         sub[p].at \notin Over => Spared(sub[p].array), SubmissionIsSound(p)
  PROVE  SubmissionIsSound(p)'
<1> DEFINE s == sub[p]
<1> USE DEF SubmissionIsSound
<1>1. Asked(p)' = Asked(p)
  BY DEF Asked
<1>2. \A i \in DOMAIN s.ids : s.at \in Started => s.ids[i] \in DOMAIN jobs
  BY DEF KnowsItsJobs
<1>3. /\ s.at \in Over \ {"told"} <=> s.at \notin Started /\ s.at \in Stages
      /\ s.at \in Stages
  BY DEF SubTyped, Over, Started, Stages
<1>4. KnowsItsJobs(p)'
  <2> SUFFICES ASSUME s.at \in Started
               PROVE  /\ Asked(p).after \subseteq DOMAIN jobs'
                      /\ s.array \in 0..Len(jobs')
                      /\ \A i \in DOMAIN s.ids :
                           /\ s.ids[i] \in DOMAIN jobs'
                           /\ jobs'[s.ids[i]].array = s.array
                           /\ jobs'[s.ids[i]].root = s.ids[i]
    BY <1>1 DEF KnowsItsJobs
  <2>1. s.array \in 0..Len(jobs')
    BY DomainGrows DEF KnowsItsJobs, Grows
  <2> QED
    BY <2>1, DomainGrows DEF KnowsItsJobs, Grows, SameOrigin
<1>5. ASSUME s.at \notin Over
      PROVE  /\ Originals(p)' = Originals(p)
             /\ \A j \in OfArray(s.array)' :
                  \/ j \in OfArray(s.array) /\ (Unreleased(j) => Unreleased(j)')
                  \/ jobs'[j].root # j /\ jobs'[j].forced /\ "challenge" \in jobs'[j].rows
             /\ OfArray(s.array) \subseteq DOMAIN jobs
  <2>1. Spared(s.array)
    BY <1>5
  <2>2. Originals(p)' = Originals(p)
    BY <2>1, OriginalsStay
  <2> QED
    BY <2>1, <2>2 DEF OfArray, Spared, Grows, SameOrigin
<1>6. MembersAreKnown(p)'
  <2>0. ASSUME s.at \notin Over, NEW j \in Originals(p)'
        PROVE  jobs'[j].wants = Asked(p).after
    <3>1. j \in Originals(p) /\ j \in DOMAIN jobs
      BY <2>0, <1>5 DEF Originals, OfArray
    <3> QED
      BY <2>0, <3>1 DEF MembersAreKnown, Grows, SameOrigin
  <2> SUFFICES ASSUME s.at \notin Over, NEW j \in Copies(p)'
               PROVE  jobs'[j].forced
    BY <1>1, <2>0 DEF MembersAreKnown
  <2>1. j \in OfArray(s.array)' /\ jobs'[j].root # j
    BY DEF Copies, OfArray
  <2>2. CASE j \in OfArray(s.array)
    <3>1. j \in Copies(p)
      BY <2>1, <2>2, <1>5 DEF Copies, Grows, SameOrigin
    <3> QED
      BY <3>1, <2>2, <1>5 DEF MembersAreKnown, Grows
  <2> QED
    BY <2>1, <2>2, <1>5
<1>7. NotReleasedYet(p)'
  <2>1. ASSUME s.at \in {"fill", "release"}
        PROVE  Unreleased(Last(s.ids))'
    <3>1. s.at \in Started /\ s.at \notin Over /\ s.at \in KeyStages /\ s.at # "subjob"
      BY <2>1 DEF Started, Stages, KeyStages, Over
    <3>2. s.ids # <<>> /\ s.ids \in Seq(Nat)
      BY <3>1 DEF SubjobsInOrder, SubTyped
    <3>3. Len(s.ids) \in DOMAIN s.ids
      BY <3>2, LenProperties, EmptySeq
    <3>4. Last(s.ids) \in DOMAIN jobs /\ jobs[Last(s.ids)].array = s.array
      BY <3>1, <3>3 DEF KnowsItsJobs, Last
    <3>5. Last(s.ids) \in DOMAIN jobs' /\ jobs'[Last(s.ids)].array = s.array
      BY <3>4, DomainGrows DEF Grows, SameOrigin
    <3>6. Unreleased(Last(s.ids))
      BY <2>1 DEF NotReleasedYet
    <3> QED
      BY <3>1, <3>4, <3>5, <3>6 DEF Spared
  <2>2. ASSUME s.at \in {"others", "moldables"} \cup (FillStages \ {"logs"}),
               NEW j \in OfArray(s.array)'
        PROVE  Unreleased(j)'
    <3>1. s.at \notin Over
      BY <2>2 DEF FillStages, Over
    <3> QED
      BY <2>2, <3>1, <1>5 DEF NotReleasedYet, Unreleased
  <2> QED
    BY <2>1, <2>2 DEF NotReleasedYet
<1>8. SubjobsInOrder(p)'
  <2> SUFFICES ASSUME s.at \in KeyStages, NEW i \in DOMAIN s.ids
               PROVE  SubjobIsFilled(p, i)'
    BY <1>1 DEF SubjobsInOrder
  <2>1. s.ids[i] \in DOMAIN jobs
    BY <1>2 DEF KeyStages, Started, Stages, Over
  <2>2. SubjobIsFilled(p, i)
    BY DEF SubjobsInOrder
  <2>3. jobs'[s.ids[i]] \in Job
    BY <2>1, DomainGrows, ElementOfSeq DEF Grows
  <2>4. jobs'[s.ids[i]].rows \subseteq Tables
    BY <2>3 DEF Job
  <2> QED
    <3> DEFINE id == s.ids[i]
    <3>1. /\ jobs'[id].index = jobs[id].index /\ jobs[id].rows \subseteq jobs'[id].rows
          /\ jobs'[id].state = "Hold" => jobs[id].state = "Hold"
      BY <2>1 DEF Grows, SameOrigin
    <3>2. /\ jobs[id].index = i
          /\ jobs[id].rows = Tables \/ ToFill(p, i)
          /\ jobs[id].state = "Hold" => Asked(p).hold \/ ToRelease(p, i)
      BY <2>2 DEF SubjobIsFilled
    <3>3. ToFill(p, i)' = ToFill(p, i) /\ ToRelease(p, i)' = ToRelease(p, i)
      BY DEF ToFill, ToRelease
    <3>4. jobs'[id].rows = Tables \/ ToFill(p, i)
      BY <2>4, <3>1, <3>2
    <3> QED
      BY <1>1, <3>1, <3>2, <3>3, <3>4 DEF SubjobIsFilled
<1>9. ASSUME s.at \notin Over, Numbered(p, Originals(p))
      PROVE  Numbered(p, Originals(p))'
  <2>1. Originals(p) \in SUBSET DOMAIN jobs
    BY DEF Originals, OfArray
  <2>2. Originals(p)' = Originals(p)
    BY <1>5, <1>9
  <2> QED
    BY <1>9, <2>1, <2>2, NumberedStays DEF Numbered, Asked
<1>10. ArrayInserted(p)'
  <2>1. ASSUME s.at \in {"others", "moldables"}, NEW j \in Copies(p)'
        PROVE  "challenge" \in jobs'[j].rows
    <3>1. s.at \notin Over
      BY <2>1 DEF Over
    <3>2. j \in OfArray(s.array)' /\ jobs'[j].root # j
      BY <2>1 DEF Copies, OfArray
    <3>3. CASE j \in OfArray(s.array)
      <4>1. j \in Copies(p)
        BY <3>2, <3>3, <3>1, <1>5 DEF Copies, Grows, SameOrigin
      <4> QED
        BY <4>1, <3>3, <3>1, <2>1, <1>5 DEF ArrayInserted, Grows
    <3> QED
      BY <3>1, <3>2, <3>3, <1>5
  <2>2. ASSUME s.at = "others"
        PROVE  Originals(p)' = {s.array} /\ jobs'[s.array].index = 1
    <3>1. Originals(p)' = {s.array} /\ jobs[s.array].index = 1
      BY <2>2, <1>5 DEF Over, ArrayInserted
    <3>2. s.array \in DOMAIN jobs
      BY <2>2 DEF ArrayInserted, Originals, OfArray
    <3> QED
      BY <3>1, <3>2 DEF Grows, SameOrigin
  <2>3. ASSUME s.at = "moldables"
        PROVE  Numbered(p, Originals(p))'
    BY <2>3, <1>9 DEF ArrayInserted, Over
  <2> QED
    BY <1>1, <2>1, <2>2, <2>3 DEF ArrayInserted
<1>11. ArrayFilled(p)'
  <2> SUFFICES ASSUME s.at \in FillStages
               PROVE  /\ ToSet(s.ids) = Originals(p)'
                      /\ Numbered(p, Originals(p))'
                      /\ \A j \in Originals(p)' :
                           /\ Filled(s.at) \subseteq jobs'[j].rows
                           /\ s.at \in {"state", "logs"} => NeedsAll(j)'
                           /\ s.at = "logs" /\ jobs'[j].state = "Hold" => Asked(p).hold
    BY <1>1 DEF ArrayFilled
  <2>1. s.at \notin Over
    BY DEF FillStages, Over
  <2>2. ToSet(s.ids) = Originals(p)' /\ Numbered(p, Originals(p))'
    BY <2>1, <1>5, <1>9 DEF ArrayFilled
  <2>3. ASSUME NEW j \in Originals(p)
        PROVE  /\ Filled(s.at) \subseteq jobs'[j].rows
               /\ s.at \in {"state", "logs"} => NeedsAll(j)'
               /\ s.at = "logs" /\ jobs'[j].state = "Hold" => Asked(p).hold
    <3>1. j \in DOMAIN jobs
      BY DEF Originals, OfArray
    <3>2. /\ Filled(s.at) \subseteq jobs[j].rows
          /\ s.at \in {"state", "logs"} => NeedsAll(j)
          /\ s.at = "logs" /\ jobs[j].state = "Hold" => Asked(p).hold
      BY DEF ArrayFilled
    <3> QED
      BY <3>1, <3>2, NeedsStay DEF Grows
  <2> QED
    BY <2>1, <2>2, <2>3, <1>5
<1>12. ArrayComplete(p)'
  <2> SUFFICES ASSUME s.at \in {"print", "told"}
               PROVE  /\ Numbered(p, ToSet(s.ids))'
                      /\ \A j \in ToSet(s.ids) :
                           jobs'[j].rows = Tables /\ (jobs'[j].state = "Hold" => Asked(p).hold)
    BY <1>1 DEF ArrayComplete
  <2>1. ToSet(s.ids) \subseteq DOMAIN jobs
    BY <1>2 DEF ToSet, Started, Stages, Over
  <2>2. Numbered(p, ToSet(s.ids))'
    BY <2>1, NumberedStays DEF ArrayComplete, Numbered, Asked
  <2>3. ASSUME NEW j \in ToSet(s.ids)
        PROVE  jobs'[j].rows = Tables /\ (jobs'[j].state = "Hold" => Asked(p).hold)
    <3>1. j \in DOMAIN jobs /\ jobs[j].rows = Tables /\ (jobs[j].state = "Hold" => Asked(p).hold)
      BY <2>1 DEF ArrayComplete
    <3>2. jobs'[j] \in Job
      BY <3>1, DomainGrows, ElementOfSeq DEF Grows
    <3>3. jobs'[j].rows \subseteq Tables
      BY <3>2 DEF Job
    <3> QED
      BY <3>1, <3>3 DEF Grows
  <2> QED
    BY <2>2, <2>3
<1> QED
  BY <1>4, <1>6, <1>7, <1>8, <1>10, <1>11, <1>12

-----------------------------------------------------------------------------
(* The four ways in which a step changes the table *)

(* A step that writes no job, and drops no dependency *)
LEMMA QuietGrows ==
  ASSUME JobsTyped, OthersTyped, jobs' = jobs, needs \subseteq needs'
  PROVE  Grows /\ JobsTyped' /\ Founded /\ \A a : Spared(a)
<1>1. /\ jobs \in Seq(Job) /\ Len(jobs) \in Nat /\ Len(jobs) <= MaxJobs
      /\ \A j \in DOMAIN jobs : jobs[j] \in Job
  BY JobsAreRows DEF JobsTyped
<1>2. Grows
  BY <1>1 DEF Grows, SameOrigin
<1>3. JobsTyped'
  BY DEF JobsTyped
<1>4. Founded
  BY DEF Founded
<1>5. ASSUME NEW a
      PROVE  Spared(a)
  BY DEF Spared, Unreleased
<1> QED
  BY <1>2, <1>3, <1>4, <1>5

(* Types once the origins are the same *)
LEMMA SameJobsTyped ==
  ASSUME JobsTyped, SameJobs, \A j \in DOMAIN jobs : SameOrigin(j)
  PROVE  JobsTyped'
<1> QED
  BY DEF JobsTyped, SameJobs, SameOrigin

(* A step that adds rows; the log, to jobs that have their dependencies *)
LEMMA RowsGrow ==
  ASSUME JobsTyped, OthersTyped, NEW ids, NEW tables \in SUBSET Tables, RowsAdded(ids, tables),
         needs \subseteq needs',
         \A j \in ids \cap DOMAIN jobs : "log" \in tables /\ jobs[j].root = j => NeedsAll(j)'
  PROVE  Grows /\ JobsTyped' /\ Founded /\ \A a : Spared(a)
<1>1. JobsTyped'
  BY SameJobsTyped DEF RowsAdded
<1>2. Grows
  <2>1. jobs' \in Seq(Job) /\ Len(jobs') = Len(jobs) /\ Len(jobs) \in Nat /\ Len(jobs) <= MaxJobs
    BY JobsAreRows DEF RowsAdded, SameJobs, JobsTyped
  <2>2. \A d \in needs : d \in needs'
    OBVIOUS
  <2> QED
    BY <2>1, <2>2 DEF Grows, RowsAdded
<1>3. Founded
  <2> SUFFICES ASSUME NEW j \in DOMAIN jobs'
               PROVE  /\ jobs'[j].root = j /\ "log" \in jobs'[j].rows =>
                           (j \in DOMAIN jobs /\ "log" \in jobs[j].rows) \/ NeedsAll(j)'
                      /\ j \in DOMAIN jobs /\ jobs'[j].state = jobs[j].state
    BY DEF Founded, RowsAdded
  <2>1. j \in DOMAIN jobs /\ jobs'[j].state = jobs[j].state
    BY DEF RowsAdded, SameJobs
  <2>2. /\ jobs'[j].root = jobs[j].root
        /\ jobs'[j].rows = jobs[j].rows \cup (IF j \in ids THEN tables ELSE {})
    BY <2>1 DEF RowsAdded, SameOrigin
  <2> QED
    BY <2>1, <2>2
<1>4. ASSUME NEW a
      PROVE  Spared(a)
  BY DEF Spared, Unreleased, RowsAdded, SameJobs
<1> QED
  BY <1>1, <1>2, <1>3, <1>4

(* A step that writes states, and leaves the jobs that have ended well *)
LEMMA StatesGrow ==
  ASSUME JobsTyped, OthersTyped, NEW ids, NEW state \in {"Waiting", "Running", "Terminated", "Error"},
         StatesSet(ids, state), needs' = needs,
         \A j \in ids \cap DOMAIN jobs : jobs[j].state = "Terminated" => jobs[j].forced
  PROVE  Grows /\ JobsTyped'
<1>1. JobsTyped'
  BY SameJobsTyped DEF StatesSet
<1>2. jobs' \in Seq(Job) /\ Len(jobs') = Len(jobs) /\ Len(jobs) \in Nat /\ Len(jobs) <= MaxJobs
  BY JobsAreRows DEF StatesSet, SameJobs, JobsTyped
<1>3. ASSUME NEW j \in DOMAIN jobs
      PROVE  /\ SameOrigin(j) /\ jobs[j].rows \subseteq jobs'[j].rows
             /\ jobs[j].forced => jobs'[j].forced
             /\ jobs'[j].state = "Hold" => jobs[j].state = "Hold"
             /\ jobs[j].state = "Terminated" /\ ~jobs[j].forced => jobs'[j].state = "Terminated"
  BY DEF StatesSet
<1>4. \A d \in needs : \E e \in needs' : e[1] = d[1] /\ jobs'[e[2]].root = jobs'[d[2]].root
  OBVIOUS
<1> QED
  BY <1>1, <1>2, <1>3, <1>4 DEF Grows

(* A job that is let go has a description and its needs *)
LEMMA ReleasedIsFounded ==
  ASSUME JobsTyped, OthersTyped, NEW ids, StatesSet(ids, "Waiting"), Grows,
         \A j \in ids \cap DOMAIN jobs :
           jobs[j].forced \/ (Described(j) /\ (jobs[j].root = j => NeedsAll(j)))
  PROVE  Founded
<1> SUFFICES ASSUME NEW j \in DOMAIN jobs'
             PROVE  /\ j \in DOMAIN jobs
                    /\ "log" \in jobs'[j].rows => "log" \in jobs[j].rows
                    /\ jobs'[j].state \in {"Waiting", "Running"} /\ ~jobs'[j].forced =>
                         jobs[j].state \in {"Waiting", "Running"} \/ Described(j)'
                    /\ jobs'[j].state = "Waiting" /\ jobs'[j].root = j /\ ~jobs'[j].forced =>
                         jobs[j].state = "Waiting" \/ NeedsAll(j)'
  BY DEF Founded, StatesSet
<1>1. /\ j \in DOMAIN jobs
      /\ jobs'[j].root = jobs[j].root
      /\ jobs'[j].rows = jobs[j].rows /\ jobs'[j].forced = jobs[j].forced
      /\ jobs'[j].state = IF j \in ids THEN "Waiting" ELSE jobs[j].state
  BY DEF StatesSet, SameJobs, SameOrigin
<1>2. Described(j) => Described(j)'
  BY <1>1 DEF Described
<1>3. NeedsAll(j) => NeedsAll(j)'
  BY <1>1, NeedsStay
<1> QED
  BY <1>1, <1>2, <1>3

(* The other changes of state need no reason *)
LEMMA OtherStatesAreFounded ==
  ASSUME JobsTyped, NEW ids, NEW state \in {"Running", "Terminated", "Error"},
         StatesSet(ids, state),
         state = "Running" =>
           \A j \in ids \cap DOMAIN jobs : jobs[j].state = "Waiting" /\ j \in round.fit
  PROVE  Founded
<1>1. \A j \in DOMAIN jobs :
        jobs[j].state = "Waiting" /\ jobs'[j].state = "Running" => j \in round.fit
  BY DEF StatesSet
<1> SUFFICES ASSUME NEW j \in DOMAIN jobs'
             PROVE  /\ j \in DOMAIN jobs
                    /\ "log" \in jobs'[j].rows => "log" \in jobs[j].rows
                    /\ jobs'[j].state \in {"Waiting", "Running"} =>
                         jobs[j].state \in {"Waiting", "Running"}
                    /\ jobs'[j].state = "Waiting" => jobs[j].state = "Waiting"
  BY <1>1 DEF Founded
<1> QED
  BY DEF StatesSet, SameJobs

(* A step that inserts a job, in the place of another for what awaits it *)
LEMMA JobGrows ==
  ASSUME JobsTyped, OthersTyped, NEW row \in Job, JobAdded(row), Len(jobs) < MaxJobs,
         row.array \in 1..(Len(jobs) + 1), row.root \in 1..(Len(jobs) + 1),
         row.wants \subseteq DOMAIN jobs,
         \A d \in needs : \/ d \in needs'
                          \/ <<d[1], Len(jobs) + 1>> \in needs' /\ row.root = jobs[d[2]].root
  PROVE  Grows /\ JobsTyped'
<1>1. /\ jobs' \in Seq(Job) /\ Len(jobs') = Len(jobs) + 1 /\ Len(jobs) \in Nat /\ Len(jobs') <= MaxJobs
      /\ DOMAIN jobs = 1..Len(jobs) /\ DOMAIN jobs' = 1..(Len(jobs) + 1)
  BY JobsAreRows, BoundAssumption DEF JobAdded
<1>2. JobsTyped'
  <2> SUFFICES ASSUME NEW j \in DOMAIN jobs'
               PROVE  /\ jobs'[j].array \in DOMAIN jobs' /\ jobs'[j].root \in DOMAIN jobs'
                      /\ jobs'[j].wants \subseteq DOMAIN jobs'
    BY <1>1 DEF JobsTyped
  <2>1. CASE j \in DOMAIN jobs
    BY <1>1, <2>1 DEF JobAdded, JobsTyped
  <2>2. CASE j = Len(jobs) + 1
    BY <1>1, <2>2 DEF JobAdded
  <2> QED
    BY <1>1, <2>1, <2>2
<1>3. ASSUME NEW d \in needs
      PROVE  \E e \in needs' : e[1] = d[1] /\ jobs'[e[2]].root = jobs'[d[2]].root
  <2>1. d[2] \in DOMAIN jobs /\ jobs'[d[2]] = jobs[d[2]]
    BY DEF OthersTyped, JobDependencie, JobAdded
  <2>2. CASE d \in needs'
    BY <2>2
  <2>3. CASE <<d[1], Len(jobs) + 1>> \in needs' /\ row.root = jobs[d[2]].root
    BY <2>1, <2>3 DEF JobAdded
  <2> QED
    BY <2>2, <2>3
<1>4. \A j \in DOMAIN jobs : jobs'[j] = jobs[j]
  BY DEF JobAdded
<1> QED
  BY <1>1, <1>2, <1>3, <1>4 DEF Grows, SameOrigin

(* A new job disturbs no other array *)
LEMMA JobSpares ==
  ASSUME JobsTyped, NEW row, JobAdded(row), NEW a,
         row.array = a => row.root # Len(jobs) + 1 /\ row.forced /\ "challenge" \in row.rows
  PROVE  Spared(a)
<1> SUFFICES ASSUME NEW j \in DOMAIN jobs', jobs'[j].array = a
             PROVE  /\ j \in DOMAIN jobs => (Unreleased(j) => Unreleased(j)')
                    /\ j \notin DOMAIN jobs =>
                         jobs'[j].root # j /\ jobs'[j].forced /\ "challenge" \in jobs'[j].rows
  BY DEF Spared
<1>1. CASE j \in DOMAIN jobs
  BY <1>1 DEF JobAdded, Unreleased
<1>2. CASE j \notin DOMAIN jobs
  <2>1. j = Len(jobs) + 1
    BY <1>2, JobsAreRows DEF JobAdded
  <2> QED
    BY <2>1, <1>2 DEF JobAdded
<1> QED
  BY <1>1, <1>2

(* It is founded if it is on hold or forced or complete *)
LEMMA JobIsFounded ==
  ASSUME JobsTyped, NEW row, JobAdded(row), NEW id, id = Len(jobs) + 1,
         row.root = id /\ "log" \in row.rows => NeedsAll(id)',
         row.state \in {"Waiting", "Running"} /\ ~row.forced => Parts \subseteq row.rows,
         row.state = "Waiting" => row.root # id
  PROVE  Founded
<1> SUFFICES ASSUME NEW j \in DOMAIN jobs', j \notin DOMAIN jobs
             PROVE  /\ jobs'[j].root = j /\ "log" \in jobs'[j].rows => NeedsAll(j)'
                    /\ jobs'[j].state \in {"Waiting", "Running"} /\ ~jobs'[j].forced => Described(j)'
                    /\ ~(jobs'[j].state = "Waiting" /\ jobs'[j].root = j)
  BY DEF Founded, JobAdded
<1>1. j = id /\ jobs'[j] = row
  BY JobsAreRows DEF JobAdded
<1> QED
  BY <1>1 DEF Described

-----------------------------------------------------------------------------
(* The steps of an oarsub *)

(* What a step of p must keep *)
Keeps(p) ==
  /\ Grows /\ JobsTyped' /\ OthersTyped' /\ SubTyped' /\ Founded
  /\ round' = round
  /\ OnlyMoves(p) /\ SubmissionIsSound(p)'
  /\ sub[p].at \in Started => \A a \in DOMAIN jobs : a # sub[p].array => Spared(a)
  /\ sub[p].at \notin Started => \A a : Spared(a)
  /\ sub'[p].at \in Started =>
       \/ sub'[p].array = 0 \/ sub'[p].array \notin DOMAIN jobs
       \/ sub[p].at \in Started /\ sub'[p].array = sub[p].array

(* Nothing is asked of an oarsub that was refused or killed *)
LEMMA GoneIsSound ==
  ASSUME NEW p \in Submitters, sub'[p].at \in {"refused", "gone"},
         sub'[p].array = 0, sub'[p].ids = <<>>
  PROVE  SubmissionIsSound(p)' /\ sub'[p].at \notin Started
<1>1. /\ sub'[p].at \notin Started /\ sub'[p].at \in Over
      /\ sub'[p].at \notin KeyStages \cup FillStages \cup {"first", "others", "moldables", "print", "told", "begin"}
  BY DEF Started, Stages, Over, KeyStages, FillStages
<1> QED
  BY <1>1 DEF SubmissionIsSound, KnowsItsJobs, MembersAreKnown, NotReleasedYet, SubjobsInOrder,
              ArrayInserted, ArrayFilled, ArrayComplete, KeyStages, FillStages

(* What is asked of one that inserts job by job *)
LEMMA KeyStageIsSound ==
  ASSUME NEW p \in Submitters, sub'[p].at \in KeyStages,
         KnowsItsJobs(p)', MembersAreKnown(p)', SubjobsInOrder(p)',
         sub'[p].at \in {"fill", "release"} => Unreleased(Last(sub[p].ids))'
  PROVE  SubmissionIsSound(p)'
<1> QED
  BY DEF SubmissionIsSound, NotReleasedYet, ArrayInserted, ArrayFilled, ArrayComplete, KeyStages,
         FillStages

(* What an oarsub asks *)
LEMMA AskedIsKnown ==
  ASSUME JobsTyped, NEW p \in Submitters, KnowsItsJobs(p), sub[p].at \in Started
  PROVE  /\ Asked(p).n \in 1..MaxJobs /\ Asked(p).n \in Nat
         /\ Asked(p).after \subseteq Ids /\ Asked(p).after \subseteq DOMAIN jobs
<1> QED
  BY RequestsAssumption, BoundAssumption DEF KnowsItsJobs

(* The row that oarsub inserts is well typed *)
LEMMA NewRowIsJob ==
  ASSUME JobsTyped, NEW p \in Submitters, KnowsItsJobs(p), sub[p].at \in Started,
         NEW id \in Ids, NEW array \in Ids, NEW index \in Ids
  PROVE  /\ NewRow(p, id, array, index) \in Job
         /\ [NewRow(p, id, array, index) EXCEPT !.rows = Tables] \in Job
<1>1. Asked(p).after \subseteq Ids
  BY AskedIsKnown
<1>2. "Hold" \in {"Hold", "Waiting", "Running", "Terminated", "Error"} /\ FALSE \in BOOLEAN
      /\ (~sub[p].asked.interactive) \in BOOLEAN
      /\ {} \in SUBSET Tables /\ Tables \in SUBSET Tables
  OBVIOUS
<1> QED
  BY <1>1, <1>2 DEF NewRow, Job, Asked

(* A list without repetition has as many members as its length *)
LEMMA DistinctAreCounted ==
  ASSUME NEW ids \in Seq(Nat), NEW n \in Nat, Len(ids) = n,
         \A i, k \in DOMAIN ids : ids[i] = ids[k] => i = k
  PROVE  IsFiniteSet(ToSet(ids)) /\ Cardinality(ToSet(ids)) = n
<1>1. DOMAIN ids = 1..n
  OBVIOUS
<1>2. ids \in [1..n -> ToSet(ids)]
  BY <1>1, LenProperties DEF ToSet
<1>3. \A i, k \in 1..n : ids[i] = ids[k] => i = k
  BY <1>1
<1>4. \A j \in ToSet(ids) : \E i \in 1..n : ids[i] = j
  BY <1>1 DEF ToSet
<1>5. ids \in Bijection(1..n, ToSet(ids))
  BY <1>2, <1>3, <1>4 DEF Bijection, Injection, Surjection, IsInjective
<1>6. IsFiniteSet(1..n) /\ Cardinality(1..n) = n
  BY FS_Interval
<1>7. IsFiniteSet(ToSet(ids)) /\ Cardinality(ToSet(ids)) = n
  BY <1>5, <1>6, FS_Bijection DEF ExistsBijection
<1> QED
  BY <1>7

(* A job has all it must have, and the next one comes, or the end *)
LEMMA SubjobIsDone ==
  ASSUME JobsTyped', SubTyped', NEW p \in Submitters,
         KnowsItsJobs(p)', MembersAreKnown(p)',
         sub'[p].asked.n \in Nat,
         sub'[p].at = IF Len(sub'[p].ids) = sub'[p].asked.n THEN "print" ELSE "subjob",
         Len(sub'[p].ids) <= sub'[p].asked.n,
         \A i \in DOMAIN sub'[p].ids :
           /\ jobs'[sub'[p].ids[i]].index = i
           /\ jobs'[sub'[p].ids[i]].rows = Tables
           /\ jobs'[sub'[p].ids[i]].state = "Hold" => sub'[p].asked.hold
  PROVE  SubmissionIsSound(p)'
<1>1. sub'[p].ids \in Seq(Nat) /\ Len(sub'[p].ids) \in Nat
  BY DEF SubTyped
<1>2. CASE sub'[p].at = "subjob"
  <2>1. SubjobsInOrder(p)'
    BY <1>1, <1>2 DEF SubjobsInOrder, SubjobIsFilled, Asked
  <2> QED
    BY <1>2, <2>1, KeyStageIsSound DEF KeyStages
<1>3. CASE sub'[p].at = "print"
  <2> DEFINE ids == sub'[p].ids
  <2>1. /\ ids \in Seq(Nat) /\ Len(ids) = sub'[p].asked.n
        /\ \A i \in DOMAIN ids : jobs'[ids[i]].index = i
        /\ DOMAIN ids = 1..(sub'[p].asked.n)
    BY <1>1, <1>3
  <2>2. IsFiniteSet(ToSet(ids)) /\ Cardinality(ToSet(ids)) = sub'[p].asked.n
    <3>1. \A i, k \in DOMAIN ids : ids[i] = ids[k] => i = k
      BY <2>1
    <3> HIDE DEF ids
    <3> QED
      BY <2>1, <3>1, DistinctAreCounted
  <2>3. ASSUME NEW x \in {jobs'[j].index : j \in ToSet(ids)}
        PROVE  x \in 1..(sub'[p].asked.n)
    BY <2>1 DEF ToSet
  <2>4. ASSUME NEW x \in 1..(sub'[p].asked.n)
        PROVE  x \in {jobs'[j].index : j \in ToSet(ids)}
    <3>1. ids[x] \in ToSet(ids) /\ jobs'[ids[x]].index = x
      BY <2>1 DEF ToSet
    <3> QED
      BY <3>1
  <2>5. ArrayComplete(p)'
    <3>1. {jobs'[j].index : j \in ToSet(ids)} = 1..(sub'[p].asked.n)
      BY <2>3, <2>4
    <3>2. \A j \in ToSet(ids) : jobs'[j].rows = Tables /\ (jobs'[j].state = "Hold" => sub'[p].asked.hold)
      BY DEF ToSet
    <3> QED
      BY <2>2, <3>1, <3>2 DEF ArrayComplete, Numbered, Asked
  <2> QED
    BY <1>3, <2>5 DEF SubmissionIsSound, NotReleasedYet, SubjobsInOrder, ArrayInserted, ArrayFilled,
                      KeyStages, FillStages
<1> QED
  BY <1>2, <1>3

(* oarsub reads a request, and has written nothing *)
LEMMA AskKeeps ==
  ASSUME IInv, NEW p \in Submitters, Ask(p)
  PROVE  Keeps(p)
<1> USE DEF IInv
<1>0. UNCHANGED <<jobs, needs, events, round>>
  BY DEF Ask
<1>1. Grows /\ JobsTyped' /\ Founded /\ \A a : Spared(a)
  BY <1>0, QuietGrows
<1>2. OthersTyped' /\ round' = round
  BY <1>0 DEF OthersTyped, JobDependencie
<1>3. PICK r \in Requests[p] :
        /\ r.after \subseteq DOMAIN jobs
        /\ \/ sub' = [sub EXCEPT ![p] = At("refused")]
           \/ /\ ~Incoherent(r) /\ (r.n = 1 \/ r.keyed)
              /\ sub' = [sub EXCEPT ![p].asked = r, ![p].at = "subjob"]
           \/ /\ ~Incoherent(r) /\ r.n > 1 /\ ~r.keyed /\ ~r.moldable
              /\ sub' = [sub EXCEPT ![p].asked = r, ![p].at = "first"]
  BY DEF Ask
<1>4. sub[p].at = "begin" /\ sub[p].array = 0 /\ sub[p].ids = <<>> /\ sub[p].at \notin Started
  BY DEF Ask, SubmissionIsSound, KnowsItsJobs, Started
<1>5. CASE sub' = [sub EXCEPT ![p] = At("refused")]
  <2>1. /\ SubTyped' /\ OnlyMoves(p) /\ sub'[p].at = "refused"
        /\ sub'[p].array = 0 /\ sub'[p].ids = <<>>
    BY <1>5, AtIsFresh DEF Stages, Over
  <2> QED
    BY <1>1, <1>2, <1>4, <2>1, GoneIsSound DEF Keeps
<1>6. ASSUME NEW label \in {"subjob", "first"}, label = "first" => r.n > 1,
             sub' = [sub EXCEPT ![p].asked = r, ![p].at = label]
      PROVE  Keeps(p)
  <2>1. r \in AllRequests /\ label \in Stages /\ label \in Started
    BY DEF AllRequests, Stages, Started, KeyStages
  <2>2. SubTyped' /\ OnlyMoves(p)
    BY <1>6, <2>1 DEF SubTyped, OnlyMoves
  <2>3. sub'[p].at = label /\ sub'[p].asked = r /\ sub'[p].array = 0 /\ sub'[p].ids = <<>>
    BY <1>4, <1>6 DEF SubTyped
  <2>4. KnowsItsJobs(p)'
    <3>1. Len(jobs) \in Nat
      BY JobsAreRows
    <3>2. DOMAIN sub'[p].ids = {}
      BY <2>3
    <3>3. sub'[p].at \in {"subjob", "first"} /\ jobs' = jobs /\ r.after \subseteq DOMAIN jobs
      BY <1>0, <1>3, <2>3
    <3> QED
      BY <2>3, <3>1, <3>2, <3>3 DEF KnowsItsJobs, Asked
  <2>5. MembersAreKnown(p)'
    <3>1. \A j \in DOMAIN jobs : jobs[j].array # 0
      BY ArraysAreJobs
    <3> QED
      BY <1>0, <2>3, <3>1 DEF MembersAreKnown, Copies, Originals, OfArray
  <2>6. r.n \in Nat /\ r.n >= 1
    BY RequestsAssumption, BoundAssumption
  <2>7. SubmissionIsSound(p)'
    <3>1. CASE label = "subjob"
      <4>1. SubjobsInOrder(p)'
        BY <2>3, <2>6, <3>1 DEF SubjobsInOrder, Asked
      <4> QED
        BY <2>3, <2>4, <2>5, <3>1, <4>1, KeyStageIsSound DEF KeyStages
    <3>2. CASE label = "first"
      BY <1>6, <2>3, <2>4, <2>5, <3>2 DEF SubmissionIsSound, NotReleasedYet, SubjobsInOrder,
           ArrayInserted, ArrayFilled, ArrayComplete, KeyStages, FillStages, Asked
    <3> QED
      BY <3>1, <3>2
  <2> QED
    BY <1>1, <1>2, <1>4, <2>2, <2>3, <2>7 DEF Keeps
<1> QED
  BY <1>3, <1>5, <1>6

(* What is known of an oarsub that has started *)
LEMMA StartedFacts ==
  ASSUME IInv, NEW p \in Submitters, sub[p].at \in Started
  PROVE  /\ JobsTyped /\ OthersTyped /\ SubTyped /\ SubmissionIsSound(p) /\ KnowsItsJobs(p)
         /\ Asked(p).n \in 1..MaxJobs /\ Asked(p).n \in Nat
         /\ Asked(p).after \subseteq Ids /\ Asked(p).after \subseteq DOMAIN jobs
         /\ Len(jobs) \in Nat /\ DOMAIN jobs = 1..Len(jobs)
         /\ sub[p].ids \in Seq(Nat) /\ Len(sub[p].ids) \in Nat
         /\ DOMAIN sub[p].ids = 1..Len(sub[p].ids)
<1>1. JobsTyped /\ OthersTyped /\ SubTyped /\ SubmissionIsSound(p) /\ KnowsItsJobs(p)
  BY DEF IInv, SubmissionIsSound
<1>2. sub[p].ids \in Seq(Nat)
  BY <1>1 DEF SubTyped
<1> QED
  BY <1>1, <1>2, AskedIsKnown, JobsAreRows

(* The first job, alone in its array *)
LEMMA InsertFirstSubjobKeeps ==
  ASSUME IInv, NEW p \in Submitters, InsertFirstSubjob(p)
  PROVE  Keeps(p)
<1>0. sub[p].at = "subjob" /\ sub[p].ids = <<>> /\ sub[p].at \in Started /\ Len(jobs) < MaxJobs
  BY DEF InsertFirstSubjob, Started, Stages, KeyStages, Over
<1>1. /\ JobsTyped /\ OthersTyped /\ SubTyped /\ KnowsItsJobs(p)
      /\ Asked(p).n \in 1..MaxJobs /\ Asked(p).n \in Nat
      /\ Asked(p).after \subseteq DOMAIN jobs
      /\ Len(jobs) \in Nat /\ DOMAIN jobs = 1..Len(jobs)
  BY <1>0, StartedFacts
<1>2. PICK id \in Nat : id = Len(jobs) + 1
  BY <1>1
<1>3. id \in Ids /\ 1 \in Ids /\ id \notin DOMAIN jobs
  BY <1>0, <1>1, <1>2, BoundAssumption DEF Ids
<1>4. PICK row \in Job : row = NewRow(p, id, id, 1)
  BY <1>0, <1>1, <1>3, NewRowIsJob
<1>5. /\ row.state = "Hold" /\ row.array = id /\ row.index = 1 /\ row.rows = {}
      /\ row.wants = Asked(p).after /\ row.root = id /\ row.forced = FALSE
  BY <1>4 DEF NewRow, Asked
<1>6. /\ jobs' = Append(jobs, row) /\ UNCHANGED <<needs, events, round>>
      /\ sub' = [sub EXCEPT ![p].at = "fill", ![p].array = id, ![p].ids = <<id>>]
  BY <1>2, <1>4 DEF InsertFirstSubjob
<1>7. JobAdded(row)
  BY <1>1, <1>6, AppendAddsJob
<1>8. Grows /\ JobsTyped'
  BY <1>0, <1>1, <1>2, <1>5, <1>6, <1>7, JobGrows
<1>9. Founded
  BY <1>1, <1>2, <1>5, <1>7, JobIsFounded
<1>10. \A a \in DOMAIN jobs : Spared(a)
  BY <1>1, <1>3, <1>5, <1>7, JobSpares
<1>11. OthersTyped'
  BY <1>1, <1>6, <1>8, DomainGrows DEF OthersTyped, JobDependencie
<1>12. SubTyped' /\ OnlyMoves(p)
  <2>1. "fill" \in Stages /\ <<id>> \in Seq(Nat)
    BY DEF Stages, KeyStages
  <2> QED
    BY <1>1, <1>6, <2>1 DEF SubTyped, OnlyMoves
<1>13. sub'[p].at = "fill" /\ sub'[p].asked = sub[p].asked /\ sub'[p].array = id /\ sub'[p].ids = <<id>>
  BY <1>1, <1>6 DEF SubTyped
<1>14. Len(jobs') = id /\ DOMAIN jobs' = 1..id /\ jobs'[id] = row /\ id >= 1
  BY <1>1, <1>2, <1>7 DEF JobAdded
<1>15. SubmissionIsSound(p)'
  <2>1. Len(sub'[p].ids) = 1 /\ DOMAIN sub'[p].ids = 1..1 /\ sub'[p].ids[1] = id
    BY <1>13
  <2>2. KnowsItsJobs(p)'
    <3>1. Asked(p) \in Requests[p] /\ Asked(p).after \subseteq DOMAIN jobs'
      BY <1>0, <1>1, <1>14, <1>2 DEF KnowsItsJobs
    <3> QED
      BY <1>5, <1>13, <1>14, <2>1, <3>1 DEF KnowsItsJobs, Asked
  <2>3. MembersAreKnown(p)'
    <3>1. \A j \in DOMAIN jobs : jobs'[j].array # id
      BY <1>1, <1>3, <1>7, ArraysAreJobs DEF JobAdded
    <3>2. \A j \in DOMAIN jobs' : j \in DOMAIN jobs \/ j = id
      BY <1>1, <1>2, <1>14
    <3>3. Copies(p)' = {}
      BY <1>5, <1>13, <1>14, <3>1, <3>2 DEF Copies, OfArray
    <3>4. \A j \in Originals(p)' : jobs'[j].wants = Asked(p).after
      BY <1>5, <1>13, <1>14, <3>1, <3>2 DEF Originals, OfArray
    <3> QED
      BY <1>13, <3>3, <3>4 DEF MembersAreKnown, Asked
  <2>4. SubjobsInOrder(p)'
    <3>1. \A i \in 1..1 : i = 1
      OBVIOUS
    <3> QED
      BY <1>1, <1>5, <1>13, <1>14, <2>1, <3>1 DEF SubjobsInOrder, SubjobIsFilled, ToFill, ToRelease, Asked
  <2>5. Unreleased(Last(sub[p].ids))'
    BY <1>5, <1>13, <1>14, <2>1 DEF Unreleased, Last
  <2> QED
    BY <1>13, <2>2, <2>3, <2>4, <2>5, KeyStageIsSound DEF KeyStages
<1> QED
  BY <1>0, <1>3, <1>6, <1>8, <1>9, <1>10, <1>11, <1>12, <1>13, <1>15 DEF Keeps

(* A job has all it needs when a dependency is there for each job it awaits *)
LEMMA NeedsAreThere ==
  ASSUME NEW j, \A k \in jobs'[j].wants : <<j, k>> \in needs'
  PROVE  NeedsAll(j)'
<1> SUFFICES ASSUME NEW k \in jobs'[j].wants
             PROVE  \E d \in needs' : d[1] = j /\ SameJob(d[2], k)'
  BY DEF NeedsAll
<1>1. PICK d \in needs' : d = <<j, k>>
  OBVIOUS
<1>2. d[1] = j /\ d[2] = k
  BY <1>1
<1> QED
  BY <1>2 DEF SameJob

(* The job that an oarsub with keys has inserted last *)
LEMMA LastSubjob ==
  ASSUME IInv, NEW p \in Submitters, sub[p].at \in {"fill", "release"}
  PROVE  /\ sub[p].at \in Started /\ sub[p].at \in KeyStages /\ sub[p].at # "subjob"
         /\ Len(sub[p].ids) \in DOMAIN sub[p].ids
         /\ Last(sub[p].ids) = sub[p].ids[Len(sub[p].ids)]
         /\ Last(sub[p].ids) \in DOMAIN jobs
         /\ Last(sub[p].ids) \in Originals(p)
         /\ jobs[Last(sub[p].ids)].array = sub[p].array
         /\ jobs[Last(sub[p].ids)].root = Last(sub[p].ids)
         /\ jobs[Last(sub[p].ids)].wants = Asked(p).after
         /\ Unreleased(Last(sub[p].ids))
         /\ sub[p].array \in DOMAIN jobs
<1>1. sub[p].at \in Started /\ sub[p].at \in KeyStages /\ sub[p].at # "subjob" /\ sub[p].at \notin Over
  BY DEF Started, Stages, KeyStages, Over
<1>2. /\ SubmissionIsSound(p) /\ KnowsItsJobs(p) /\ sub[p].ids \in Seq(Nat)
      /\ Len(sub[p].ids) \in Nat /\ DOMAIN sub[p].ids = 1..Len(sub[p].ids)
      /\ Len(jobs) \in Nat /\ DOMAIN jobs = 1..Len(jobs)
  BY <1>1, StartedFacts
<1>3. sub[p].ids # <<>>
  BY <1>1, <1>2 DEF SubmissionIsSound, SubjobsInOrder
<1>4. Len(sub[p].ids) \in DOMAIN sub[p].ids
  BY <1>2, <1>3, LenProperties, EmptySeq
<1>5. Last(sub[p].ids) = sub[p].ids[Len(sub[p].ids)]
  BY DEF Last
<1>6. /\ Last(sub[p].ids) \in DOMAIN jobs
      /\ jobs[Last(sub[p].ids)].array = sub[p].array
      /\ jobs[Last(sub[p].ids)].root = Last(sub[p].ids)
      /\ sub[p].array \in 0..Len(jobs) /\ sub[p].array # 0
  BY <1>1, <1>2, <1>4, <1>5 DEF KnowsItsJobs
<1>7. Last(sub[p].ids) \in Originals(p)
  BY <1>6 DEF Originals, OfArray
<1>8. jobs[Last(sub[p].ids)].wants = Asked(p).after
  BY <1>1, <1>2, <1>7 DEF SubmissionIsSound, MembersAreKnown
<1>9. Unreleased(Last(sub[p].ids))
  BY <1>2 DEF SubmissionIsSound, NotReleasedYet
<1>10. sub[p].array \in DOMAIN jobs
  BY <1>2, <1>6
<1> QED
  BY <1>1, <1>4, <1>5, <1>6, <1>7, <1>8, <1>9, <1>10

(* What stays known of an oarsub when the table keeps its jobs *)
LEMMA KnownStays ==
  ASSUME JobsTyped, Grows, NEW p \in Submitters, KnowsItsJobs(p), MembersAreKnown(p),
         sub[p].at \in Started, sub[p].at \notin Over \cup {"first"},
         DOMAIN jobs' = DOMAIN jobs,
         sub[p].array # 0, sub'[p].at \in Started \ {"first"},
         sub'[p].at = "subjob" => sub'[p].ids # <<>>,
         sub'[p].asked = sub[p].asked, sub'[p].array = sub[p].array,
         sub'[p].ids = sub[p].ids
  PROVE  /\ KnowsItsJobs(p)' /\ MembersAreKnown(p)'
         /\ Originals(p)' = Originals(p) /\ Copies(p)' = Copies(p)
         /\ OfArray(sub[p].array)' = OfArray(sub[p].array)
<1>1. \A j \in DOMAIN jobs : SameOrigin(j) /\ (jobs[j].forced => jobs'[j].forced)
  BY DEF Grows
<1>2. Originals(p)' = Originals(p) /\ Copies(p)' = Copies(p)
  BY <1>1 DEF Originals, Copies, OfArray, SameOrigin
<1>3. OfArray(sub[p].array)' = OfArray(sub[p].array)
  BY <1>1 DEF OfArray, SameOrigin
<1>4. KnowsItsJobs(p)'
  <2>1. sub[p].array \in 0..Len(jobs) /\ sub[p].array \in 0..Len(jobs')
    BY DomainGrows DEF KnowsItsJobs, Grows
  <2>2. \A i \in DOMAIN sub'[p].ids :
            /\ sub'[p].ids[i] \in DOMAIN jobs'
            /\ jobs'[sub'[p].ids[i]].array = sub'[p].array
            /\ jobs'[sub'[p].ids[i]].root = sub'[p].ids[i]
    BY <1>1 DEF KnowsItsJobs, SameOrigin
  <2>3. Asked(p)' = Asked(p) /\ Asked(p) \in Requests[p] /\ Asked(p).after \subseteq DOMAIN jobs'
    BY DEF KnowsItsJobs, Asked
  <2> QED
    BY <2>1, <2>2, <2>3 DEF KnowsItsJobs, Started
<1>5. MembersAreKnown(p)'
  <2>1. \A j \in Copies(p) : jobs'[j].forced
    BY <1>1 DEF MembersAreKnown, Copies, OfArray
  <2>2. \A j \in Originals(p) : jobs'[j].wants = Asked(p).after
    BY <1>1 DEF MembersAreKnown, Originals, OfArray, SameOrigin
  <2> QED
    BY <1>2, <2>1, <2>2 DEF MembersAreKnown, Asked
<1> QED
  BY <1>2, <1>3, <1>4, <1>5

(* The jobs of an oarsub with keys that are complete stay so *)
LEMMA SubjobsStay ==
  ASSUME IInv, NEW p \in Submitters, sub[p].at \in KeyStages, Grows,
         NEW i \in DOMAIN sub[p].ids
  PROVE  /\ jobs'[sub[p].ids[i]].index = i
         /\ jobs'[sub[p].ids[i]].rows = Tables \/ ToFill(p, i)
         /\ jobs'[sub[p].ids[i]].state = "Hold" => Asked(p).hold \/ ToRelease(p, i)
<1>1. sub[p].at \in Started
  BY DEF KeyStages, Started, Stages, Over
<1>2. JobsTyped /\ KnowsItsJobs(p) /\ SubmissionIsSound(p)
  BY <1>1, StartedFacts
<1>3. PICK id \in DOMAIN jobs : id = sub[p].ids[i]
  BY <1>1, <1>2 DEF KnowsItsJobs
<1>4. SubjobIsFilled(p, i)
  BY <1>2 DEF SubmissionIsSound, SubjobsInOrder
<1>5. /\ jobs'[id].index = jobs[id].index /\ jobs[id].rows \subseteq jobs'[id].rows
      /\ jobs'[id].state = "Hold" => jobs[id].state = "Hold"
  BY DEF Grows, SameOrigin
<1>6. jobs'[id] \in Job
  BY <1>2, DomainGrows, ElementOfSeq DEF Grows
<1>7. jobs'[id].rows \subseteq Tables
  BY <1>6 DEF Job
<1> QED
  BY <1>3, <1>4, <1>5, <1>7 DEF SubjobIsFilled

(* The first job has its rows and dependencies in one transaction *)
LEMMA FillFirstSubjobKeeps ==
  ASSUME IInv, NEW p \in Submitters, FillFirstSubjob(p)
  PROVE  Keeps(p)
<1>0. sub[p].at = "fill"
  BY DEF FillFirstSubjob
<1>1. PICK id : id = Last(sub[p].ids)
  OBVIOUS
<1>2. /\ sub[p].at \in Started /\ sub[p].at \in KeyStages
      /\ Len(sub[p].ids) \in DOMAIN sub[p].ids /\ id = sub[p].ids[Len(sub[p].ids)]
      /\ id \in DOMAIN jobs /\ id \in Originals(p) /\ jobs[id].array = sub[p].array /\ jobs[id].root = id
      /\ jobs[id].wants = Asked(p).after /\ Unreleased(id) /\ sub[p].array \in DOMAIN jobs
  BY <1>0, <1>1, LastSubjob
<1>3. /\ JobsTyped /\ OthersTyped /\ SubTyped /\ KnowsItsJobs(p) /\ SubmissionIsSound(p)
      /\ Asked(p).n \in Nat /\ Asked(p).after \subseteq DOMAIN jobs
      /\ Len(jobs) \in Nat /\ DOMAIN jobs = 1..Len(jobs)
      /\ sub[p].ids \in Seq(Nat) /\ Len(sub[p].ids) \in Nat
      /\ DOMAIN sub[p].ids = 1..Len(sub[p].ids)
  BY <1>2, StartedFacts
<1>4. /\ jobs' = With({id}, Tables) /\ needs' = needs \cup ({id} \X Asked(p).after)
      /\ events' = events /\ round' = round
      /\ Goto(p, IF Asked(p).hold THEN AfterSubjob(p) ELSE "release")
  BY <1>1 DEF FillFirstSubjob
<1>5. RowsAdded({id}, Tables)
  BY <1>3, <1>4, WithAddsRows
<1>6. NeedsAll(id)'
  <2>1. jobs'[id].wants = Asked(p).after
    BY <1>2, <1>5 DEF RowsAdded, SameOrigin
  <2>2. \A k \in Asked(p).after : <<id, k>> \in needs'
    BY <1>4
  <2> QED
    BY <2>1, <2>2, NeedsAreThere
<1>7. Grows /\ JobsTyped' /\ Founded /\ \A a : Spared(a)
  BY <1>3, <1>4, <1>5, <1>6, RowsGrow
<1>8. DOMAIN jobs' = DOMAIN jobs /\ Len(jobs') = Len(jobs)
  BY <1>5 DEF RowsAdded, SameJobs
<1>9. OthersTyped'
  BY <1>2, <1>3, <1>4, <1>8 DEF OthersTyped, JobDependencie
<1>10. PICK label \in {"print", "subjob", "release"} :
         label = IF Asked(p).hold THEN AfterSubjob(p) ELSE "release"
  BY DEF AfterSubjob
<1>11. label \in Stages /\ label \in Started /\ label \in Started \ {"first"}
  BY DEF Stages, Started, KeyStages, Over
<1>12. /\ SubTyped' /\ OnlyMoves(p) /\ sub'[p].at = label /\ sub'[p].asked = sub[p].asked
       /\ sub'[p].array = sub[p].array /\ sub'[p].ids = sub[p].ids
  BY <1>3, <1>4, <1>10, <1>11, GotoGoes
<1>13. sub[p].ids # <<>> /\ sub[p].array # 0 /\ sub[p].at \notin Over \cup {"first"}
  BY <1>0, <1>2, <1>3 DEF Over
<1>14. KnowsItsJobs(p)' /\ MembersAreKnown(p)'
  BY <1>2, <1>3, <1>7, <1>8, <1>11, <1>12, <1>13, KnownStays DEF SubmissionIsSound
<1>15. ASSUME NEW i \in DOMAIN sub[p].ids
       PROVE  /\ jobs'[sub[p].ids[i]].index = i
              /\ jobs'[sub[p].ids[i]].rows = Tables
              /\ jobs'[sub[p].ids[i]].state = "Hold" => Asked(p).hold \/ i = Len(sub[p].ids)
  <2>1. /\ jobs'[sub[p].ids[i]].index = i
        /\ jobs'[sub[p].ids[i]].rows = Tables \/ i = Len(sub[p].ids)
        /\ jobs'[sub[p].ids[i]].state = "Hold" => Asked(p).hold \/ i = Len(sub[p].ids)
    BY <1>2, <1>7, SubjobsStay DEF ToFill, ToRelease
  <2>2. jobs'[id].rows = Tables
    <3>1. jobs[id].rows \subseteq Tables
      BY <1>2, <1>3, JobsAreRows DEF Job
    <3> QED
      BY <1>2, <1>5, <3>1 DEF RowsAdded
  <2> QED
    BY <1>2, <2>1, <2>2
<1>16. /\ Len(sub[p].ids) <= Asked(p).n
       /\ label = "release" \/ (Asked(p).hold /\ label = IF Len(sub[p].ids) = Asked(p).n THEN "print" ELSE "subjob")
  BY <1>2, <1>3, <1>10 DEF SubmissionIsSound, SubjobsInOrder, AfterSubjob
<1>17. SubmissionIsSound(p)'
  <2>1. CASE label = "release"
    <3>1. SubjobsInOrder(p)'
      BY <1>12, <1>13, <1>15, <1>16, <2>1 DEF SubjobsInOrder, SubjobIsFilled, ToFill, ToRelease, Asked
    <3>2. Unreleased(Last(sub[p].ids))'
      <4>1. Last(sub[p].ids)' = id
        BY <1>2, <1>12 DEF Last
      <4>2. jobs'[id].state = jobs[id].state /\ jobs'[id].forced = jobs[id].forced
        BY <1>2, <1>5 DEF RowsAdded
      <4> QED
        BY <1>2, <4>1, <4>2 DEF Unreleased
    <3> QED
      BY <1>12, <1>14, <2>1, <3>1, <3>2, KeyStageIsSound DEF KeyStages
  <2>2. CASE Asked(p).hold /\ label = IF Len(sub[p].ids) = Asked(p).n THEN "print" ELSE "subjob"
    BY <1>3, <1>7, <1>12, <1>14, <1>15, <1>16, <2>2, SubjobIsDone DEF Asked
  <2> QED
    BY <1>16, <2>1, <2>2
<1> QED
  BY <1>2, <1>4, <1>7, <1>9, <1>12, <1>17 DEF Keeps

(* The job that is released has its rows and dependencies, or was let go by others *)
LEMMA ReleaseSubjobKeeps ==
  ASSUME IInv, NEW p \in Submitters, ReleaseSubjob(p)
  PROVE  Keeps(p)
<1>0. sub[p].at = "release"
  BY DEF ReleaseSubjob
<1>1. PICK id : id = Last(sub[p].ids)
  OBVIOUS
<1>2. /\ sub[p].at \in Started /\ sub[p].at \in KeyStages
      /\ Len(sub[p].ids) \in DOMAIN sub[p].ids /\ id = sub[p].ids[Len(sub[p].ids)]
      /\ id \in DOMAIN jobs /\ jobs[id].array = sub[p].array /\ jobs[id].root = id
      /\ Unreleased(id) /\ sub[p].array \in DOMAIN jobs
  BY <1>0, <1>1, LastSubjob
<1>3. /\ JobsTyped /\ OthersTyped /\ SubTyped /\ KnowsItsJobs(p) /\ SubmissionIsSound(p)
      /\ NeedsAreKnown
      /\ Asked(p).n \in Nat
      /\ Len(jobs) \in Nat /\ DOMAIN jobs = 1..Len(jobs)
      /\ sub[p].ids \in Seq(Nat) /\ Len(sub[p].ids) \in Nat
      /\ DOMAIN sub[p].ids = 1..Len(sub[p].ids)
  BY <1>2, StartedFacts DEF IInv
<1>4. /\ jobs' = WithState({id}, "Waiting") /\ UNCHANGED <<needs, events, round>>
      /\ Goto(p, AfterSubjob(p))
  BY <1>1 DEF ReleaseSubjob
<1>5. StatesSet({id}, "Waiting")
  BY <1>3, <1>4, WithStateSetsStates
<1>6. jobs[id].state = "Terminated" => jobs[id].forced
  BY <1>2 DEF Unreleased
<1>7. Grows /\ JobsTyped'
  BY <1>3, <1>4, <1>5, <1>6, StatesGrow
<1>8. jobs[id].rows = Tables
  BY <1>0, <1>2, <1>3 DEF SubmissionIsSound, SubjobsInOrder, SubjobIsFilled, ToFill
<1>9. Described(id) /\ NeedsAll(id)
  <2>1. Parts \subseteq Tables /\ "log" \in Tables
    BY DEF Parts, Tables
  <2> QED
    BY <1>2, <1>3, <1>8, <2>1 DEF Described, NeedsAreKnown
<1>10. Founded
  BY <1>3, <1>5, <1>7, <1>9, ReleasedIsFounded
<1>11. ASSUME NEW a, a # sub[p].array
       PROVE  Spared(a)
  BY <1>2, <1>5, <1>11 DEF Spared, StatesSet, SameJobs, SameOrigin, Unreleased
<1>12. DOMAIN jobs' = DOMAIN jobs /\ Len(jobs') = Len(jobs)
  BY <1>5 DEF StatesSet, SameJobs
<1>13. OthersTyped'
  BY <1>3, <1>4, <1>12 DEF OthersTyped, JobDependencie
<1>14. PICK label \in {"print", "subjob"} :
         label = IF Len(sub[p].ids) = Asked(p).n THEN "print" ELSE "subjob"
  OBVIOUS
<1>15. label \in Stages /\ label \in Started /\ label \in Started \ {"first"}
  BY DEF Stages, Started, KeyStages, Over
<1>16. /\ SubTyped' /\ OnlyMoves(p) /\ sub'[p].at = label /\ sub'[p].asked = sub[p].asked
       /\ sub'[p].array = sub[p].array /\ sub'[p].ids = sub[p].ids
  BY <1>3, <1>4, <1>14, <1>15, GotoGoes DEF AfterSubjob
<1>17. sub[p].ids # <<>> /\ sub[p].array # 0 /\ sub[p].at \notin Over \cup {"first"}
  BY <1>0, <1>2, <1>3 DEF Over
<1>18. KnowsItsJobs(p)' /\ MembersAreKnown(p)'
  BY <1>2, <1>3, <1>7, <1>12, <1>15, <1>16, <1>17, KnownStays DEF SubmissionIsSound
<1>19. ASSUME NEW i \in DOMAIN sub[p].ids
       PROVE  /\ jobs'[sub[p].ids[i]].index = i
              /\ jobs'[sub[p].ids[i]].rows = Tables
              /\ jobs'[sub[p].ids[i]].state = "Hold" => Asked(p).hold
  <2>1. /\ jobs'[sub[p].ids[i]].index = i
        /\ jobs'[sub[p].ids[i]].rows = Tables
        /\ jobs'[sub[p].ids[i]].state = "Hold" => Asked(p).hold \/ i = Len(sub[p].ids)
    BY <1>0, <1>2, <1>7, SubjobsStay DEF ToFill, ToRelease
  <2>2. jobs'[id].state = "Waiting"
    BY <1>2, <1>5 DEF StatesSet
  <2> QED
    BY <1>2, <2>1, <2>2
<1>20. Len(sub[p].ids) <= Asked(p).n
  BY <1>2, <1>3 DEF SubmissionIsSound, SubjobsInOrder
<1>21. SubmissionIsSound(p)'
  BY <1>3, <1>7, <1>14, <1>16, <1>18, <1>19, <1>20, SubjobIsDone DEF Asked
<1> QED
  BY <1>2, <1>4, <1>7, <1>10, <1>11, <1>13, <1>16, <1>21 DEF Keeps

(* An oarsub that ends leaves its jobs as they are *)
LEMMA EndKeeps ==
  ASSUME IInv, NEW p \in Submitters, NEW label \in {"refused", "gone"},
         sub' = [sub EXCEPT ![p] = At(label)], UNCHANGED <<jobs, needs, events, round>>
  PROVE  Keeps(p)
<1>1. JobsTyped /\ OthersTyped /\ SubTyped
  BY DEF IInv
<1>2. Grows /\ JobsTyped' /\ Founded /\ \A a : Spared(a)
  BY <1>1, QuietGrows
<1>3. OthersTyped'
  BY <1>1 DEF OthersTyped, JobDependencie
<1>4. label \in Stages
  BY DEF Stages, Over
<1>5. /\ SubTyped' /\ OnlyMoves(p) /\ sub'[p].at = label
      /\ sub'[p].array = 0 /\ sub'[p].ids = <<>>
  BY <1>1, <1>4, AtIsFresh
<1> QED
  BY <1>2, <1>3, <1>5, GoneIsSound DEF Keeps

(* A failure after the first job *)
LEMMA GiveUpKeeps ==
  ASSUME IInv, NEW p \in Submitters, GiveUp(p)
  PROVE  Keeps(p)
<1> QED
  BY EndKeeps DEF GiveUp

(* A death between two transactions *)
LEMMA DieKeeps ==
  ASSUME IInv, NEW p \in Submitters, Die(p)
  PROVE  Keeps(p)
<1> QED
  BY EndKeeps DEF Die

(* The ids are printed when all is complete *)
LEMMA PrintIdsKeeps ==
  ASSUME IInv, NEW p \in Submitters, PrintIds(p)
  PROVE  Keeps(p)
<1>0. sub[p].at = "print" /\ Goto(p, "told") /\ UNCHANGED <<jobs, needs, events, round>>
  BY DEF PrintIds
<1>1. sub[p].at \in Started /\ "told" \in Stages /\ sub[p].at # "first" /\ sub[p].at # "subjob"
  BY <1>0 DEF Started, Stages, Over
<1>2. JobsTyped /\ OthersTyped /\ SubTyped /\ KnowsItsJobs(p) /\ SubmissionIsSound(p)
  BY <1>1, StartedFacts
<1>3. Grows /\ JobsTyped' /\ Founded /\ \A a : Spared(a)
  BY <1>0, <1>2, QuietGrows
<1>4. OthersTyped'
  BY <1>0, <1>2 DEF OthersTyped, JobDependencie
<1>5. /\ SubTyped' /\ OnlyMoves(p) /\ sub'[p].at = "told" /\ sub'[p].asked = sub[p].asked
      /\ sub'[p].array = sub[p].array /\ sub'[p].ids = sub[p].ids
  BY <1>0, <1>1, <1>2, GotoGoes
<1>6. KnowsItsJobs(p)'
  BY <1>0, <1>1, <1>2, <1>5 DEF KnowsItsJobs, Asked
<1>7. ArrayComplete(p)'
  BY <1>0, <1>2, <1>5 DEF SubmissionIsSound, ArrayComplete, Numbered, Asked
<1>8. SubmissionIsSound(p)'
  BY <1>5, <1>6, <1>7 DEF SubmissionIsSound, MembersAreKnown, NotReleasedYet, SubjobsInOrder,
       ArrayInserted, ArrayFilled, KeyStages, FillStages, Over
<1> QED
  BY <1>0, <1>1, <1>3, <1>4, <1>5, <1>8 DEF Keeps

(* The next job, with its rows and dependencies, in the array of the first *)
LEMMA InsertNextSubjobKeeps ==
  ASSUME IInv, NEW p \in Submitters, InsertNextSubjob(p)
  PROVE  Keeps(p)
<1>0. /\ sub[p].at = "subjob" /\ sub[p].ids # <<>> /\ Len(jobs) < MaxJobs
      /\ sub[p].at \in Started /\ sub[p].at \in KeyStages /\ sub[p].at \notin Over
  BY DEF InsertNextSubjob, Started, Stages, KeyStages, Over
<1>1. /\ JobsTyped /\ OthersTyped /\ SubTyped /\ KnowsItsJobs(p) /\ SubmissionIsSound(p)
      /\ Asked(p).n \in 1..MaxJobs /\ Asked(p).n \in Nat
      /\ Asked(p).after \subseteq DOMAIN jobs
      /\ Len(jobs) \in Nat /\ DOMAIN jobs = 1..Len(jobs)
      /\ sub[p].ids \in Seq(Nat) /\ Len(sub[p].ids) \in Nat
      /\ DOMAIN sub[p].ids = 1..Len(sub[p].ids)
  BY <1>0, StartedFacts
<1>2. PICK id \in Nat : id = Len(jobs) + 1
  BY <1>1
<1>3. PICK n \in Nat : n = Len(sub[p].ids) + 1
  BY <1>1
<1>4. PICK ids \in Seq(Nat) : ids = Append(sub[p].ids, id)
  BY <1>1, AppendProperties
<1>5. /\ Len(ids) = n /\ DOMAIN ids = 1..n /\ ids[n] = id
      /\ \A i \in DOMAIN sub[p].ids : ids[i] = sub[p].ids[i]
  BY <1>1, <1>3, <1>4, AppendProperties, LenProperties
<1>6. sub[p].array \in DOMAIN jobs /\ sub[p].array # 0
  BY <1>0, <1>1 DEF KnowsItsJobs
<1>7. n <= Asked(p).n
  <2>1. Len(sub[p].ids) < Asked(p).n
    BY <1>0, <1>1 DEF SubmissionIsSound, SubjobsInOrder
  <2> QED
    BY <1>1, <1>3, <2>1
<1>8. id \in Ids /\ n \in Ids /\ sub[p].array \in Ids /\ id \notin DOMAIN jobs
  BY <1>0, <1>1, <1>2, <1>3, <1>6, <1>7, BoundAssumption DEF Ids
<1>9. PICK row \in Job : row = [NewRow(p, id, sub[p].array, n) EXCEPT !.rows = Tables]
  BY <1>0, <1>1, <1>8, NewRowIsJob
<1>10. /\ row.state = "Hold" /\ row.array = sub[p].array /\ row.index = n /\ row.rows = Tables
       /\ row.wants = Asked(p).after /\ row.root = id /\ row.forced = FALSE
  BY <1>9 DEF NewRow, Asked
<1>11. PICK label \in {"release", "print", "subjob"} :
         label = IF ~Asked(p).hold THEN "release" ELSE IF n = Asked(p).n THEN "print" ELSE "subjob"
  OBVIOUS
<1>12. /\ jobs' = Append(jobs, row) /\ needs' = needs \cup ({id} \X Asked(p).after)
       /\ events' = events /\ round' = round
       /\ sub' = [sub EXCEPT ![p].ids = ids, ![p].at = label]
  BY <1>2, <1>4, <1>5, <1>9, <1>11 DEF InsertNextSubjob
<1>13. JobAdded(row)
  BY <1>1, <1>12, AppendAddsJob
<1>14. row.array \in 1..(Len(jobs) + 1) /\ row.root \in 1..(Len(jobs) + 1)
  BY <1>1, <1>2, <1>6, <1>10
<1>15. Grows /\ JobsTyped'
  <2>1. \A d \in needs : d \in needs'
    BY <1>12
  <2> QED
    BY <1>0, <1>1, <1>10, <1>13, <1>14, <2>1, JobGrows
<1>16. Len(jobs') = id /\ DOMAIN jobs' = 1..id /\ jobs'[id] = row /\ id >= 1
  BY <1>1, <1>2, <1>13 DEF JobAdded
<1>17. NeedsAll(id)'
  <2>1. \A k \in jobs'[id].wants : <<id, k>> \in needs'
    BY <1>10, <1>12, <1>16
  <2> QED
    BY <2>1, NeedsAreThere
<1>18. Founded
  BY <1>1, <1>2, <1>10, <1>13, <1>17, JobIsFounded
<1>19. \A a \in DOMAIN jobs : a # sub[p].array => Spared(a)
  BY <1>1, <1>10, <1>13, JobSpares
<1>20. OthersTyped'
  <2>1. DOMAIN jobs \subseteq DOMAIN jobs' /\ id \in DOMAIN jobs'
    BY <1>1, <1>2, <1>16
  <2>2. {id} \X Asked(p).after \subseteq (DOMAIN jobs') \X (DOMAIN jobs')
    BY <1>1, <2>1
  <2> QED
    BY <1>1, <1>12, <2>1, <2>2 DEF OthersTyped, JobDependencie
<1>21. SubTyped' /\ OnlyMoves(p)
  <2>1. label \in Stages
    BY DEF Stages, KeyStages
  <2> QED
    BY <1>1, <1>12, <2>1 DEF SubTyped, OnlyMoves
<1>22. /\ sub'[p].at = label /\ sub'[p].asked = sub[p].asked /\ sub'[p].array = sub[p].array
       /\ sub'[p].ids = ids
  BY <1>1, <1>12 DEF SubTyped
<1>23. ASSUME NEW i \in DOMAIN ids
       PROVE  i = n \/ (i \in DOMAIN sub[p].ids /\ ids[i] = sub[p].ids[i])
  BY <1>1, <1>3, <1>5
<1>24. label \in Started /\ label # "first" /\ (label = "subjob" => ids # <<>>)
  <2>1. ids # <<>>
    BY <1>4, AppendProperties, <1>1
  <2> QED
    BY <2>1 DEF Started, Stages, KeyStages, Over
<1>25. KnowsItsJobs(p)'
  <2>1. sub[p].array \in 0..Len(jobs')
    BY <1>1, <1>2, <1>6, <1>16
  <2>2. Asked(p) \in Requests[p] /\ Asked(p).after \subseteq DOMAIN jobs'
    BY <1>0, <1>1, <1>2, <1>16 DEF KnowsItsJobs
  <2>3. ASSUME NEW i \in DOMAIN ids
        PROVE  ids[i] \in DOMAIN jobs' /\ jobs'[ids[i]].array = sub[p].array /\ jobs'[ids[i]].root = ids[i]
    <3>1. CASE i = n
      BY <1>5, <1>10, <1>16, <3>1
    <3>2. CASE i \in DOMAIN sub[p].ids /\ ids[i] = sub[p].ids[i]
      <4>1. ids[i] \in DOMAIN jobs /\ jobs[ids[i]].array = sub[p].array /\ jobs[ids[i]].root = ids[i]
        BY <1>0, <1>1, <3>2 DEF KnowsItsJobs
      <4> QED
        BY <1>1, <1>2, <1>13, <1>16, <4>1 DEF JobAdded
    <3> QED
      BY <1>23, <3>1, <3>2
  <2> QED
    BY <1>6, <1>22, <1>24, <2>1, <2>2, <2>3 DEF KnowsItsJobs, Asked
<1>26. MembersAreKnown(p)'
  <2>1. \A j \in DOMAIN jobs' : j = id \/ (j \in DOMAIN jobs /\ jobs'[j] = jobs[j])
    BY <1>1, <1>2, <1>13, <1>16 DEF JobAdded
  <2>2. \A j \in Copies(p)' : j \in Copies(p) /\ jobs'[j] = jobs[j]
    BY <1>10, <1>16, <1>22, <2>1 DEF Copies, OfArray
  <2>3. \A j \in Originals(p)' : j = id \/ (j \in Originals(p) /\ jobs'[j] = jobs[j])
    BY <1>22, <2>1 DEF Originals, OfArray
  <2> QED
    BY <1>0, <1>1, <1>10, <1>16, <1>22, <2>2, <2>3 DEF SubmissionIsSound, MembersAreKnown, Asked
<1>27. ASSUME NEW i \in DOMAIN ids
       PROVE  /\ jobs'[ids[i]].index = i /\ jobs'[ids[i]].rows = Tables
              /\ jobs'[ids[i]].state = "Hold" => Asked(p).hold \/ i = n
  <2>1. CASE i = n
    BY <1>5, <1>10, <1>16, <2>1
  <2>2. CASE i \in DOMAIN sub[p].ids /\ ids[i] = sub[p].ids[i]
    BY <1>0, <1>15, <2>2, SubjobsStay DEF ToFill, ToRelease
  <2> QED
    BY <1>23, <2>1, <2>2
<1>28. SubmissionIsSound(p)'
  <2>1. CASE label = "release"
    <3>1. SubjobsInOrder(p)'
      BY <1>5, <1>7, <1>22, <1>27, <1>4, AppendProperties, <1>1, <2>1
         DEF SubjobsInOrder, SubjobIsFilled, ToFill, ToRelease, Asked
    <3>2. Unreleased(Last(sub[p].ids))'
      BY <1>5, <1>10, <1>16, <1>22 DEF Last, Unreleased
    <3> QED
      BY <1>22, <1>25, <1>26, <2>1, <3>1, <3>2, KeyStageIsSound DEF KeyStages
  <2>2. CASE Asked(p).hold /\ label = IF n = Asked(p).n THEN "print" ELSE "subjob"
    BY <1>1, <1>5, <1>7, <1>15, <1>21, <1>22, <1>25, <1>26, <1>27, <2>2, SubjobIsDone DEF Asked
  <2> QED
    BY <1>11, <2>1, <2>2
<1> QED
  BY <1>0, <1>12, <1>15, <1>18, <1>19, <1>20, <1>21, <1>22, <1>28 DEF Keeps

(* The first job of an array without keys *)
LEMMA InsertFirstKeeps ==
  ASSUME IInv, NEW p \in Submitters, InsertFirst(p)
  PROVE  Keeps(p)
<1>0. sub[p].at = "first" /\ sub[p].at \in Started /\ Len(jobs) < MaxJobs
  BY DEF InsertFirst, Started, Stages, Over
<1>1. /\ JobsTyped /\ OthersTyped /\ SubTyped /\ KnowsItsJobs(p) /\ SubmissionIsSound(p)
      /\ Asked(p).n \in 1..MaxJobs /\ Asked(p).n \in Nat
      /\ Asked(p).after \subseteq DOMAIN jobs
      /\ Len(jobs) \in Nat /\ DOMAIN jobs = 1..Len(jobs)
  BY <1>0, StartedFacts
<1>2. PICK id \in Nat : id = Len(jobs) + 1
  BY <1>1
<1>3. id \in Ids /\ 1 \in Ids /\ id \notin DOMAIN jobs
  BY <1>0, <1>1, <1>2, BoundAssumption DEF Ids
<1>4. PICK row \in Job : row = NewRow(p, id, id, 1)
  BY <1>0, <1>1, <1>3, NewRowIsJob
<1>5. /\ row.state = "Hold" /\ row.array = id /\ row.index = 1 /\ row.rows = {}
      /\ row.wants = Asked(p).after /\ row.root = id /\ row.forced = FALSE
  BY <1>4 DEF NewRow, Asked
<1>6. /\ jobs' = Append(jobs, row) /\ UNCHANGED <<needs, events, round>>
      /\ sub' = [sub EXCEPT ![p].at = "others", ![p].array = id]
  BY <1>2, <1>4 DEF InsertFirst
<1>7. JobAdded(row)
  BY <1>1, <1>6, AppendAddsJob
<1>8. Grows /\ JobsTyped'
  BY <1>0, <1>1, <1>2, <1>5, <1>6, <1>7, JobGrows
<1>9. Founded
  BY <1>1, <1>2, <1>5, <1>7, JobIsFounded
<1>10. \A a \in DOMAIN jobs : Spared(a)
  BY <1>1, <1>3, <1>5, <1>7, JobSpares
<1>11. OthersTyped'
  BY <1>1, <1>6, <1>8, DomainGrows DEF OthersTyped, JobDependencie
<1>12. SubTyped' /\ OnlyMoves(p)
  <2>1. "others" \in Stages
    BY DEF Stages
  <2> QED
    BY <1>1, <1>6, <2>1 DEF SubTyped, OnlyMoves
<1>13. sub[p].ids = <<>> /\ Asked(p).n > 1
  BY <1>0, <1>1 DEF SubmissionIsSound, ArrayInserted
<1>14. /\ sub'[p].at = "others" /\ sub'[p].asked = sub[p].asked /\ sub'[p].array = id
       /\ sub'[p].ids = <<>> /\ DOMAIN sub'[p].ids = {}
  BY <1>1, <1>6, <1>13 DEF SubTyped
<1>15. Len(jobs') = id /\ DOMAIN jobs' = 1..id /\ jobs'[id] = row /\ id >= 1
  BY <1>1, <1>2, <1>7 DEF JobAdded
<1>16. SubmissionIsSound(p)'
  <2>1. KnowsItsJobs(p)'
    <3>1. Asked(p) \in Requests[p] /\ Asked(p).after \subseteq DOMAIN jobs'
      BY <1>0, <1>1, <1>15, <1>2 DEF KnowsItsJobs
    <3>2. id \in 0..Len(jobs') /\ id # 0
      BY <1>15
    <3> QED
      BY <1>14, <3>1, <3>2 DEF KnowsItsJobs, Asked
  <2>2. OfArray(id)' = {id}
    <3>1. \A j \in DOMAIN jobs : jobs'[j].array # id
      BY <1>1, <1>3, <1>7, ArraysAreJobs DEF JobAdded
    <3>2. \A j \in DOMAIN jobs' : j \in DOMAIN jobs \/ j = id
      BY <1>1, <1>2, <1>15
    <3>3. id \in DOMAIN jobs'
      BY <1>15
    <3> QED
      BY <1>5, <1>15, <3>1, <3>2, <3>3 DEF OfArray
  <2>3. OfArray(sub[p].array)' = {id}
    BY <1>14, <2>2 DEF OfArray
  <2>4. Originals(p)' = {id} /\ Copies(p)' = {}
    BY <1>5, <1>15, <2>3 DEF Originals, Copies
  <2>5. MembersAreKnown(p)'
    BY <1>5, <1>14, <1>15, <2>4 DEF MembersAreKnown, Asked
  <2>6. NotReleasedYet(p)'
    BY <1>5, <1>14, <1>15, <2>3 DEF NotReleasedYet, Unreleased
  <2>7. ArrayInserted(p)'
    BY <1>5, <1>13, <1>14, <1>15, <2>4 DEF ArrayInserted, Asked
  <2> QED
    BY <1>14, <2>1, <2>5, <2>6, <2>7 DEF SubmissionIsSound, SubjobsInOrder, ArrayFilled,
       ArrayComplete, KeyStages, FillStages
<1> QED
  BY <1>0, <1>3, <1>6, <1>8, <1>9, <1>10, <1>11, <1>12, <1>14, <1>16 DEF Keeps

(* What NewRow says *)
LEMMA NewRowHas ==
  ASSUME NEW p, NEW id, NEW array, NEW index
  PROVE  /\ NewRow(p, id, array, index).state = "Hold" /\ NewRow(p, id, array, index).array = array
         /\ NewRow(p, id, array, index).index = index /\ NewRow(p, id, array, index).rows = {}
         /\ NewRow(p, id, array, index).wants = sub[p].asked.after
         /\ NewRow(p, id, array, index).root = id /\ ~NewRow(p, id, array, index).forced
<1> QED
  BY DEF NewRow

(* Several jobs more, on hold and in one array *)
JobsAdded(p, n) ==
  /\ jobs' \in Seq(Job) /\ Len(jobs') = Len(jobs) + n /\ DOMAIN jobs' = 1..(Len(jobs) + n)
  /\ \A j \in DOMAIN jobs : jobs'[j] = jobs[j]
  /\ \A j \in DOMAIN jobs' : j \notin DOMAIN jobs =>
       /\ j \in (Len(jobs) + 1)..(Len(jobs) + n)
       /\ jobs'[j].state = "Hold" /\ jobs'[j].array = sub[p].array /\ jobs'[j].index = j - Len(jobs) + 1
       /\ jobs'[j].rows = {} /\ jobs'[j].wants = Asked(p).after /\ jobs'[j].root = j
       /\ ~jobs'[j].forced

(* The other jobs of the array have the ids that follow those of the table *)
LEMMA OthersAreAdded ==
  ASSUME IInv, NEW p \in Submitters, sub[p].at = "others", NEW n \in Nat, n = Asked(p).n - 1,
         Len(jobs) + n <= MaxJobs,
         jobs' = jobs \o [i \in 1..n |-> NewRow(p, Len(jobs) + i, sub[p].array, i + 1)]
  PROVE  JobsAdded(p, n)
<1>0. sub[p].at \in Started
  BY DEF Started, Stages, Over
<1>1. /\ JobsTyped /\ KnowsItsJobs(p) /\ Asked(p).n \in 1..MaxJobs /\ Asked(p).n \in Nat
      /\ Len(jobs) \in Nat /\ DOMAIN jobs = 1..Len(jobs)
  BY <1>0, StartedFacts
<1>2. PICK l \in Nat : l = Len(jobs)
  BY <1>1
<1>3. sub[p].array \in Ids
  BY <1>0, <1>1, JobsAreRows DEF KnowsItsJobs
<1>4. \A i \in 1..n : l + i \in Ids /\ i + 1 \in Ids
  BY <1>1, <1>2, BoundAssumption DEF Ids
<1>5. PICK more : more = [i \in 1..n |-> NewRow(p, l + i, sub[p].array, i + 1)]
  OBVIOUS
<1>6. \A i \in 1..n : NewRow(p, l + i, sub[p].array, i + 1) \in Job
  BY <1>0, <1>1, <1>3, <1>4, NewRowIsJob
<1>7. more \in Seq(Job) /\ Len(more) = n /\ \A i \in 1..n : more[i] = NewRow(p, l + i, sub[p].array, i + 1)
  <2>1. more \in [1..n -> Job]
    BY <1>5, <1>6
  <2>2. more \in Seq(Job) /\ Len(more) = n
    <3>1. more \in Seq(Job)
      BY <2>1, SeqDef
    <3>2. DOMAIN more = 1..n
      BY <2>1
    <3> QED
      BY <3>1, <3>2, LenProperties
  <2>3. \A i \in 1..n : more[i] = NewRow(p, l + i, sub[p].array, i + 1)
    BY <1>5
  <2> QED
    BY <2>2, <2>3
<1>8. jobs \in Seq(Job) /\ jobs' = jobs \o more
  BY <1>1, <1>2, <1>5 DEF JobsTyped
<1>9. /\ jobs' \in Seq(Job) /\ Len(jobs') = l + n
      /\ \A i \in 1..(l + n) : jobs'[i] = IF i <= l THEN jobs[i] ELSE more[i - l]
  <2>1. /\ jobs \o more \in Seq(Job) /\ Len(jobs \o more) = Len(jobs) + Len(more)
        /\ \A i \in 1..(Len(jobs) + Len(more)) :
             (jobs \o more)[i] = IF i <= Len(jobs) THEN jobs[i] ELSE more[i - Len(jobs)]
    BY <1>7, <1>8, ConcatProperties
  <2>2. Len(jobs) = l /\ Len(more) = n /\ jobs' = jobs \o more
    BY <1>2, <1>7, <1>8
  <2> QED
    BY <2>1, <2>2
<1>10. DOMAIN jobs' = 1..(l + n)
  BY <1>9, LenProperties
<1>11. ASSUME NEW j \in DOMAIN jobs', j \notin DOMAIN jobs
       PROVE  /\ j \in (l + 1)..(l + n)
              /\ jobs'[j].state = "Hold" /\ jobs'[j].array = sub[p].array /\ jobs'[j].index = j - l + 1
              /\ jobs'[j].rows = {} /\ jobs'[j].wants = Asked(p).after /\ jobs'[j].root = j
              /\ ~jobs'[j].forced
  <2>1. j \in (l + 1)..(l + n) /\ j - l \in 1..n /\ l + (j - l) = j /\ ~(j <= l)
    BY <1>1, <1>2, <1>10, <1>11
  <2>2. PICK i \in 1..n : i = j - l /\ l + i = j /\ i + 1 = j - l + 1
    BY <2>1
  <2>3. jobs'[j] = more[i]
    BY <1>9, <1>10, <2>1, <2>2
  <2>4. more[i] = NewRow(p, l + i, sub[p].array, i + 1)
    BY <1>7
  <2>5. PICK k : k = j - l + 1
    OBVIOUS
  <2>6. PICK row : row = NewRow(p, j, sub[p].array, k)
    OBVIOUS
  <2>7. /\ row.state = "Hold" /\ row.array = sub[p].array /\ row.index = k
        /\ row.rows = {} /\ row.wants = sub[p].asked.after /\ row.root = j
        /\ ~row.forced
    BY <2>6, NewRowHas
  <2>8. jobs'[j] = row
    BY <2>2, <2>3, <2>4, <2>5, <2>6
  <2> QED
    BY <2>1, <2>5, <2>7, <2>8 DEF Asked
<1>12. \A j \in DOMAIN jobs : jobs'[j] = jobs[j]
  BY <1>1, <1>2, <1>9
<1> QED
  BY <1>2, <1>9, <1>10, <1>11, <1>12 DEF JobsAdded

(* They are as many as asked, whatever was inserted since the first one *)
LEMMA InsertOthersKeeps ==
  ASSUME IInv, NEW p \in Submitters, InsertOthers(p)
  PROVE  Keeps(p)
<1>0. sub[p].at = "others" /\ sub[p].at \in Started /\ sub[p].at \notin Over
  BY DEF InsertOthers, Started, Stages, Over
<1>1. /\ JobsTyped /\ OthersTyped /\ SubTyped /\ KnowsItsJobs(p) /\ SubmissionIsSound(p)
      /\ Asked(p).n \in 1..MaxJobs /\ Asked(p).n \in Nat
      /\ Asked(p).after \subseteq DOMAIN jobs
      /\ Len(jobs) \in Nat /\ DOMAIN jobs = 1..Len(jobs)
  BY <1>0, StartedFacts
<1>2. PICK n \in Nat : n = Asked(p).n - 1
  BY <1>1
<1>3. /\ Len(jobs) + n <= MaxJobs
      /\ jobs' = jobs \o [i \in 1..n |-> NewRow(p, Len(jobs) + i, sub[p].array, i + 1)]
      /\ Goto(p, "moldables") /\ UNCHANGED <<needs, events, round>>
  BY <1>1, <1>2, BoundAssumption DEF InsertOthers
<1>4. JobsAdded(p, n)
  BY <1>0, <1>2, <1>3, OthersAreAdded
<1>5. PICK l \in Nat : l = Len(jobs)
  BY <1>1
<1>6. PICK a : a = sub[p].array
  OBVIOUS
<1>7. a \in DOMAIN jobs /\ a # 0
  BY <1>0, <1>1, <1>6 DEF KnowsItsJobs
<1>8. /\ jobs' \in Seq(Job) /\ Len(jobs') = l + n /\ DOMAIN jobs' = 1..(l + n)
      /\ \A j \in DOMAIN jobs : jobs'[j] = jobs[j]
  BY <1>4, <1>5 DEF JobsAdded
<1>9. ASSUME NEW j \in DOMAIN jobs', j \notin DOMAIN jobs
      PROVE  /\ j \in (l + 1)..(l + n)
             /\ jobs'[j].state = "Hold" /\ jobs'[j].array = a /\ jobs'[j].index = j - l + 1
             /\ jobs'[j].rows = {} /\ jobs'[j].wants = Asked(p).after /\ jobs'[j].root = j
             /\ ~jobs'[j].forced
  BY <1>4, <1>5, <1>6, <1>9 DEF JobsAdded
<1>10. DOMAIN jobs \subseteq DOMAIN jobs' /\ l + n <= MaxJobs /\ l <= l + n
  BY <1>1, <1>3, <1>5, <1>8
<1>11. Grows
  <2>1. \A d \in needs : d \in needs'
    BY <1>3
  <2> QED
    BY <1>5, <1>8, <1>10, <2>1 DEF Grows, SameOrigin
<1>12. JobsTyped'
  <2> SUFFICES ASSUME NEW j \in DOMAIN jobs'
               PROVE  /\ jobs'[j].array \in DOMAIN jobs' /\ jobs'[j].root \in DOMAIN jobs'
                      /\ jobs'[j].wants \subseteq DOMAIN jobs'
    BY <1>8, <1>10 DEF JobsTyped
  <2>1. CASE j \in DOMAIN jobs
    BY <1>1, <1>8, <1>10, <2>1 DEF JobsTyped
  <2>2. CASE j \notin DOMAIN jobs
    BY <1>1, <1>7, <1>9, <1>10, <2>2
  <2> QED
    BY <2>1, <2>2
<1>13. Founded
  BY <1>8, <1>9 DEF Founded
<1>14. ASSUME NEW b, b # a
       PROVE  Spared(b)
  BY <1>8, <1>9, <1>14 DEF Spared, Unreleased
<1>15. OthersTyped'
  BY <1>1, <1>3, <1>10 DEF OthersTyped, JobDependencie
<1>16. /\ SubTyped' /\ OnlyMoves(p) /\ sub'[p].at = "moldables" /\ sub'[p].asked = sub[p].asked
       /\ sub'[p].array = a /\ sub'[p].ids = sub[p].ids
  BY <1>1, <1>3, <1>6, GotoGoes DEF Stages
<1>17. sub[p].ids = <<>> /\ Asked(p).n > 1 /\ Originals(p) = {a} /\ jobs[a].index = 1
  BY <1>0, <1>1, <1>6 DEF SubmissionIsSound, ArrayInserted
<1>18. ASSUME NEW j \in OfArray(a)'
       PROVE  j \in DOMAIN jobs' /\ (j \in OfArray(a) \/ j \notin DOMAIN jobs)
  BY <1>8 DEF OfArray
<1>19. Originals(p)' = {a} \cup ((l + 1)..(l + n))
  <2>1. ASSUME NEW j \in Originals(p)'
        PROVE  j \in {a} \cup ((l + 1)..(l + n))
    <3>1. j \in OfArray(a)' /\ jobs'[j].root = j
      BY <1>16 DEF Originals, OfArray
    <3>2. CASE j \in OfArray(a)
      BY <1>6, <1>8, <1>17, <3>1, <3>2 DEF Originals, OfArray
    <3> QED
      BY <1>9, <1>18, <3>1, <3>2
  <2>2. ASSUME NEW j \in (l + 1)..(l + n)
        PROVE  j \in Originals(p)'
    <3>1. j \in DOMAIN jobs' /\ j \notin DOMAIN jobs
      BY <1>1, <1>5, <1>8
    <3> QED
      BY <1>9, <1>16, <3>1 DEF Originals, OfArray
  <2>3. a \in Originals(p)'
    BY <1>6, <1>7, <1>8, <1>10, <1>16, <1>17 DEF Originals, OfArray
  <2> QED
    BY <2>1, <2>2, <2>3
<1>20. \A j \in Copies(p)' : j \in Copies(p) /\ jobs'[j] = jobs[j]
  BY <1>6, <1>8, <1>9, <1>16, <1>18 DEF Copies, OfArray
<1>21. KnowsItsJobs(p)'
  <2>1. Asked(p) \in Requests[p] /\ Asked(p).after \subseteq DOMAIN jobs'
    BY <1>0, <1>1, <1>10 DEF KnowsItsJobs
  <2>2. a \in 0..Len(jobs') /\ a # 0
    BY <1>1, <1>5, <1>7, <1>8
  <2>3. DOMAIN sub'[p].ids = {}
    BY <1>16, <1>17
  <2> QED
    BY <1>16, <2>1, <2>2, <2>3 DEF KnowsItsJobs, Asked
<1>22. MembersAreKnown(p)'
  <2>1. \A j \in Originals(p)' : jobs'[j].wants = Asked(p).after
    <3>1. \A j \in (l + 1)..(l + n) : j \in DOMAIN jobs' /\ j \notin DOMAIN jobs
      BY <1>1, <1>5, <1>8
    <3>2. jobs'[a].wants = Asked(p).after
      BY <1>0, <1>1, <1>7, <1>8, <1>17 DEF SubmissionIsSound, MembersAreKnown
    <3> QED
      BY <1>9, <1>19, <3>1, <3>2
  <2>2. \A j \in Copies(p)' : jobs'[j].forced
    BY <1>0, <1>1, <1>20 DEF SubmissionIsSound, MembersAreKnown
  <2> QED
    BY <1>16, <2>1, <2>2 DEF MembersAreKnown, Asked
<1>23. NotReleasedYet(p)'
  <2>1. ASSUME NEW j \in OfArray(a)'
        PROVE  Unreleased(j)'
    <3>1. CASE j \in OfArray(a)
      <4>1. Unreleased(j)
        BY <1>0, <1>1, <1>6, <3>1 DEF SubmissionIsSound, NotReleasedYet
      <4> QED
        BY <1>8, <3>1, <4>1 DEF OfArray, Unreleased
    <3>2. CASE j \notin DOMAIN jobs
      BY <1>9, <1>18, <3>2 DEF Unreleased
    <3> QED
      BY <1>18, <3>1, <3>2
  <2> QED
    BY <1>16, <2>1 DEF NotReleasedYet, OfArray
<1>24. Numbered(p, Originals(p))'
  <2>1. IsFiniteSet((l + 1)..(l + n)) /\ Cardinality((l + 1)..(l + n)) = n
    BY FS_Interval
  <2>2. a \notin (l + 1)..(l + n)
    BY <1>1, <1>5, <1>7
  <2>3. /\ IsFiniteSet(((l + 1)..(l + n)) \cup {a})
        /\ Cardinality(((l + 1)..(l + n)) \cup {a}) = n + 1
    BY <2>1, <2>2, FS_AddElement
  <2>4. IsFiniteSet(Originals(p)') /\ Cardinality(Originals(p)') = n + 1
    <3>1. Originals(p)' = ((l + 1)..(l + n)) \cup {a}
      BY <1>19
    <3> QED
      BY <2>3, <3>1
  <2>5. ASSUME NEW j \in (l + 1)..(l + n)
        PROVE  jobs'[j].index = j - l + 1
    <3>1. j \in DOMAIN jobs' /\ j \notin DOMAIN jobs
      BY <1>1, <1>5, <1>8
    <3> QED
      BY <1>9, <3>1
  <2>6. jobs'[a].index = 1
    BY <1>7, <1>8, <1>17
  <2>7. {jobs'[j].index : j \in Originals(p)'} = 1..(n + 1)
    <3>1. ASSUME NEW x \in 1..(n + 1)
          PROVE  \E j \in Originals(p)' : jobs'[j].index = x
      <4>1. CASE x = 1
        BY <1>19, <2>6, <4>1
      <4>2. CASE x # 1
        <5>1. PICK j \in (l + 1)..(l + n) : j = x + l - 1 /\ j - l + 1 = x
          BY <4>2
        <5>2. jobs'[j].index = x /\ j \in Originals(p)'
          BY <1>19, <2>5, <5>1
        <5> QED
          BY <5>2
      <4> QED
        BY <4>1, <4>2
    <3>2. ASSUME NEW j \in Originals(p)'
          PROVE  jobs'[j].index \in 1..(n + 1)
      BY <1>19, <2>5, <2>6
    <3> QED
      BY <3>1, <3>2
  <2> QED
    BY <1>1, <1>2, <1>16, <2>4, <2>7 DEF Numbered, Asked
<1>25. ArrayInserted(p)'
  <2>1. \A j \in Copies(p)' : "challenge" \in jobs'[j].rows
    BY <1>0, <1>1, <1>20 DEF SubmissionIsSound, ArrayInserted
  <2> QED
    BY <1>16, <1>17, <1>24, <2>1 DEF ArrayInserted, Asked
<1>26. SubmissionIsSound(p)'
  BY <1>16, <1>21, <1>22, <1>23, <1>25 DEF SubmissionIsSound, SubjobsInOrder, ArrayFilled,
     ArrayComplete, KeyStages, FillStages
<1> QED
  BY <1>0, <1>3, <1>6, <1>11, <1>12, <1>13, <1>14, <1>15, <1>16, <1>26 DEF Keeps

(* The members of a finite set in some order *)
LEMMA SetIsListed ==
  ASSUME NEW S, IsFiniteSet(S)
  PROVE  SetToSeq(S) \in Seq(S) /\ ToSet(SetToSeq(S)) = S
<1>1. PICK n \in Nat : n = Cardinality(S)
  BY FS_CardinalityType
<1>2. PICK f \in Bijection(1..n, S) : TRUE
  BY <1>1, FS_CardinalityType DEF ExistsBijection
<1>3. f \in [1..n -> S] /\ IsInjective(f)
  BY <1>2 DEF Bijection, Injection
<1>4. PICK s : s = SetToSeq(S)
  OBVIOUS
<1>5. s \in [1..n -> S] /\ IsInjective(s)
  BY <1>1, <1>3, <1>4 DEF SetToSeq
<1>6. s \in Injection(1..n, S)
  BY <1>5 DEF Injection
<1>7. Cardinality(1..n) = Cardinality(S)
  BY <1>1, FS_Interval
<1>8. s \in Surjection(1..n, S)
  BY <1>6, <1>7, FS_Injection
<1>9. \A x \in S : \E i \in 1..n : s[i] = x
  BY <1>8 DEF Surjection
<1>10. s \in Seq(S) /\ DOMAIN s = 1..n
  BY <1>5, SeqDef
<1>11. ToSet(s) = S
  BY <1>5, <1>9, <1>10 DEF ToSet
<1> QED
  BY <1>4, <1>10, <1>11

(* What is known of an oarsub that fills an array *)
LEMMA ArrayFacts ==
  ASSUME IInv, NEW p \in Submitters, sub[p].at \in FillStages \cup {"moldables"}
  PROVE  /\ sub[p].at \in Started /\ sub[p].at \notin Over \cup {"first"}
         /\ sub[p].array \in DOMAIN jobs /\ sub[p].array # 0
         /\ Numbered(p, Originals(p)) /\ Originals(p) \subseteq DOMAIN jobs
         /\ sub[p].at \in FillStages => ToSet(sub[p].ids) = Originals(p)
         /\ \A j \in Originals(p) : /\ jobs[j].array = sub[p].array /\ jobs[j].root = j
                                    /\ jobs[j].wants = Asked(p).after
         /\ \A j \in OfArray(sub[p].array) :
              /\ j \in DOMAIN jobs /\ jobs[j].array = sub[p].array
              /\ j \in Originals(p) \/ jobs[j].forced
<1>1. sub[p].at \in Started /\ sub[p].at \notin Over \cup {"first"} /\ sub[p].at # "subjob"
  BY DEF Started, Stages, FillStages, Over
<1>2. JobsTyped /\ KnowsItsJobs(p) /\ SubmissionIsSound(p) /\ DOMAIN jobs = 1..Len(jobs) /\ Len(jobs) \in Nat
  BY <1>1, StartedFacts
<1>3. sub[p].array \in DOMAIN jobs /\ sub[p].array # 0
  BY <1>1, <1>2 DEF KnowsItsJobs
<1>4. Numbered(p, Originals(p))
  BY <1>2 DEF SubmissionIsSound, ArrayInserted, ArrayFilled
<1>5. sub[p].at \in FillStages => ToSet(sub[p].ids) = Originals(p)
  BY <1>2 DEF SubmissionIsSound, ArrayFilled
<1>6. \A j \in Originals(p) : /\ j \in DOMAIN jobs
                              /\ jobs[j].array = sub[p].array /\ jobs[j].root = j
                              /\ jobs[j].wants = Asked(p).after
  BY <1>1, <1>2 DEF SubmissionIsSound, MembersAreKnown, Originals, OfArray
<1>7. \A j \in OfArray(sub[p].array) :
        /\ j \in DOMAIN jobs /\ jobs[j].array = sub[p].array
        /\ j \in Originals(p) \/ jobs[j].forced
  BY <1>1, <1>2 DEF SubmissionIsSound, MembersAreKnown, Originals, Copies, OfArray
<1> QED
  BY <1>1, <1>3, <1>4, <1>5, <1>6, <1>7

(* A table more is filled *)
LEMMA FillStageIsSound ==
  ASSUME IInv, NEW p \in Submitters, sub[p].at \in FillStages \cup {"moldables"},
         sub'[p].at \in FillStages, Grows, sub'[p].asked = sub[p].asked,
         KnowsItsJobs(p)', MembersAreKnown(p)',
         Originals(p)' = Originals(p), OfArray(sub[p].array)' = OfArray(sub[p].array),
         sub'[p].array = sub[p].array, ToSet(sub'[p].ids) = Originals(p),
         \A j \in Originals(p) :
           /\ Filled(sub'[p].at) \subseteq jobs'[j].rows
           /\ sub'[p].at \in {"state", "logs"} => NeedsAll(j)'
           /\ sub'[p].at = "logs" /\ jobs'[j].state = "Hold" => Asked(p).hold,
         sub'[p].at # "logs" => \A j \in OfArray(sub[p].array) : Unreleased(j)'
  PROVE  SubmissionIsSound(p)'
<1>1. JobsTyped /\ Numbered(p, Originals(p)) /\ Originals(p) \subseteq DOMAIN jobs
  BY ArrayFacts DEF IInv
<1>2. Numbered(p, Originals(p))'
  BY <1>1, NumberedStays DEF Numbered, Asked
<1>3. ArrayFilled(p)'
  BY <1>2 DEF ArrayFilled, Asked
<1>4. NotReleasedYet(p)'
  <2>1. sub'[p].at \notin {"fill", "release", "others", "moldables"}
    BY DEF FillStages
  <2>2. sub'[p].at # "logs" => \A j \in OfArray(sub[p].array)' : Unreleased(j)'
    OBVIOUS
  <2>3. OfArray(sub[p].array)' = {j \in DOMAIN jobs' : jobs'[j].array = sub[p].array}
    BY DEF OfArray
  <2> QED
    BY <2>1, <2>2 DEF NotReleasedYet, OfArray
<1> QED
  BY <1>3, <1>4 DEF SubmissionIsSound, SubjobsInOrder, ArrayInserted, ArrayComplete, KeyStages,
     FillStages

(* Those of the array are not released before the logs are to be written *)
LEMMA ArrayIsUnreleased ==
  ASSUME IInv, NEW p \in Submitters, sub[p].at \in (FillStages \ {"logs"}) \cup {"moldables"},
         NEW j \in OfArray(sub[p].array)
  PROVE  Unreleased(j)
<1>1. sub[p].at \in Started
  BY DEF Started, Stages, FillStages, Over
<1>2. SubmissionIsSound(p)
  BY <1>1, StartedFacts
<1> QED
  BY <1>2 DEF SubmissionIsSound, NotReleasedYet

(* What is filled of those that oarsub inserts *)
LEMMA OriginalsAreFilled ==
  ASSUME IInv, NEW p \in Submitters, sub[p].at \in FillStages, NEW j \in Originals(p)
  PROVE  /\ Filled(sub[p].at) \subseteq jobs[j].rows
         /\ sub[p].at \in {"state", "logs"} => NeedsAll(j)
         /\ sub[p].at = "logs" /\ jobs[j].state = "Hold" => Asked(p).hold
<1>1. sub[p].at \in Started
  BY DEF Started, Stages, FillStages, Over
<1>2. SubmissionIsSound(p)
  BY <1>1, StartedFacts
<1> QED
  BY <1>2 DEF SubmissionIsSound, ArrayFilled

(* When no job of the array has a challenge, none is a copy, and the ids are known *)
LEMMA InsertMoldablesKeeps ==
  ASSUME IInv, NEW p \in Submitters, InsertMoldables(p)
  PROVE  Keeps(p)
<1>0. sub[p].at = "moldables"
  BY DEF InsertMoldables
<1>1. CASE sub' = [sub EXCEPT ![p] = At("gone")] /\ UNCHANGED jobs
  BY <1>1, EndKeeps DEF InsertMoldables
<1>2. ASSUME \A j \in OfArray(sub[p].array) : "challenge" \notin jobs[j].rows,
             jobs' = With(OfArray(sub[p].array), {"challenge", "moldable"}),
             sub' = [sub EXCEPT ![p].at = "groups", ![p].ids = SetToSeq(OfArray(sub[p].array))],
             UNCHANGED <<needs, events, round>>
      PROVE  Keeps(p)
  <2>1. /\ sub[p].at \in Started /\ sub[p].at \notin Over \cup {"first"}
        /\ sub[p].array \in DOMAIN jobs /\ sub[p].array # 0
        /\ IsFiniteSet(Originals(p)) /\ Originals(p) \subseteq DOMAIN jobs
        /\ \A j \in Originals(p) : jobs[j].array = sub[p].array /\ jobs[j].root = j
    BY <1>0, ArrayFacts DEF Numbered
  <2>2. /\ JobsTyped /\ OthersTyped /\ SubTyped /\ KnowsItsJobs(p) /\ SubmissionIsSound(p)
        /\ Len(jobs) \in Nat /\ DOMAIN jobs = 1..Len(jobs)
    BY <2>1, StartedFacts
  <2>3. OfArray(sub[p].array) = Originals(p)
    <3>1. \A j \in Copies(p) : "challenge" \in jobs[j].rows
      BY <1>0, <2>2 DEF SubmissionIsSound, ArrayInserted
    <3> QED
      BY <1>2, <3>1 DEF Originals, Copies
  <2>4. PICK ids : ids = SetToSeq(Originals(p))
    OBVIOUS
  <2>5. ids \in Seq(Originals(p)) /\ ToSet(ids) = Originals(p)
    BY <2>1, <2>4, SetIsListed
  <2>6. ids \in Seq(Nat) /\ \A i \in DOMAIN ids : ids[i] \in Originals(p)
    <3>1. Originals(p) \subseteq Nat
      BY <2>1, <2>2
    <3>2. \A i \in DOMAIN ids : ids[i] \in Originals(p)
      BY <2>5, ElementOfSeq, LenProperties
    <3> QED
      BY <2>5, <3>1, <3>2, SeqMonotonic
  <2>7. RowsAdded(Originals(p), {"challenge", "moldable"})
    BY <1>2, <2>2, <2>3, WithAddsRows DEF Tables
  <2>8. Grows /\ JobsTyped' /\ Founded /\ \A a : Spared(a)
    BY <1>2, <2>2, <2>7, RowsGrow DEF Tables
  <2>9. DOMAIN jobs' = DOMAIN jobs /\ Len(jobs') = Len(jobs)
    BY <2>7 DEF RowsAdded, SameJobs
  <2>10. OthersTyped'
    BY <1>2, <2>2, <2>9 DEF OthersTyped, JobDependencie
  <2>11. SubTyped' /\ OnlyMoves(p)
    <3>1. "groups" \in Stages
      BY DEF Stages, FillStages
    <3> QED
      BY <1>2, <2>2, <2>3, <2>4, <2>6, <3>1 DEF SubTyped, OnlyMoves
  <2>12. /\ sub'[p].at = "groups" /\ sub'[p].asked = sub[p].asked /\ sub'[p].array = sub[p].array
         /\ sub'[p].ids = ids
    BY <1>2, <2>2, <2>3, <2>4 DEF SubTyped
  <2>13. \A j \in DOMAIN jobs : SameOrigin(j) /\ (jobs[j].forced => jobs'[j].forced)
    BY <2>8 DEF Grows
  <2>14. Originals(p)' = Originals(p) /\ OfArray(sub[p].array)' = OfArray(sub[p].array)
    BY <2>9, <2>12, <2>13 DEF Originals, OfArray, SameOrigin
  <2>15. KnowsItsJobs(p)'
    <3>1. sub[p].array \in 0..Len(jobs')
      BY <2>1, <2>2, <2>9
    <3>2. ASSUME NEW i \in DOMAIN ids
          PROVE  ids[i] \in DOMAIN jobs' /\ jobs'[ids[i]].array = sub[p].array /\ jobs'[ids[i]].root = ids[i]
      <4>1. ids[i] \in Originals(p)
        BY <2>6
      <4> QED
        BY <2>1, <2>9, <2>13, <4>1 DEF SameOrigin
    <3>3. Asked(p) \in Requests[p] /\ Asked(p).after \subseteq DOMAIN jobs'
      BY <2>1, <2>2, <2>9 DEF KnowsItsJobs
    <3> QED
      BY <2>1, <2>12, <3>1, <3>2, <3>3 DEF KnowsItsJobs, Asked
  <2>16. MembersAreKnown(p)'
    <3>1. \A j \in Copies(p)' : j \in Copies(p) /\ j \in DOMAIN jobs
      BY <2>9, <2>12, <2>13 DEF Copies, OfArray, SameOrigin
    <3>2. \A j \in Copies(p)' : jobs'[j].forced
      BY <2>1, <2>2, <2>13, <3>1 DEF SubmissionIsSound, MembersAreKnown
    <3>3. \A j \in Originals(p)' : jobs'[j].wants = Asked(p).after
      BY <2>1, <2>2, <2>13, <2>14 DEF SubmissionIsSound, MembersAreKnown, SameOrigin
    <3> QED
      BY <2>12, <3>2, <3>3 DEF MembersAreKnown, Asked
  <2>17. ASSUME NEW j \in Originals(p)
         PROVE  Filled("groups") \subseteq jobs'[j].rows
    BY <2>1, <2>7 DEF RowsAdded, Filled
  <2>18. ASSUME NEW j \in OfArray(sub[p].array)
         PROVE  Unreleased(j)'
    <3>1. Unreleased(j) /\ j \in DOMAIN jobs
      BY <1>0, ArrayIsUnreleased DEF OfArray
    <3> QED
      BY <2>7, <3>1 DEF RowsAdded, Unreleased
  <2>19. SubmissionIsSound(p)'
    BY <1>0, <2>5, <2>8, <2>12, <2>14, <2>15, <2>16, <2>17, <2>18, FillStageIsSound DEF FillStages
  <2> QED
    BY <1>2, <2>1, <2>8, <2>10, <2>11, <2>12, <2>19 DEF Keeps
<1> QED
  BY <1>1, <1>2 DEF InsertMoldables

(* A fill stage that moves on and keeps what it knows *)
LEMMA FillStepIsSound ==
  ASSUME IInv, NEW p \in Submitters, sub[p].at \in FillStages,
         NEW label \in FillStages, Goto(p, label), Grows, DOMAIN jobs' = DOMAIN jobs,
         \A j \in Originals(p) :
           /\ Filled(label) \subseteq jobs'[j].rows
           /\ label \in {"state", "logs"} => NeedsAll(j)'
           /\ label = "logs" /\ jobs'[j].state = "Hold" => Asked(p).hold,
         label # "logs" => \A j \in OfArray(sub[p].array) : Unreleased(j)'
  PROVE  /\ SubTyped' /\ OnlyMoves(p) /\ sub'[p].array = sub[p].array /\ sub[p].at \in Started
         /\ SubmissionIsSound(p)'
<1>1. /\ sub[p].at \in Started /\ sub[p].at \notin Over \cup {"first"} /\ sub[p].array # 0
      /\ ToSet(sub[p].ids) = Originals(p)
  BY ArrayFacts
<1>2. JobsTyped /\ SubTyped /\ KnowsItsJobs(p) /\ SubmissionIsSound(p)
  BY <1>1, StartedFacts
<1>3. label \in Stages /\ label \in Started \ {"first"} /\ label # "subjob"
  BY DEF Started, Stages, FillStages, Over
<1>4. /\ SubTyped' /\ OnlyMoves(p) /\ sub'[p].at = label /\ sub'[p].asked = sub[p].asked
      /\ sub'[p].array = sub[p].array /\ sub'[p].ids = sub[p].ids
  BY <1>2, <1>3, GotoGoes
<1>5. /\ KnowsItsJobs(p)' /\ MembersAreKnown(p)'
      /\ Originals(p)' = Originals(p) /\ OfArray(sub[p].array)' = OfArray(sub[p].array)
  BY <1>1, <1>2, <1>3, <1>4, KnownStays DEF SubmissionIsSound
<1>6. SubmissionIsSound(p)'
  BY <1>1, <1>4, <1>5, FillStageIsSound
<1> QED
  BY <1>1, <1>4, <1>6

(* A table more for each job of the array *)
LEMMA InsertTableKeeps ==
  ASSUME IInv, NEW p \in Submitters, InsertTable(p)
  PROVE  Keeps(p)
<1>0. sub[p].at \in {"groups", "descriptions", "types"}
  BY DEF InsertTable, NextTable
<1>1. PICK table \in Tables : table = NextTable[sub[p].at]
  BY <1>0 DEF NextTable, Tables
<1>2. PICK label \in {"descriptions", "types", "needs"} : label = AfterTable[sub[p].at]
  BY <1>0 DEF AfterTable
<1>3. /\ sub[p].at = "groups" => table = "group" /\ label = "descriptions"
      /\ sub[p].at = "descriptions" => table = "description" /\ label = "types"
      /\ sub[p].at = "types" => table = "type" /\ label = "needs"
  BY <1>1, <1>2 DEF NextTable, AfterTable
<1>4. sub[p].at \in FillStages /\ label \in FillStages
  BY <1>0 DEF FillStages
<1>5. ToSet(sub[p].ids) = Originals(p) /\ sub[p].at \in Started /\ Originals(p) \subseteq DOMAIN jobs
  BY <1>4, ArrayFacts
<1>6. JobsTyped /\ OthersTyped
  BY DEF IInv
<1>7. jobs' = With(Originals(p), {table}) /\ Goto(p, label) /\ UNCHANGED <<needs, events, round>>
  BY <1>1, <1>2, <1>5 DEF InsertTable
<1>8. RowsAdded(Originals(p), {table})
  BY <1>6, <1>7, WithAddsRows
<1>9. "log" \notin {table}
  BY <1>0, <1>3
<1>10. Grows /\ JobsTyped' /\ Founded /\ \A a : Spared(a)
  BY <1>6, <1>7, <1>8, <1>9, RowsGrow
<1>11. DOMAIN jobs' = DOMAIN jobs
  BY <1>8 DEF RowsAdded, SameJobs
<1>12. OthersTyped'
  BY <1>6, <1>7, <1>11 DEF OthersTyped, JobDependencie
<1>13. ASSUME NEW j \in Originals(p)
       PROVE  Filled(label) \subseteq jobs'[j].rows
  <2>1. Filled(sub[p].at) \subseteq jobs[j].rows
    BY <1>4, OriginalsAreFilled
  <2>2. jobs'[j].rows = jobs[j].rows \cup {table}
    BY <1>5, <1>8 DEF RowsAdded
  <2>3. Filled(label) \subseteq Filled(sub[p].at) \cup {table}
    BY <1>0, <1>3 DEF Filled
  <2> QED
    BY <2>1, <2>2, <2>3
<1>14. ASSUME NEW j \in OfArray(sub[p].array)
       PROVE  Unreleased(j)'
  <2>1. Unreleased(j) /\ j \in DOMAIN jobs
    BY <1>0, <1>4, ArrayIsUnreleased DEF OfArray
  <2> QED
    BY <1>8, <2>1 DEF RowsAdded, Unreleased
<1>15. label \notin {"state", "logs"}
  OBVIOUS
<1>16. /\ SubTyped' /\ OnlyMoves(p) /\ sub'[p].array = sub[p].array
       /\ SubmissionIsSound(p)'
  BY <1>4, <1>7, <1>10, <1>11, <1>13, <1>14, <1>15, FillStepIsSound
<1> QED
  BY <1>5, <1>7, <1>10, <1>12, <1>16 DEF Keeps

(* The dependencies of each job of the array *)
LEMMA InsertNeedsKeeps ==
  ASSUME IInv, NEW p \in Submitters, InsertNeeds(p)
  PROVE  Keeps(p)
<1>0. sub[p].at = "needs" /\ sub[p].at \in FillStages
  BY DEF InsertNeeds, FillStages
<1>1. /\ ToSet(sub[p].ids) = Originals(p) /\ sub[p].at \in Started /\ Originals(p) \subseteq DOMAIN jobs
      /\ \A j \in Originals(p) : jobs[j].wants = Asked(p).after
  BY <1>0, ArrayFacts
<1>2. /\ JobsTyped /\ OthersTyped /\ KnowsItsJobs(p) /\ Asked(p).after \subseteq DOMAIN jobs
  BY <1>1, StartedFacts
<1>3. PICK label \in {"logs", "state"} : label = IF Asked(p).hold THEN "logs" ELSE "state"
  OBVIOUS
<1>4. label \in FillStages
  BY DEF FillStages
<1>5. /\ needs' = needs \cup (Originals(p) \X Asked(p).after) /\ Goto(p, label)
      /\ UNCHANGED <<jobs, events, round>>
  BY <1>1, <1>3 DEF InsertNeeds
<1>6. Grows /\ JobsTyped' /\ Founded /\ \A a : Spared(a)
  BY <1>2, <1>5, QuietGrows
<1>7. OthersTyped'
  <2>1. Originals(p) \X Asked(p).after \subseteq JobDependencie
    BY <1>1, <1>2 DEF JobDependencie
  <2> QED
    BY <1>2, <1>5, <2>1 DEF OthersTyped, JobDependencie
<1>8. ASSUME NEW j \in Originals(p)
      PROVE  /\ Filled(label) \subseteq jobs'[j].rows
             /\ NeedsAll(j)'
             /\ label = "logs" /\ jobs'[j].state = "Hold" => Asked(p).hold
  <2>1. Filled(label) = Filled("needs")
    BY DEF Filled
  <2>2. Filled("needs") \subseteq jobs[j].rows
    BY <1>0, OriginalsAreFilled
  <2>3. \A k \in jobs'[j].wants : <<j, k>> \in needs'
    BY <1>1, <1>5
  <2>4. NeedsAll(j)'
    BY <2>3, NeedsAreThere
  <2> QED
    BY <1>3, <1>5, <2>1, <2>2, <2>4
<1>9. ASSUME NEW j \in OfArray(sub[p].array)
      PROVE  Unreleased(j)'
  <2>1. Unreleased(j)
    BY <1>0, ArrayIsUnreleased
  <2> QED
    BY <1>5, <2>1 DEF Unreleased
<1>10. /\ SubTyped' /\ OnlyMoves(p) /\ sub'[p].array = sub[p].array
       /\ SubmissionIsSound(p)'
  BY <1>0, <1>4, <1>5, <1>6, <1>8, <1>9, FillStepIsSound
<1> QED
  BY <1>1, <1>5, <1>6, <1>7, <1>10 DEF Keeps

(* The jobs that are released have their rows and dependencies, or are copies *)
LEMMA ReleaseArrayKeeps ==
  ASSUME IInv, NEW p \in Submitters, ReleaseArray(p)
  PROVE  Keeps(p)
<1>0. sub[p].at = "state" /\ sub[p].at \in FillStages /\ "logs" \in FillStages
  BY DEF ReleaseArray, FillStages
<1>1. /\ sub[p].at \in Started /\ Originals(p) \subseteq DOMAIN jobs /\ sub[p].array \in DOMAIN jobs
      /\ \A j \in OfArray(sub[p].array) : /\ j \in DOMAIN jobs /\ jobs[j].array = sub[p].array
                                          /\ j \in Originals(p) \/ jobs[j].forced
  BY <1>0, ArrayFacts
<1>2. JobsTyped /\ OthersTyped
  BY DEF IInv
<1>3. /\ jobs' = WithState(OfArray(sub[p].array), "Waiting") /\ Goto(p, "logs")
      /\ UNCHANGED <<needs, events, round>>
  BY DEF ReleaseArray
<1>4. StatesSet(OfArray(sub[p].array), "Waiting")
  BY <1>2, <1>3, WithStateSetsStates
<1>5. \A j \in OfArray(sub[p].array) : jobs[j].state = "Terminated" => jobs[j].forced
  BY <1>0, ArrayIsUnreleased DEF Unreleased
<1>6. Grows /\ JobsTyped'
  BY <1>2, <1>3, <1>4, <1>5, StatesGrow
<1>7. ASSUME NEW j \in Originals(p)
      PROVE  Filled("state") \subseteq jobs[j].rows /\ Described(j) /\ NeedsAll(j)
  <2>1. Filled("state") \subseteq jobs[j].rows /\ NeedsAll(j)
    BY <1>0, OriginalsAreFilled
  <2>2. Parts \subseteq Filled("state")
    BY DEF Parts, Filled
  <2> QED
    BY <2>1, <2>2 DEF Described
<1>8. Founded
  <2>1. \A j \in OfArray(sub[p].array) \cap DOMAIN jobs :
          jobs[j].forced \/ (Described(j) /\ (jobs[j].root = j => NeedsAll(j)))
    BY <1>1, <1>7
  <2> QED
    BY <1>2, <1>4, <1>6, <2>1, ReleasedIsFounded
<1>9. ASSUME NEW a, a # sub[p].array
      PROVE  Spared(a)
  BY <1>1, <1>4, <1>9 DEF Spared, StatesSet, SameJobs, SameOrigin, Unreleased
<1>10. DOMAIN jobs' = DOMAIN jobs
  BY <1>4 DEF StatesSet, SameJobs
<1>11. OthersTyped'
  BY <1>2, <1>3, <1>10 DEF OthersTyped, JobDependencie
<1>12. ASSUME NEW j \in Originals(p)
       PROVE  /\ Filled("logs") \subseteq jobs'[j].rows
              /\ NeedsAll(j)'
              /\ jobs'[j].state = "Waiting"
  <2>1. Filled("logs") = Filled("state")
    BY DEF Filled
  <2>2. NeedsAll(j)'
    BY <1>1, <1>2, <1>6, <1>7, NeedsStay
  <2>3. j \in OfArray(sub[p].array) /\ j \in DOMAIN jobs
    BY DEF Originals, OfArray
  <2> QED
    BY <1>4, <1>7, <2>1, <2>2, <2>3 DEF StatesSet
<1>13. /\ SubTyped' /\ OnlyMoves(p) /\ sub'[p].array = sub[p].array
       /\ SubmissionIsSound(p)'
  BY <1>0, <1>3, <1>6, <1>10, <1>12, FillStepIsSound
<1> QED
  BY <1>1, <1>3, <1>6, <1>8, <1>9, <1>11, <1>13 DEF Keeps

(* The logs come last: the rows are complete *)
LEMMA InsertLogsKeeps ==
  ASSUME IInv, NEW p \in Submitters, InsertLogs(p)
  PROVE  Keeps(p)
<1>0. sub[p].at = "logs" /\ sub[p].at \in FillStages
  BY DEF InsertLogs, FillStages
<1>1. /\ sub[p].at \in Started /\ sub[p].at \notin Over \cup {"first"} /\ sub[p].array # 0
      /\ ToSet(sub[p].ids) = Originals(p) /\ Originals(p) \subseteq DOMAIN jobs
      /\ Numbered(p, Originals(p))
  BY <1>0, ArrayFacts
<1>2. JobsTyped /\ OthersTyped /\ SubTyped /\ KnowsItsJobs(p) /\ SubmissionIsSound(p)
  BY <1>1, StartedFacts
<1>3. jobs' = With(Originals(p), {"log"}) /\ Goto(p, "print") /\ UNCHANGED <<needs, events, round>>
  BY <1>1 DEF InsertLogs
<1>4. RowsAdded(Originals(p), {"log"})
  BY <1>2, <1>3, WithAddsRows DEF Tables
<1>5. ASSUME NEW j \in Originals(p)
      PROVE  /\ Filled("logs") \subseteq jobs[j].rows /\ NeedsAll(j)
             /\ jobs[j].state = "Hold" => Asked(p).hold
  BY <1>0, OriginalsAreFilled
<1>6. ASSUME NEW j \in Originals(p)
      PROVE  NeedsAll(j)'
  <2>1. /\ \A k \in DOMAIN jobs : jobs'[k].root = jobs[k].root /\ jobs'[k].wants = jobs[k].wants
        /\ needs' = needs /\ j \in DOMAIN jobs /\ jobs[j].wants \subseteq DOMAIN jobs
        /\ needs \subseteq JobDependencie
    BY <1>1, <1>2, <1>3, <1>4 DEF RowsAdded, SameOrigin, JobsTyped, OthersTyped
  <2> SUFFICES ASSUME NEW k \in jobs[j].wants
               PROVE  \E d \in needs : d[1] = j /\ jobs'[d[2]].root = jobs'[k].root
    BY <2>1 DEF NeedsAll, SameJob
  <2>2. PICK d \in needs : d[1] = j /\ jobs[d[2]].root = jobs[k].root
    BY <1>5 DEF NeedsAll, SameJob
  <2>3. d[2] \in DOMAIN jobs /\ k \in DOMAIN jobs
    BY <2>1 DEF JobDependencie
  <2> QED
    BY <2>1, <2>2, <2>3
<1>7. Grows /\ JobsTyped' /\ Founded /\ \A a : Spared(a)
  BY <1>2, <1>3, <1>4, <1>6, RowsGrow DEF Tables
<1>8. DOMAIN jobs' = DOMAIN jobs
  BY <1>4 DEF RowsAdded, SameJobs
<1>9. OthersTyped'
  BY <1>2, <1>3, <1>8 DEF OthersTyped, JobDependencie
<1>10. "print" \in Stages /\ "print" \in Started \ {"first"}
  BY DEF Started, Stages, Over
<1>11. /\ SubTyped' /\ OnlyMoves(p) /\ sub'[p].at = "print" /\ sub'[p].asked = sub[p].asked
       /\ sub'[p].array = sub[p].array /\ sub'[p].ids = sub[p].ids
  BY <1>2, <1>3, <1>10, GotoGoes
<1>12. KnowsItsJobs(p)' /\ MembersAreKnown(p)'
  BY <1>1, <1>2, <1>7, <1>8, <1>10, <1>11, KnownStays DEF SubmissionIsSound
<1>13. ArrayComplete(p)'
  <2>1. ASSUME NEW j \in Originals(p)
        PROVE  jobs'[j].rows = Tables /\ (jobs'[j].state = "Hold" => Asked(p).hold)
    <3>1. j \in DOMAIN jobs /\ jobs[j].rows \subseteq Tables
      BY <1>1, <1>2, JobsAreRows DEF Job
    <3>2. jobs'[j].rows = jobs[j].rows \cup {"log"} /\ jobs'[j].state = jobs[j].state
      BY <1>4, <3>1 DEF RowsAdded
    <3>3. Tables = Filled("logs") \cup {"log"}
      BY DEF Tables, Filled
    <3> QED
      BY <1>5, <3>1, <3>2, <3>3
  <2>2. /\ IsFiniteSet(Originals(p)) /\ Cardinality(Originals(p)) = sub'[p].asked.n
        /\ {jobs'[j].index : j \in Originals(p)} = 1..(sub'[p].asked.n)
    BY <1>1, <1>2, <1>7, <1>11, NumberedStays
  <2>3. ToSet(sub[p].ids)' = Originals(p)
    BY <1>1, <1>11
  <2> QED
    BY <1>11, <2>1, <2>2, <2>3 DEF ArrayComplete, Numbered, Asked
<1>14. SubmissionIsSound(p)'
  BY <1>11, <1>12, <1>13 DEF SubmissionIsSound, NotReleasedYet, SubjobsInOrder, ArrayInserted,
     ArrayFilled, KeyStages, FillStages
<1> QED
  BY <1>1, <1>3, <1>7, <1>9, <1>11, <1>14 DEF Keeps

-----------------------------------------------------------------------------
(* The steps of the others *)

(* What a step that is no oarsub's must keep *)
Leaves ==
  /\ Grows /\ JobsTyped' /\ OthersTyped' /\ Founded /\ RoundIsSound'
  /\ sub' = sub
  /\ \A p \in Submitters : sub[p].at \notin Over => Spared(sub[p].array)

(* oardel and Leon release nothing *)
LEMMA DeleteLeaves ==
  ASSUME IInv, NEW j \in DOMAIN jobs, Delete(j)
  PROVE  Leaves
<1>1. JobsTyped /\ OthersTyped /\ RoundIsSound
  BY DEF IInv
<1>2. /\ jobs[j].state \in {"Hold", "Waiting"} /\ jobs' = WithState({j}, "Error")
      /\ UNCHANGED <<needs, events, sub, round>>
  BY DEF Delete
<1>3. StatesSet({j}, "Error")
  BY <1>1, <1>2, WithStateSetsStates
<1>4. Grows /\ JobsTyped'
  BY <1>1, <1>2, <1>3, StatesGrow
<1>5. Founded
  BY <1>1, <1>3, OtherStatesAreFounded
<1>6. ASSUME NEW a
      PROVE  Spared(a)
  BY <1>3 DEF Spared, StatesSet, SameJobs, Unreleased
<1>7. DOMAIN jobs' = DOMAIN jobs
  BY <1>3 DEF StatesSet, SameJobs
<1>8. OthersTyped'
  BY <1>1, <1>2, <1>7 DEF OthersTyped, JobDependencie
<1>9. RoundIsSound'
  BY <1>1, <1>2, <1>4, RoundStaysSound
<1> QED
  BY <1>2, <1>4, <1>5, <1>6, <1>8, <1>9 DEF Leaves

(* A job whose submission is over and that has all its rows *)
LEMMA CompleteIsDescribed ==
  ASSUME IInv, NEW j \in DOMAIN jobs, ~Incomplete(j)
  PROVE  jobs[j].rows = Tables /\ Described(j) /\ (jobs[j].root = j => NeedsAll(j))
<1>1. jobs[j].rows = Tables
  BY DEF Incomplete
<1>2. Parts \subseteq Tables /\ "log" \in Tables
  BY DEF Parts, Tables
<1> QED
  BY <1>1, <1>2 DEF Described, IInv, NeedsAreKnown

(* oarresume may let a job go early, which is known as such *)
LEMMA ResumeLeaves ==
  ASSUME IInv, NEW j \in DOMAIN jobs, Resume(j)
  PROVE  Leaves
<1>1. JobsTyped /\ OthersTyped /\ RoundIsSound
  BY DEF IInv
<1>2. /\ jobs[j].state = "Hold"
      /\ jobs' = [WithState({j}, "Waiting") EXCEPT ![j].forced = @ \/ Incomplete(j)]
      /\ UNCHANGED <<needs, events, sub, round>>
  BY DEF Resume
<1>3. PICK f \in BOOLEAN : f <=> (jobs[j].forced \/ Incomplete(j))
  OBVIOUS
<1>4. /\ Len(jobs) \in Nat /\ DOMAIN jobs = 1..Len(jobs) /\ \A k \in DOMAIN jobs : jobs[k] \in Job
      /\ Len(jobs) <= MaxJobs
  BY <1>1, JobsAreRows DEF JobsTyped
<1>5. jobs[j].forced \in BOOLEAN
  BY <1>4 DEF Job
<1>6. PICK row : row = [jobs[j] EXCEPT !.state = "Waiting", !.forced = f]
  OBVIOUS
<1>7. /\ row \in Job /\ row.state = "Waiting" /\ row.forced = f
      /\ row.array = jobs[j].array /\ row.index = jobs[j].index /\ row.root = jobs[j].root
      /\ row.wants = jobs[j].wants /\ row.passive = jobs[j].passive /\ row.rows = jobs[j].rows
  BY <1>4, <1>6 DEF Job
<1>8. jobs' = [k \in DOMAIN jobs |-> IF k = j THEN row ELSE jobs[k]]
  <2>1. (jobs[j].forced \/ Incomplete(j)) = f
    BY <1>3, <1>5 DEF Incomplete
  <2>2. WithState({j}, "Waiting") =
          [k \in DOMAIN jobs |-> IF k = j THEN [jobs[j] EXCEPT !.state = "Waiting"] ELSE jobs[k]]
    BY DEF WithState
  <2>3. PICK held : held = [jobs[j] EXCEPT !.state = "Waiting"]
    OBVIOUS
  <2>4. held.forced = jobs[j].forced /\ [held EXCEPT !.forced = f] = row
    BY <1>4, <1>6, <2>3 DEF Job
  <2> QED
    BY <1>2, <2>1, <2>2, <2>3, <2>4
<1>9. jobs' \in Seq(Job) /\ Len(jobs') = Len(jobs) /\ DOMAIN jobs' = DOMAIN jobs
  <2>1. jobs' \in [1..Len(jobs) -> Job]
    BY <1>4, <1>7, <1>8
  <2> QED
    BY <1>4, <2>1
<1>10. \A k \in DOMAIN jobs : jobs'[k] = IF k = j THEN row ELSE jobs[k]
  BY <1>8
<1>11. \A k \in DOMAIN jobs : SameOrigin(k) /\ jobs'[k].rows = jobs[k].rows
  BY <1>7, <1>10 DEF SameOrigin
<1>12. JobsTyped'
  BY <1>1, <1>9, <1>11, SameJobsTyped DEF SameJobs
<1>13. \A k \in DOMAIN jobs :
         /\ jobs[k].forced => jobs'[k].forced
         /\ jobs'[k].state = "Hold" => jobs[k].state = "Hold"
         /\ jobs[k].state = "Terminated" => jobs'[k].state = "Terminated"
         /\ jobs'[k].state = "Running" => jobs[k].state = "Running"
  BY <1>2, <1>3, <1>7, <1>10
<1>14. Grows
  <2>1. \A d \in needs : \E e \in needs' : e[1] = d[1] /\ jobs'[e[2]].root = jobs'[d[2]].root
    BY <1>2
  <2>2. jobs' \in Seq(Job) /\ Len(jobs) <= Len(jobs') /\ Len(jobs') <= MaxJobs
    BY <1>4, <1>9
  <2>3. \A k \in DOMAIN jobs :
          /\ SameOrigin(k) /\ jobs[k].rows \subseteq jobs'[k].rows
          /\ jobs[k].forced => jobs'[k].forced
          /\ jobs'[k].state = "Hold" => jobs[k].state = "Hold"
          /\ jobs[k].state = "Terminated" /\ ~jobs[k].forced => jobs'[k].state = "Terminated"
    BY <1>11, <1>13
  <2> QED
    BY <2>1, <2>2, <2>3 DEF Grows
<1>15. Founded
  <2>1. ASSUME NEW k \in DOMAIN jobs, ~jobs'[k].forced, jobs'[k].state \in {"Waiting", "Running"}
        PROVE  \/ jobs[k].state = jobs'[k].state
               \/ Described(k)' /\ (jobs'[k].root = k => NeedsAll(k)')
    <3>1. CASE k = j
      <4>1. ~Incomplete(j)
        BY <1>3, <1>7, <1>10, <2>1, <3>1
      <4>2. Described(j) /\ (jobs[j].root = j => NeedsAll(j))
        BY <4>1, CompleteIsDescribed
      <4>3. Described(j)' /\ (jobs'[j].root = j => NeedsAll(j)')
        BY <1>1, <1>11, <1>14, <4>2, NeedsStay DEF Described, SameOrigin
      <4> QED
        BY <3>1, <4>3
    <3>2. CASE k # j
      BY <1>10, <3>2
    <3> QED
      BY <3>1, <3>2
  <2> QED
    BY <1>9, <1>11, <1>13, <2>1 DEF Founded, SameOrigin
<1>16. ASSUME NEW p \in Submitters, sub[p].at \notin Over
       PROVE  Spared(sub[p].array)
  <2> SUFFICES ASSUME NEW k \in DOMAIN jobs, jobs'[k].array = sub[p].array, Unreleased(k)
               PROVE  Unreleased(k)'
    BY <1>9 DEF Spared
  <2>1. CASE k = j
    <3>1. jobs[j].array = sub[p].array
      BY <1>11, <2>1 DEF SameOrigin
    <3>2. Incomplete(j)
      BY <1>16, <3>1 DEF Incomplete, Submitting
    <3>3. jobs'[j].forced
      BY <1>3, <1>7, <1>10, <3>2
    <3> QED
      BY <2>1, <3>3 DEF Unreleased
  <2>2. CASE k # j
    BY <1>10, <2>2 DEF Unreleased
  <2> QED
    BY <2>1, <2>2
<1>17. OthersTyped'
  BY <1>1, <1>2, <1>9 DEF OthersTyped, JobDependencie
<1>18. RoundIsSound'
  BY <1>1, <1>2, <1>14, RoundStaysSound
<1> QED
  BY <1>2, <1>12, <1>14, <1>15, <1>16, <1>17, <1>18 DEF Leaves

(* A copy of a job that is not complete is known as such, and what awaited the job
   awaits the copy *)
LEMMA CopyLeaves ==
  ASSUME IInv, NEW j \in DOMAIN jobs, Copy(j), events' \subseteq events, sub' = sub, round' = round
  PROVE  Leaves
<1>1. JobsTyped /\ OthersTyped /\ RoundIsSound
  BY DEF IInv
<1>2. /\ Len(jobs) \in Nat /\ DOMAIN jobs = 1..Len(jobs) /\ jobs[j] \in Job
      /\ Len(jobs) <= MaxJobs
      /\ jobs[j].array \in 1..Len(jobs) /\ jobs[j].root \in 1..Len(jobs)
      /\ jobs[j].wants \subseteq DOMAIN jobs
  BY <1>1, JobsAreRows, ArraysAreJobs DEF JobsTyped
<1>3. PICK new \in Nat : new = Len(jobs) + 1
  BY <1>2
<1>4. PICK f \in BOOLEAN : f <=> (jobs[j].forced \/ Incomplete(j))
  OBVIOUS
<1>5. jobs[j].forced \in BOOLEAN
  BY <1>2 DEF Job
<1>6. (jobs[j].forced \/ Incomplete(j)) = f
  BY <1>4, <1>5 DEF Incomplete
<1>7. PICK row : row = [jobs[j] EXCEPT !.state = "Waiting",
                          !.rows = @ \cup {"challenge", "type", "log"}, !.forced = f]
  OBVIOUS
<1>8. /\ row \in Job /\ row.state = "Waiting" /\ row.forced = f
      /\ row.array = jobs[j].array /\ row.root = jobs[j].root /\ row.wants = jobs[j].wants
      /\ row.rows = jobs[j].rows \cup {"challenge", "type", "log"}
  BY <1>2, <1>7 DEF Job, Tables
<1>9. jobs' = Append(jobs, row) /\ needs' = Redirected(j, new) /\ new <= MaxJobs
  BY <1>3, <1>6, <1>7 DEF Copy
<1>10. JobAdded(row)
  BY <1>1, <1>8, <1>9, AppendAddsJob
<1>11. ASSUME NEW d \in needs
       PROVE  \/ d \in needs'
              \/ <<d[1], new>> \in needs' /\ row.root = jobs[d[2]].root
  <2>1. CASE d[2] # j
    BY <1>9, <2>1 DEF Redirected
  <2>2. CASE d[2] = j
    <3>1. d[1] \in {e[1] : e \in {c \in needs : c[2] = j}}
      BY <2>2
    <3>2. <<d[1], new>> \in needs'
      BY <1>9, <3>1 DEF Redirected
    <3> QED
      BY <1>8, <2>2, <3>2
  <2> QED
    BY <2>1, <2>2
<1>12. Grows /\ JobsTyped'
  <2>1. row.array \in 1..(Len(jobs) + 1) /\ row.root \in 1..(Len(jobs) + 1) /\ Len(jobs) < MaxJobs
    BY <1>2, <1>3, <1>8, <1>9, BoundAssumption
  <2> QED
    BY <1>1, <1>2, <1>3, <1>8, <1>10, <1>11, <2>1, JobGrows
<1>13. row.root # new /\ new \notin DOMAIN jobs
  BY <1>2, <1>3, <1>8
<1>14. Founded
  <2>1. ~f => Parts \subseteq row.rows
    <3>1. ~f => jobs[j].rows = Tables
      BY <1>4 DEF Incomplete
    <3> QED
      BY <1>8, <3>1 DEF Parts, Tables
  <2> QED
    BY <1>1, <1>3, <1>8, <1>10, <1>13, <2>1, JobIsFounded
<1>15. ASSUME NEW p \in Submitters, sub[p].at \notin Over
       PROVE  Spared(sub[p].array)
  <2>1. row.array = sub[p].array => f
    BY <1>4, <1>8, <1>15 DEF Incomplete, Submitting
  <2> QED
    BY <1>1, <1>3, <1>8, <1>10, <1>13, <2>1, JobSpares
<1>16. DOMAIN jobs' = 1..new /\ DOMAIN jobs \subseteq DOMAIN jobs' /\ new \in DOMAIN jobs'
  BY <1>2, <1>3, <1>10 DEF JobAdded
<1>17. OthersTyped'
  <2>1. ASSUME NEW d \in needs'
        PROVE  d \in (DOMAIN jobs') \X (DOMAIN jobs')
    <3>1. CASE d \in needs
      BY <1>1, <1>16, <3>1 DEF OthersTyped, JobDependencie
    <3>2. CASE d \in {e[1] : e \in {c \in needs : c[2] = j}} \X {new}
      <4>1. \A e \in needs : e[1] \in DOMAIN jobs
        BY <1>1 DEF OthersTyped, JobDependencie
      <4> QED
        BY <1>16, <3>2, <4>1
    <3> QED
      BY <1>9, <3>1, <3>2 DEF Redirected
  <2>2. events' \subseteq (DOMAIN jobs') \X EventTypes /\ round'.waiting \cup round'.fit \subseteq DOMAIN jobs'
    BY <1>1, <1>16 DEF OthersTyped
  <2> QED
    BY <2>1, <2>2 DEF OthersTyped, JobDependencie
<1>18. RoundIsSound'
  BY <1>1, <1>12, RoundStaysSound
<1> QED
  BY <1>12, <1>14, <1>15, <1>17, <1>18 DEF Leaves

(* oarsub --resubmit *)
LEMMA ResubmitByHandLeaves ==
  ASSUME IInv, NEW j \in DOMAIN jobs, ResubmitByHand(j)
  PROVE  Leaves
<1> QED
  BY CopyLeaves DEF ResubmitByHand

(* A step that writes no job *)
LEMMA QuietLeaves ==
  ASSUME IInv, jobs' = jobs, needs' = needs, sub' = sub, events' \subseteq events,
         round'.waiting \cup round'.fit \subseteq DOMAIN jobs,
         RoundIsSound'
  PROVE  Leaves
<1>1. JobsTyped /\ OthersTyped
  BY DEF IInv
<1>2. Grows /\ JobsTyped' /\ Founded /\ \A a : Spared(a)
  BY <1>1, QuietGrows
<1>3. OthersTyped'
  BY <1>1 DEF OthersTyped, JobDependencie
<1> QED
  BY <1>2, <1>3 DEF Leaves

(* The automatic resubmission *)
LEMMA ResubmitForEventLeaves ==
  ASSUME IInv, NEW j \in DOMAIN jobs, NEW type, ResubmitForEvent(j, type)
  PROVE  Leaves
<1>1. events' \subseteq events /\ UNCHANGED <<sub, round>>
  BY DEF ResubmitForEvent
<1>2. CASE Copy(j)
  BY <1>1, <1>2, CopyLeaves
<1>3. CASE UNCHANGED <<jobs, needs>>
  <2>1. RoundIsSound' /\ round'.waiting \cup round'.fit \subseteq DOMAIN jobs
    BY <1>1, <1>3 DEF IInv, OthersTyped, RoundIsSound, NeedsAll, AwaitedAreOver, Lawful, SameJob
  <2> QED
    BY <1>1, <1>3, <2>1, QuietLeaves
<1> QED
  BY <1>2, <1>3 DEF ResubmitForEvent

(* The jobs that a round reads wait, so they have their dependencies *)
LEMMA ReadWaitingLeaves ==
  ASSUME IInv, ReadWaiting
  PROVE  Leaves
<1>1. /\ round' = [at |-> "read", waiting |-> {j \in DOMAIN jobs : jobs[j].state = "Waiting"}, fit |-> {}]
      /\ UNCHANGED <<jobs, needs, events, sub>>
  BY DEF ReadWaiting
<1>2. round'.waiting = {j \in DOMAIN jobs : jobs[j].state = "Waiting"} /\ round'.fit = {}
  BY <1>1
<1>3. RoundIsSound'
  <2>1. \A j \in round'.waiting : Lawful(j) => NeedsAll(j)
    BY <1>2 DEF IInv, NeedsAreKnown
  <2>2. \A j : Lawful(j)' = Lawful(j) /\ NeedsAll(j)' = NeedsAll(j)
    BY <1>1 DEF Lawful, NeedsAll, SameJob
  <2> QED
    BY <1>2, <2>1, <2>2 DEF RoundIsSound
<1> QED
  BY <1>1, <1>2, <1>3, QuietLeaves

(* A job is fit when all that it needs has ended well *)
LEMMA PlanRoundLeaves ==
  ASSUME IInv, PlanRound
  PROVE  Leaves
<1>1. UNCHANGED <<jobs, needs, events, sub>>
  BY DEF PlanRound
<1>2. round'.waiting = {} /\ (round'.fit = {} \/ round'.fit = Fit(round.waiting))
  BY DEF PlanRound
<1>3. ASSUME NEW j \in Fit(round.waiting), Lawful(j)
      PROVE  AwaitedAreOver(j)
  <2>1. /\ j \in round.waiting /\ j \in DOMAIN jobs
        /\ \A k \in NeedsOf(j) : jobs[k].state = "Terminated"
    BY DEF Fit, IInv, OthersTyped
  <2>2. NeedsAll(j)
    BY <1>3, <2>1 DEF IInv, RoundIsSound
  <2> SUFFICES ASSUME NEW k \in jobs[j].wants
               PROVE  \E c \in DOMAIN jobs : SameJob(c, k) /\ jobs[c].state = "Terminated"
    BY DEF AwaitedAreOver
  <2>3. PICK d \in needs : d[1] = j /\ SameJob(d[2], k)
    BY <2>2 DEF NeedsAll
  <2>4. d[2] \in DOMAIN jobs
    BY DEF IInv, OthersTyped, JobDependencie
  <2>5. d[2] \in NeedsOf(j)
    BY <2>3 DEF NeedsOf
  <2> QED
    BY <2>1, <2>3, <2>4, <2>5
<1>4. RoundIsSound'
  <2>1. \A j : Lawful(j)' = Lawful(j) /\ AwaitedAreOver(j)' = AwaitedAreOver(j)
    BY <1>1 DEF Lawful, AwaitedAreOver, SameJob
  <2> QED
    BY <1>2, <1>3, <2>1 DEF RoundIsSound
<1>5. round'.waiting \cup round'.fit \subseteq DOMAIN jobs
  BY <1>2 DEF Fit, IInv, OthersTyped
<1> QED
  BY <1>1, <1>4, <1>5, QuietLeaves

(* Only a job that fits begins *)
LEMMA LaunchLeaves ==
  ASSUME IInv, Launch
  PROVE  Leaves
<1>1. JobsTyped /\ OthersTyped
  BY DEF IInv
<1>2. PICK ids : ids = {j \in round.fit : jobs[j].state = "Waiting"}
  OBVIOUS
<1>3. /\ jobs' = WithState(ids, "Running")
      /\ round' = [at |-> "rest", waiting |-> {}, fit |-> {}]
      /\ UNCHANGED <<needs, events, sub>>
  BY <1>2 DEF Launch
<1>4. StatesSet(ids, "Running")
  BY <1>1, <1>3, WithStateSetsStates
<1>5. Grows /\ JobsTyped'
  BY <1>1, <1>2, <1>3, <1>4, StatesGrow
<1>6. Founded
  BY <1>1, <1>2, <1>4, OtherStatesAreFounded
<1>7. ASSUME NEW a
      PROVE  Spared(a)
  BY <1>2, <1>4 DEF Spared, StatesSet, SameJobs, Unreleased
<1>8. DOMAIN jobs' = DOMAIN jobs
  BY <1>4 DEF StatesSet, SameJobs
<1>9. OthersTyped' /\ RoundIsSound'
  BY <1>1, <1>3, <1>8 DEF OthersTyped, JobDependencie, RoundIsSound
<1> QED
  BY <1>3, <1>5, <1>6, <1>7, <1>9 DEF Leaves

(* A job that ends was running *)
LEMMA FinishLeaves ==
  ASSUME IInv, NEW j \in DOMAIN jobs, Finish(j)
  PROVE  Leaves
<1>1. JobsTyped /\ OthersTyped /\ RoundIsSound
  BY DEF IInv
<1>2. jobs[j].state = "Running" /\ UNCHANGED <<needs, sub, round>>
  BY DEF Finish
<1>3. PICK state \in {"Terminated", "Error"} : jobs' = WithState({j}, state)
  BY DEF Finish
<1>4. StatesSet({j}, state)
  BY <1>1, <1>3, WithStateSetsStates
<1>5. Grows /\ JobsTyped'
  BY <1>1, <1>2, <1>4, StatesGrow
<1>6. Founded
  BY <1>1, <1>4, OtherStatesAreFounded
<1>7. ASSUME NEW a
      PROVE  Spared(a)
  BY <1>2, <1>4 DEF Spared, StatesSet, SameJobs, Unreleased
<1>8. DOMAIN jobs' = DOMAIN jobs
  BY <1>4 DEF StatesSet, SameJobs
<1>9. events' \subseteq (DOMAIN jobs) \X EventTypes
  BY <1>1 DEF Finish, OthersTyped
<1>10. OthersTyped'
  BY <1>1, <1>2, <1>8, <1>9 DEF OthersTyped, JobDependencie
<1>11. RoundIsSound'
  BY <1>1, <1>2, <1>5, RoundStaysSound
<1> QED
  BY <1>2, <1>5, <1>6, <1>7, <1>10, <1>11 DEF Leaves

-----------------------------------------------------------------------------
(* The invariant *)

(* The invariant holds of the empty tables *)
LEMMA InitIsSound == Init => IInv
<1> SUFFICES ASSUME Init
             PROVE  IInv
  OBVIOUS
<1>1. /\ jobs = <<>> /\ needs = {} /\ events = {}
      /\ sub = [p \in Submitters |-> At("begin")]
      /\ round = [at |-> "rest", waiting |-> {}, fit |-> {}]
  BY DEF Init
<1>2. DOMAIN jobs = {} /\ Len(jobs) = 0 /\ jobs \in Seq(Job)
  BY <1>1
<1>3. JobsTyped
  BY <1>2, BoundAssumption DEF JobsTyped
<1>4. OthersTyped /\ RoundIsSound
  BY <1>1 DEF OthersTyped, RoundIsSound
<1>5. \A p \in Submitters : /\ sub[p].at = "begin" /\ sub[p].asked = "none"
                            /\ sub[p].array = 0 /\ sub[p].ids = <<>>
  BY <1>1 DEF At
<1>6. SubTyped
  BY <1>1 DEF SubTyped, At, Stages, Over
<1>7. ASSUME NEW p \in Submitters
      PROVE  SubmissionIsSound(p) /\ sub[p].at \notin Started
  <2>1. /\ sub[p].at \notin Started /\ sub[p].at \in Over
        /\ sub[p].at \notin KeyStages \cup FillStages \cup {"first", "others", "moldables", "print", "told"}
    BY <1>5 DEF Started, Stages, Over, KeyStages, FillStages
  <2> QED
    BY <1>5, <2>1 DEF SubmissionIsSound, KnowsItsJobs, MembersAreKnown, NotReleasedYet,
       SubjobsInOrder, ArrayInserted, ArrayFilled, ArrayComplete, KeyStages, FillStages
<1>8. ArraysApart
  BY <1>7 DEF ArraysApart
<1>9. NeedsAreKnown /\ WaitingIsDescribed
  BY <1>2 DEF NeedsAreKnown, WaitingIsDescribed
<1> QED
  BY <1>3, <1>4, <1>6, <1>7, <1>8, <1>9 DEF IInv

(* The array that an oarsub fills is in the table, or not inserted *)
LEMMA ArrayOfOther ==
  ASSUME IInv, NEW q \in Submitters, sub[q].at \in Started
  PROVE  sub[q].array = 0 \/ sub[q].array \in DOMAIN jobs
<1>1. KnowsItsJobs(q) /\ Len(jobs) \in Nat /\ DOMAIN jobs = 1..Len(jobs)
  BY StartedFacts
<1> QED
  BY <1>1 DEF KnowsItsJobs

(* A step of an oarsub keeps the invariant *)
LEMMA KeepsIsEnough ==
  ASSUME IInv, NEW p \in Submitters, Keeps(p)
  PROVE  IInv' /\ Grows /\ Founded
<1>1. /\ JobsTyped /\ OthersTyped /\ SubTyped /\ RoundIsSound /\ NeedsAreKnown /\ WaitingIsDescribed
      /\ ArraysApart /\ \A q \in Submitters : SubmissionIsSound(q)
  BY DEF IInv
<1>2. /\ Grows /\ JobsTyped' /\ OthersTyped' /\ SubTyped' /\ Founded
      /\ round' = round /\ OnlyMoves(p) /\ SubmissionIsSound(p)'
  BY DEF Keeps
<1>3. NeedsAreKnown' /\ WaitingIsDescribed' /\ RoundIsSound'
  BY <1>1, <1>2, FoundedIsKnown, RoundStaysSound
<1>4. ASSUME NEW q \in Submitters, q # p
      PROVE  SubmissionIsSound(q)' /\ sub'[q] = sub[q]
  <2>1. sub'[q] = sub[q]
    BY <1>2, <1>4 DEF OnlyMoves
  <2>2. ASSUME sub[q].at \notin Over
        PROVE  Spared(sub[q].array)
    <3>1. sub[q].at \in Started
      BY <1>1, <2>2 DEF SubTyped, Started, Over
    <3>2. CASE sub[q].array = 0
      <4>1. \A j \in DOMAIN jobs' : jobs'[j].array # 0
        <5>1. \A j \in DOMAIN jobs' : jobs'[j].array \in DOMAIN jobs'
          BY <1>2 DEF JobsTyped
        <5>2. Len(jobs') \in Nat /\ DOMAIN jobs' = 1..Len(jobs')
          BY <1>1, <1>2, DomainGrows
        <5> QED
          BY <5>1, <5>2
      <4> QED
        BY <3>2, <4>1 DEF Spared
    <3>3. CASE sub[q].array # 0 /\ sub[q].array \in DOMAIN jobs
      <4>1. sub[p].at \in Started => sub[q].array # sub[p].array
        BY <1>1, <1>4, <3>1, <3>3 DEF ArraysApart
      <4> QED
        BY <3>3, <4>1 DEF Keeps
    <3> QED
      BY <3>1, <3>2, <3>3, ArrayOfOther
  <2>3. SubmissionIsSound(q)'
    BY <1>1, <1>2, <2>1, <2>2, StaysSound
  <2> QED
    BY <2>1, <2>3
<1>5. ASSUME NEW q \in Submitters, q # p, sub'[p].at \in Started, sub'[q].at \in Started,
             sub'[p].array = sub'[q].array
      PROVE  sub'[p].array = 0
  <2>1. sub'[q] = sub[q]
    BY <1>4, <1>5
  <2>2. sub[q].array = 0 \/ sub[q].array \in DOMAIN jobs
    BY <1>5, <2>1, ArrayOfOther
  <2>3. \/ sub'[p].array = 0 \/ sub'[p].array \notin DOMAIN jobs
        \/ sub[p].at \in Started /\ sub'[p].array = sub[p].array
    BY <1>5 DEF Keeps
  <2>4. CASE sub[p].at \in Started /\ sub'[p].array = sub[p].array
    BY <1>1, <1>5, <2>1, <2>4 DEF ArraysApart
  <2> QED
    BY <1>5, <2>1, <2>2, <2>3, <2>4
<1>6. ArraysApart'
  <2> SUFFICES ASSUME NEW r \in Submitters, NEW q \in Submitters, r # q,
                      sub'[r].at \in Started, sub'[q].at \in Started, sub'[r].array = sub'[q].array
               PROVE  sub'[r].array = 0
    BY DEF ArraysApart
  <2>1. CASE r = p
    BY <1>5, <2>1
  <2>2. CASE q = p
    BY <1>5, <2>2
  <2>3. CASE r # p /\ q # p
    BY <1>1, <1>4, <2>3 DEF ArraysApart
  <2> QED
    BY <2>1, <2>2, <2>3
<1> QED
  BY <1>2, <1>3, <1>4, <1>6 DEF IInv

(* So does a step of the others *)
LEMMA LeavesIsEnough ==
  ASSUME IInv, Leaves
  PROVE  IInv' /\ Grows /\ Founded
<1>1. /\ JobsTyped /\ OthersTyped /\ SubTyped /\ NeedsAreKnown /\ WaitingIsDescribed
      /\ ArraysApart /\ \A q \in Submitters : SubmissionIsSound(q)
  BY DEF IInv
<1>2. /\ Grows /\ JobsTyped' /\ OthersTyped' /\ Founded /\ RoundIsSound' /\ sub' = sub
      /\ \A q \in Submitters : sub[q].at \notin Over => Spared(sub[q].array)
  BY DEF Leaves
<1>3. NeedsAreKnown' /\ WaitingIsDescribed'
  BY <1>1, <1>2, FoundedIsKnown
<1>4. \A q \in Submitters : SubmissionIsSound(q)'
  BY <1>1, <1>2, StaysSound
<1>5. SubTyped' /\ ArraysApart'
  BY <1>1, <1>2 DEF SubTyped, ArraysApart
<1> QED
  BY <1>2, <1>3, <1>4, <1>5 DEF IInv

(* Every step keeps the invariant, lets the table grow, and releases or begins
   nothing without a reason *)
LEMMA StepIsSound ==
  ASSUME IInv, Next
  PROVE  IInv' /\ Grows /\ Founded
<1>1. ASSUME NEW p \in Submitters, Submit(p) \/ Die(p)
      PROVE  Keeps(p)
  BY <1>1, AskKeeps, InsertFirstSubjobKeeps, FillFirstSubjobKeeps, InsertNextSubjobKeeps,
     ReleaseSubjobKeeps, GiveUpKeeps, InsertFirstKeeps, InsertOthersKeeps, InsertMoldablesKeeps,
     InsertTableKeeps, InsertNeedsKeeps, ReleaseArrayKeeps, InsertLogsKeeps, PrintIdsKeeps, DieKeeps
     DEF Submit
<1>2. ASSUME NEW j \in DOMAIN jobs, Users(j) \/ Finish(j)
      PROVE  Leaves
  BY <1>2, DeleteLeaves, ResumeLeaves, ResubmitByHandLeaves, FinishLeaves DEF Users
<1>3. ASSUME NodeChangeState
      PROVE  Leaves
  BY <1>3, ResubmitForEventLeaves DEF NodeChangeState
<1>4. ASSUME Schedule
      PROVE  Leaves
  BY <1>4, ReadWaitingLeaves, PlanRoundLeaves, LaunchLeaves DEF Schedule
<1> QED
  BY <1>1, <1>2, <1>3, <1>4, KeepsIsEnough, LeavesIsEnough DEF Next

(* The invariant is inductive, however the transactions of the oarsub are
   interleaved or cut, and whatever users, NodeChangeState and the rounds do between
   them (add_micheline_subjob, add_micheline_simple_array_job, resubmit_job) *)
THEOREM SubmissionInductive ==
  /\ Init => IInv
  /\ IInv /\ [Next]_vars => IInv'
<1>1. ASSUME IInv, UNCHANGED vars
      PROVE  IInv'
  <2>1. jobs' = jobs /\ needs' = needs /\ events' = events /\ sub' = sub /\ round' = round
    BY <1>1 DEF vars
  <2>2. RoundIsSound' /\ round'.waiting \cup round'.fit \subseteq DOMAIN jobs
    BY <1>1, <2>1 DEF IInv, OthersTyped, RoundIsSound, NeedsAll, AwaitedAreOver, Lawful, SameJob
  <2>3. Leaves
    BY <1>1, <2>1, <2>2, QuietLeaves
  <2> QED
    BY <1>1, <2>3, LeavesIsEnough
<1> QED
  BY <1>1, InitIsSound, StepIsSound

(* The rows are complete where somebody relies on them *)
LEMMA SoundIsComplete == IInv => RowsAreComplete
<1> SUFFICES ASSUME IInv
             PROVE  RowsAreComplete
  OBVIOUS
<1>1. JobsTyped /\ OthersTyped /\ SubTyped /\ WaitingIsDescribed /\ \A p \in Submitters : SubmissionIsSound(p)
  BY DEF IInv
<1>2. ASSUME NEW p \in Submitters
      PROVE  ToSet(sub[p].ids) \subseteq DOMAIN jobs
  <2>1. CASE sub[p].at \in Started
    BY <1>1, <2>1 DEF SubmissionIsSound, KnowsItsJobs, ToSet
  <2>2. CASE sub[p].at \notin Started
    <3>1. sub[p].at \in {"begin", "refused", "gone"}
      BY <1>1, <2>2 DEF SubTyped, Started
    <3>2. sub[p].ids = <<>>
      BY <1>1, <3>1 DEF SubmissionIsSound, KnowsItsJobs
    <3> QED
      BY <3>2 DEF ToSet
  <2> QED
    BY <2>1, <2>2
<1>3. TypeOK
  BY <1>1, <1>2 DEF TypeOK, JobsTyped, OthersTyped
<1>4. PrintedIsComplete
  <2> SUFFICES ASSUME NEW p \in Submitters, sub[p].at = "told", NEW ids, ids = ToSet(sub[p].ids)
               PROVE  /\ Cardinality(ids) = Asked(p).n
                      /\ {jobs[j].index : j \in ids} = 1..Asked(p).n
                      /\ \A j \in ids : /\ jobs[j].array = sub[p].array /\ jobs[j].rows = Tables
                                        /\ jobs[j].state = "Hold" => Asked(p).hold
    BY DEF PrintedIsComplete
  <2>1. sub[p].at \in Started
    BY DEF Started, Stages, Over
  <2>2. \A j \in ids : jobs[j].array = sub[p].array
    BY <1>1, <2>1 DEF SubmissionIsSound, KnowsItsJobs, ToSet
  <2> QED
    BY <1>1, <2>2 DEF SubmissionIsSound, ArrayComplete, Numbered
<1> QED
  BY <1>1, <1>3, <1>4 DEF RowsAreComplete

(* The scheduler finds the rows of each job that waits, unless a user has let it go
   early, and the user those of each job printed, for any requests and bound
   (submission.py) *)
THEOREM RowsComplete == Spec => []RowsAreComplete
<1> QED
  BY SubmissionInductive, SoundIsComplete, PTL DEF Spec

(* No job begins before each job that it was asked to await, or a copy of it, has
   ended with exit code 0 or was itself let go early (schedule_id_jobs_ct) *)
THEOREM BeginsWhenAllIsOver == Spec => StartsAfterWhatItAwaits
<1> DEFINE Starts(j) == /\ jobs[j].state = "Waiting" /\ jobs'[j].state = "Running"
                        /\ jobs[j].root = j /\ ~jobs[j].forced
           Ready(j) == \A k \in jobs[j].wants :
                         \E c \in DOMAIN jobs :
                           SameJob(c, k) /\ (jobs[c].state = "Terminated" \/ jobs[c].forced)
<1>1. ASSUME IInv, [Next]_vars
      PROVE  [\A j \in DOMAIN jobs : Starts(j) => Ready(j)]_vars
  <2>1. CASE UNCHANGED vars
    BY <2>1
  <2>2. CASE Next
    <3> SUFFICES ASSUME NEW j \in DOMAIN jobs, Starts(j)
                 PROVE  Ready(j)
      OBVIOUS
    <3>1. Founded
      BY <1>1, <2>2, StepIsSound
    <3>2. j \in round.fit /\ Lawful(j)
      BY <3>1 DEF Founded, Lawful
    <3>3. AwaitedAreOver(j)
      BY <1>1, <3>2 DEF IInv, RoundIsSound
    <3> QED
      BY <3>3 DEF AwaitedAreOver
  <2> QED
    BY <1>1, <2>1, <2>2
<1> QED
  BY <1>1, SubmissionInductive, PTL DEF Spec, StartsAfterWhatItAwaits

=============================================================================
