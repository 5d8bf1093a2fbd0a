------------------------ MODULE WalltimeChangeProofs ------------------------
(***************************************************************************)
(* For any jobs, limits and demands: no second of walltime is granted      *)
(* twice, the jobs planned next are left where they are and inner jobs end *)
(* within their containers. The invariant follows a demand from the hands  *)
(* of oarwalltime to the table, from there to the list of the              *)
(* metascheduler, and relates that list to the jobs as they are.           *)
(***************************************************************************)
EXTENDS WalltimeChange, WellFoundedInduction, TLAPS

Plus(x) == IF x > 0 THEN x ELSE 0

(* What is still asked for a job: in the hands of oarwalltime, in the      *)
(* table, in the list that was read                                        *)
InHand(j) == IF cmd # NoCommand /\ cmd.job = j THEN Plus(cmd.pending) ELSE 0
InTable(j) == IF j \in DOMAIN change THEN Plus(change[j].pending) ELSE 0
InList(j) == IF j \in DOMAIN todo THEN Plus(todo[j].pending) ELSE 0

WithinDemands ==
  \A j \in Jobs : /\ given[j] + InTable(j) + InHand(j) <= accepted[j]
                  /\ given[j] + InList(j) + InHand(j) <= accepted[j]

(* What was read of a job is still true *)
ListIsTrue ==
  \A j \in DOMAIN todo :
    /\ todo[j].pending # 0
    /\ todo[j].start = job[j].start /\ todo[j].walltime = job[j].walltime
    /\ phase = "apply" => j # grant.job

NewEnd == job[grant.job].start + grant.walltime + SuspendedFor[grant.job]

(* What is granted, before it is written, leaves the others alone *)
GrantFits ==
  phase = "apply" /\ grant.asked > 0 =>
    /\ \A k \in Waiting \ Besteffort :
         /\ Share(grant.job, k) /\ job[k].start > End(grant.job)
         /\ k \in Reservations \/ ~grant.delay
         => NewEnd + Security <= job[k].start
    /\ grant.job \in DOMAIN InnerOf =>
         NewEnd <= job[InnerOf[grant.job]].start + job[InnerOf[grant.job]].walltime

IInv == TypeOK /\ WithinDemands /\ ListIsTrue /\ GrantFits

-----------------------------------------------------------------------------
(* The least element of a set of natural numbers *)
LEMMA MinOfNat ==
  ASSUME NEW S \in SUBSET Nat, S # {}
  PROVE  Min(S) \in S /\ \A x \in S : Min(S) <= x
<1>1. PICK x \in S : \A y \in S : <<y, x>> \notin OpToRel(<, Nat)
  BY NatLessThanWellFounded, WFMin, Zenon
<1>2. \A y \in S : x <= y
  <2> SUFFICES ASSUME NEW y \in S, y < x PROVE FALSE
    OBVIOUS
  <2> QED
    BY <1>1 DEF OpToRel
<1> QED
  BY <1>1, <1>2 DEF Min

(* The types that the search of a place relies on *)
LEMMA JobTypes ==
  ASSUME TypeOK, NEW j \in Jobs
  PROVE  /\ job[j].start \in Nat
         /\ job[j].walltime \in Int
         /\ SuspendedFor[j] \in Nat
         /\ End(j) \in Int
BY JobsAssumption DEF TypeOK, End

(* get_possible_job_end_time_in_interval returns a date that leaves the    *)
(* security time before each of the jobs in the way, in whatever order it  *)
(* reads them                                                              *)
LEMMA PossibleEndIsBefore ==
  ASSUME TypeOK, NEW j \in Jobs, NEW from \in Int, NEW to \in Int, NEW delay \in BOOLEAN,
         NEW bound \in PossibleEnds(j, from, to, delay)
  PROVE  /\ bound \in Int
         /\ bound <= to
         /\ \A k \in InTheWay(j, from, to, delay) : bound + Security <= job[k].start
<1> DEFINE starts == {job[k].start : k \in InTheWay(j, from, to, delay)}
<1> DEFINE near == {start \in starts : to > start - Security}
<1>1. InTheWay(j, from, to, delay) \subseteq Jobs
  BY DEF InTheWay, Waiting
<1>2. starts \in SUBSET Nat /\ near \in SUBSET Nat
  BY <1>1, JobTypes
<1>3. Security \in Nat
  BY SettingsAssumption
<1>4. ASSUME NEW k \in InTheWay(j, from, to, delay)
      PROVE  job[k].start \in starts /\ job[k].start \in Nat
  BY <1>1, JobTypes
<1>5. bound \in Int /\ bound <= to /\ \A start \in starts : bound + Security <= start
  <2>1. CASE near = {}
    <3>1. bound = to
      BY <2>1 DEF PossibleEnds
    <3>2. \A start \in starts : ~(to > start - Security)
      BY <2>1
    <3> HIDE DEF starts, near
    <3> QED
      BY <1>2, <1>3, <3>1, <3>2
  <2>2. CASE near # {}
    <3>1. Min(near) \in near /\ \A x \in near : Min(near) <= x
      BY <1>2, <2>2, MinOfNat
    <3>2. bound \in {Min(near) - Security - 1} \cup {Min(near) - Security : start \in near \cap {Min(near) + 1}}
      BY <2>2 DEF PossibleEnds
    <3>3. \/ bound = Min(near) - Security - 1
          \/ bound = Min(near) - Security
      BY <3>2
    <3>4. Min(near) \in Nat /\ to > Min(near) - Security
      BY <1>2, <3>1
    <3>5. bound \in Int /\ bound <= to /\ bound + Security <= Min(near)
      <4> HIDE DEF near
      <4> QED
        BY <1>3, <3>3, <3>4
    <3>6. ASSUME NEW start \in starts PROVE bound + Security <= start
      <4>1. CASE start \in near
        <5>1. Min(near) <= start /\ start \in Nat
          BY <1>2, <3>1, <4>1
        <5> HIDE DEF near, starts
        <5> QED
          BY <1>3, <3>4, <3>5, <5>1
      <4>2. CASE ~(to > start - Security)
        <5>1. start \in Nat
          BY <1>2
        <5> HIDE DEF near, starts
        <5> QED
          BY <1>3, <3>5, <4>2, <5>1
      <4> QED
        BY <4>1, <4>2
    <3> QED
      BY <3>5, <3>6
  <2> QED
    BY <2>1, <2>2
<1> QED
  BY <1>4, <1>5

(* What can be granted of an increase: not more than asked, and not beyond *)
(* what the planned jobs and the container leave                           *)
LEMMA FitIsSafe ==
  ASSUME TypeOK, NEW j \in Jobs, NEW t \in Read, t.pending > 0,
         NEW fit \in Fits(j, t), fit # 0
  PROVE  LET end == t.start + t.walltime + SuspendedFor[j]
         IN  /\ fit \in Nat
             /\ fit <= t.pending
             /\ \A k \in Waiting \ Besteffort :
                  Share(j, k) /\ job[k].start > end /\ (k \in Reservations \/ ~t.delay)
                    => end + fit + Security <= job[k].start
             /\ j \in DOMAIN InnerOf =>
                  end + fit <= job[InnerOf[j]].start + job[InnerOf[j]].walltime
<1> DEFINE end == t.start + t.walltime + SuspendedFor[j]
<1> DEFINE to == WithinContainer(j, end + Step(t))
<1>1. /\ end \in Int
      /\ t.pending \in Int /\ t.delay \in BOOLEAN
  BY JobsAssumption DEF Read
<1>2. Step(t) \in Int /\ Step(t) <= t.pending
  BY <1>1, SettingsAssumption DEF Step, Sooner
<1>3. /\ to \in Int /\ to <= end + t.pending
      /\ j \in DOMAIN InnerOf => to <= job[InnerOf[j]].start + job[InnerOf[j]].walltime
  <2>1. CASE j \in DOMAIN InnerOf
    <3>1. /\ job[InnerOf[j]].start \in Nat
          /\ job[InnerOf[j]].walltime \in Int
      BY <2>1, ContainersAssumption, JobTypes
    <3> HIDE DEF end
    <3> QED
      BY <2>1, <3>1, <1>1, <1>2 DEF WithinContainer, Sooner
  <2>2. CASE j \notin DOMAIN InnerOf
    <3> HIDE DEF end
    <3> QED
      BY <2>2, <1>1, <1>2 DEF WithinContainer
  <2> QED
    BY <2>1, <2>2
<1>0. PICK bound \in PossibleEnds(j, end, to, t.delay) : fit = Later(0, bound - end)
  <2>1. ~(t.pending < 0)
    BY <1>1
  <2>2. ~Postponed(t, end)
    BY <2>1 DEF Fits
  <2> QED
    BY <2>1, <2>2 DEF Fits
<1>4. /\ bound \in Int /\ bound <= to
      /\ \A k \in InTheWay(j, end, to, t.delay) : bound + Security <= job[k].start
  <2> HIDE DEF end, to
  <2> QED
    BY <1>0, <1>1, <1>3, PossibleEndIsBefore
<1>6. fit \in Nat /\ fit = bound - end
  <2> HIDE DEF end
  <2> QED
    BY <1>1, <1>4, <1>0 DEF Later
<1>7. ASSUME NEW k \in Waiting \ Besteffort,
             Share(j, k), job[k].start > end, k \in Reservations \/ ~t.delay
      PROVE  bound + Security <= job[k].start
  <2>1. job[k].start \in Nat /\ Security \in Nat
    BY JobTypes, SettingsAssumption DEF Waiting
  <2>2. CASE job[k].start <= to + Security
    <3>1. k \in InTheWay(j, end, to, t.delay)
      BY <1>7, <2>2 DEF InTheWay
    <3> HIDE DEF end, to
    <3> QED
      BY <3>1, <1>4, <2>1
  <2>3. CASE job[k].start > to + Security
    <3> HIDE DEF end, to
    <3> QED
      BY <2>1, <2>3, <1>3, <1>4
  <2> HIDE DEF end, to
  <2> QED
    BY <2>1, <2>2, <2>3, <1>3
<1>8. /\ fit <= t.pending
      /\ end + fit = bound
  <2> HIDE DEF end, to
  <2> QED
    BY <1>1, <1>3, <1>4, <1>6
<1>9. j \in DOMAIN InnerOf =>
        end + fit <= job[InnerOf[j]].start + job[InnerOf[j]].walltime
  <2>1. ASSUME j \in DOMAIN InnerOf
        PROVE  job[InnerOf[j]].start \in Nat /\ job[InnerOf[j]].walltime \in Int
    BY <2>1, ContainersAssumption, JobTypes
  <2> HIDE DEF end, to
  <2> QED
    BY <2>1, <1>1, <1>3, <1>4, <1>8
<1> QED
  BY <1>6, <1>7, <1>8, <1>9

(* A reduction is granted whole, or what remains if that is less *)
LEMMA CutIsWhole ==
  ASSUME TypeOK, NEW j \in Jobs, NEW t \in Read, t.pending < 0,
         NEW fit \in Fits(j, t)
  PROVE  fit \in Int /\ t.pending - fit <= 0
<1> DEFINE end == t.start + t.walltime + SuspendedFor[j]
<1>1. end \in Int /\ t.pending \in Int
  BY JobsAssumption DEF Read
<1>2. readAt \in Int
  BY SettingsAssumption DEF TypeOK
<1>3. fit = IF end - readAt < -t.pending THEN -(end - readAt) ELSE t.pending
  <2>1. CASE end - readAt < -t.pending
    BY <2>1 DEF Fits
  <2>2. CASE ~(end - readAt < -t.pending)
    BY <2>2 DEF Fits
  <2> QED
    BY <2>1, <2>2
<1> HIDE DEF end
<1> QED
  BY <1>1, <1>2, <1>3

-----------------------------------------------------------------------------
(* The record of a grant, while there is one *)
LEMMA GrantIsTyped ==
  ASSUME TypeOK, phase = "apply"
  PROVE  grant \in [job : Jobs, walltime : Int, asked : Int, delay : BOOLEAN]
BY DEF TypeOK

LEMMA InitHolds == ASSUME Init PROVE IInv
<1>1. TypeOK
  BY JobsAssumption, SettingsAssumption DEF Init, TypeOK, Nothing, NoGrant
<1>2. WithinDemands
  BY DEF Init, WithinDemands, InHand, InTable, InList, Nothing
<1>3. ListIsTrue /\ GrantFits
  BY DEF Init, ListIsTrue, GrantFits, Nothing
<1> QED
  BY <1>1, <1>2, <1>3 DEF IInv

(* A demand that is accepted is counted, and is in the hands of oarwalltime *)
LEMMA RequestKeeps ==
  ASSUME IInv, NEW j \in Jobs, NEW seconds \in Amounts, NEW who \in Askers,
         NEW force \in BOOLEAN, NEW delay \in BOOLEAN,
         Request(j, seconds, who, force, delay)
  PROVE  IInv'
<1> DEFINE remaining == End(j) - now
<1> DEFINE pending == IF remaining < -seconds THEN -remaining ELSE seconds
<1>1. pending \in Int
  BY JobTypes, SettingsAssumption DEF IInv, TypeOK
<1>2. /\ cmd = NoCommand
      /\ cmd' = [job |-> j, pending |-> pending, force |-> force /\ pending > 0,
                 delay |-> delay /\ pending > 0]
      /\ accepted' = [accepted EXCEPT ![j] = @ + Later(0, pending)]
      /\ UNCHANGED <<now, job, change, meta, crashes, given>>
      /\ requests < MaxRequests /\ requests' = requests + 1
  BY DEF Request
<1> HIDE DEF pending
<1>3. TypeOK'
  <2>1. cmd' \in [job : Jobs, pending : Int, force : BOOLEAN, delay : BOOLEAN]
    BY <1>1, <1>2
  <2>2. accepted' \in [Jobs -> Nat]
    BY <1>1, <1>2 DEF IInv, TypeOK, Later
  <2>3. requests' \in 0..MaxRequests
    BY <1>2, SettingsAssumption DEF IInv, TypeOK
  <2> QED
    BY <1>2, <2>1, <2>2, <2>3 DEF IInv, TypeOK, meta
<1>4. WithinDemands'
  <2> SUFFICES ASSUME NEW k \in Jobs
               PROVE  /\ given'[k] + InTable(k)' + InHand(k)' <= accepted'[k]
                      /\ given'[k] + InList(k)' + InHand(k)' <= accepted'[k]
    BY DEF WithinDemands
  <2>1. InTable(k)' = InTable(k) /\ InList(k)' = InList(k) /\ given' = given
    BY <1>2 DEF InTable, InList, meta
  <2>2. InHand(k) = 0
    BY <1>2 DEF InHand
  <2>3. InHand(k)' = IF k = j THEN Plus(pending) ELSE 0
    <3>1. CASE k = j
      <4>1. cmd'.job = j /\ cmd'.pending = pending
        BY <1>2
      <4>2. CASE cmd' # NoCommand
        BY <3>1, <4>1, <4>2 DEF InHand
      <4>3. CASE cmd' = NoCommand
        BY <3>1, <4>1, <4>3 DEF InHand, NoCommand, Plus
      <4> QED
        BY <4>2, <4>3
    <3>2. CASE k # j
      BY <1>2, <3>2 DEF InHand
    <3> QED
      BY <3>1, <3>2
  <2>4. accepted'[k] = IF k = j THEN accepted[k] + Plus(pending) ELSE accepted[k]
    BY <1>1, <1>2 DEF IInv, TypeOK, Later, Plus
  <2>5. /\ InTable(k) \in Nat /\ InList(k) \in Nat
        /\ given[k] \in Int /\ accepted[k] \in Nat
    BY DEF IInv, TypeOK, InTable, InList, Plus, Read
  <2>6. /\ given[k] + InTable(k) + InHand(k) <= accepted[k]
        /\ given[k] + InList(k) + InHand(k) <= accepted[k]
    BY DEF IInv, WithinDemands
  <2> QED
    BY <1>1, <2>1, <2>2, <2>3, <2>4, <2>5, <2>6 DEF Plus
<1>5. ListIsTrue' /\ GrantFits'
  BY <1>2 DEF IInv, ListIsTrue, GrantFits, NewEnd, End, Waiting, meta
<1> QED
  BY <1>3, <1>4, <1>5 DEF IInv

(* A demand that is written is in the table, where what it replaces is no  *)
(* longer asked for                                                        *)
LEMMA WriteRequestKeeps == ASSUME IInv, WriteRequest PROVE IInv'
<1>1. cmd \in [job : Jobs, pending : Int, force : BOOLEAN, delay : BOOLEAN]
  BY DEF WriteRequest, IInv, TypeOK
<1>2. /\ DOMAIN change' = DOMAIN change \cup {cmd.job}
      /\ change'[cmd.job] = [pending |-> cmd.pending, force |-> cmd.force,
                             delay |-> cmd.delay, granted |-> 0]
      /\ \A i \in DOMAIN change \ {cmd.job} : change'[i] = change[i]
  BY DEF WriteRequest, Demand
<1>3. TypeOK'
  BY <1>1, <1>2 DEF WriteRequest, IInv, TypeOK, meta
<1>4. WithinDemands'
  <2> SUFFICES ASSUME NEW k \in Jobs
               PROVE  /\ given'[k] + InTable(k)' + InHand(k)' <= accepted'[k]
                      /\ given'[k] + InList(k)' + InHand(k)' <= accepted'[k]
    BY DEF WithinDemands
  <2>1. given' = given /\ accepted' = accepted /\ InList(k)' = InList(k) /\ InHand(k)' = 0
    BY DEF WriteRequest, meta, InList, InHand
  <2>2. InTable(k)' = IF k = cmd.job THEN InHand(k) ELSE InTable(k)
    BY <1>1, <1>2 DEF InTable, InHand, WriteRequest
  <2>3. /\ InTable(k) \in Nat /\ InList(k) \in Nat /\ InHand(k) \in Nat
        /\ given[k] \in Int /\ accepted[k] \in Nat
    BY <1>1 DEF IInv, TypeOK, InTable, InList, InHand, Plus, Read
  <2>4. /\ given[k] + InTable(k) + InHand(k) <= accepted[k]
        /\ given[k] + InList(k) + InHand(k) <= accepted[k]
    BY DEF IInv, WithinDemands
  <2> QED
    BY <2>1, <2>2, <2>3, <2>4
<1>5. ListIsTrue' /\ GrantFits'
  BY DEF WriteRequest, IInv, ListIsTrue, GrantFits, NewEnd, End, Waiting, meta
<1> QED
  BY <1>3, <1>4, <1>5 DEF IInv

(* The list that is read says what the table and the jobs say *)
LEMMA ReadChangesKeeps == ASSUME IInv, ReadChanges PROVE IInv'
<1>1. /\ DOMAIN todo' \subseteq DOMAIN change \cap Jobs
      /\ \A j \in DOMAIN todo' : change[j].pending # 0 /\ todo'[j] = Snapshot(j)
  BY DEF ReadChanges, Running, Nothing
<1>2. \A j \in DOMAIN todo' : todo'[j] \in Read
  BY <1>1, JobTypes DEF IInv, TypeOK, Snapshot, Read
<1>3. TypeOK'
  <2>1. /\ phase' \in {"rest", "changes", "apply", "plan"} /\ phase' # "apply"
        /\ grant' = NoGrant
    BY DEF ReadChanges, IInv, TypeOK
  <2>2. readAt' \in 0..now'
    BY SettingsAssumption DEF ReadChanges, IInv, TypeOK
  <2>3. DOMAIN todo' \subseteq Jobs /\ \A j \in DOMAIN todo' : todo'[j] \in Read
    BY <1>1, <1>2
  <2> QED
    BY <2>1, <2>2, <2>3 DEF ReadChanges, IInv, TypeOK
<1>4. WithinDemands'
  <2> SUFFICES ASSUME NEW k \in Jobs
               PROVE  /\ given'[k] + InTable(k)' + InHand(k)' <= accepted'[k]
                      /\ given'[k] + InList(k)' + InHand(k)' <= accepted'[k]
    BY DEF WithinDemands
  <2>1. /\ given' = given /\ accepted' = accepted
        /\ InTable(k)' = InTable(k) /\ InHand(k)' = InHand(k)
    BY DEF ReadChanges, InTable, InHand
  <2>2. InList(k)' = InTable(k) \/ InList(k)' = 0
    BY <1>1 DEF InList, InTable, Snapshot
  <2>3. /\ InTable(k) \in Nat /\ InHand(k) \in Nat
        /\ given[k] \in Int /\ accepted[k] \in Nat
    BY DEF IInv, TypeOK, InTable, InHand, Plus, NoCommand
  <2>4. given[k] + InTable(k) + InHand(k) <= accepted[k]
    BY DEF IInv, WithinDemands
  <2> QED
    BY <2>1, <2>2, <2>3, <2>4
<1>5. ListIsTrue'
  <2>1. job' = job /\ phase' # "apply"
    BY DEF ReadChanges
  <2> QED
    BY <1>1, <2>1 DEF ListIsTrue, Snapshot
<1>6. GrantFits'
  BY DEF ReadChanges, GrantFits
<1> QED
  BY <1>3, <1>4, <1>5, <1>6 DEF IInv

(* An end of the process forgets the list and the grant, and no demand of  *)
(* the table with them                                                     *)
LEMMA EndsKeeps ==
  ASSUME IInv, Ends, TypeOK', UNCHANGED <<change, cmd, accepted, given>>
  PROVE  IInv'
<1>1. WithinDemands'
  <2> SUFFICES ASSUME NEW k \in Jobs
               PROVE  /\ given'[k] + InTable(k)' + InHand(k)' <= accepted'[k]
                      /\ given'[k] + InList(k)' + InHand(k)' <= accepted'[k]
    BY DEF WithinDemands
  <2>1. /\ given' = given /\ accepted' = accepted /\ InList(k)' = 0
        /\ InTable(k)' = InTable(k) /\ InHand(k)' = InHand(k)
    BY DEF InTable, InHand, InList, Ends, Nothing
  <2>2. /\ InTable(k) \in Nat /\ InHand(k) \in Nat
        /\ given[k] \in Int /\ accepted[k] \in Nat
    BY DEF IInv, TypeOK, InTable, InHand, Plus, NoCommand
  <2>3. given[k] + InTable(k) + InHand(k) <= accepted[k]
    BY DEF IInv, WithinDemands
  <2> QED
    BY <2>1, <2>2, <2>3
<1>2. ListIsTrue' /\ GrantFits'
  BY DEF Ends, Nothing, ListIsTrue, GrantFits
<1> QED
  BY <1>1, <1>2 DEF IInv

LEMMA FailKeeps == ASSUME IInv, NEW j \in Jobs, Fail(j) PROVE IInv'
<1>1. TypeOK'
  BY DEF Fail, Ends, Nothing, IInv, TypeOK, NoGrant
<1> QED
  BY <1>1, EndsKeeps DEF Fail

LEMMA CrashKeeps == ASSUME IInv, Crash PROVE IInv'
<1>1. TypeOK'
  <2>1. crashes' \in 0..MaxCrashes
    BY SettingsAssumption DEF Crash, IInv, TypeOK
  <2> QED
    BY <2>1 DEF Crash, Ends, Nothing, IInv, TypeOK, NoGrant
<1> QED
  BY <1>1, EndsKeeps DEF Crash

LEMMA MakePlanKeeps == ASSUME IInv, MakePlan PROVE IInv'
<1>1. PICK starts \in [Waiting \ Reservations -> now..(Horizon + 1)] : job' = Planned(starts)
  BY DEF MakePlan
<1>2. job' \in [Jobs -> [state : {"Waiting", "Running", "Over"}, start : Nat, walltime : Int]]
  <2>1. ASSUME NEW j \in Jobs, j \in DOMAIN starts
        PROVE  starts[j] \in Nat
    BY <2>1, <1>1, SettingsAssumption DEF IInv, TypeOK
  <2> QED
    BY <1>1, <2>1 DEF IInv, TypeOK, Planned
<1>3. TypeOK'
  BY <1>2 DEF MakePlan, Ends, Nothing, IInv, TypeOK, NoGrant
<1> QED
  BY <1>3, EndsKeeps DEF MakePlan

(* A demand that gets nothing now leaves the list, and stays in the table *)
LEMMA SkipKeeps == ASSUME IInv, NEW j \in Jobs, Skip(j) PROVE IInv'
<1>1. /\ todo' = [i \in DOMAIN todo \ {j} |-> todo[i]]
      /\ UNCHANGED <<now, job, change, cmd, phase, readAt, grant, requests, crashes, accepted, given>>
      /\ phase = "changes"
  BY DEF Skip, Without
<1>2. TypeOK'
  BY <1>1 DEF IInv, TypeOK
<1>3. WithinDemands'
  <2> SUFFICES ASSUME NEW k \in Jobs
               PROVE  /\ given'[k] + InTable(k)' + InHand(k)' <= accepted'[k]
                      /\ given'[k] + InList(k)' + InHand(k)' <= accepted'[k]
    BY DEF WithinDemands
  <2>1. /\ given' = given /\ accepted' = accepted
        /\ InTable(k)' = InTable(k) /\ InHand(k)' = InHand(k)
    BY <1>1 DEF InTable, InHand
  <2>2. InList(k)' = InList(k) \/ InList(k)' = 0
    BY <1>1 DEF InList
  <2>3. /\ InTable(k) \in Nat /\ InHand(k) \in Nat /\ InList(k) \in Nat
        /\ given[k] \in Int /\ accepted[k] \in Nat
    BY DEF IInv, TypeOK, InTable, InHand, InList, Plus, NoCommand, Read
  <2>4. /\ given[k] + InTable(k) + InHand(k) <= accepted[k]
        /\ given[k] + InList(k) + InHand(k) <= accepted[k]
    BY DEF IInv, WithinDemands
  <2> QED
    BY <2>1, <2>2, <2>3, <2>4
<1>4. ListIsTrue' /\ GrantFits'
  BY <1>1 DEF IInv, ListIsTrue, GrantFits
<1> QED
  BY <1>2, <1>3, <1>4 DEF IInv

(* The first commit takes from the demand what it gives, and gives what    *)
(* the plan leaves                                                         *)
LEMMA GrantKeeps == ASSUME IInv, NEW j \in Jobs, Grant(j) PROVE IInv'
<1> DEFINE t == todo[j]
<1>0. PICK fit \in Fits(j, t) :
        /\ t.pending < 0 \/ (~NoContainer(j, t) /\ fit > 0)
        /\ change' = Demand(j, Left(t, fit), FALSE, FALSE, t.granted + fit)
        /\ grant' = [job |-> j, walltime |-> t.walltime + fit, asked |-> t.pending, delay |-> t.delay]
        /\ given' = [given EXCEPT ![j] = IF t.pending > 0 THEN @ + fit ELSE @]
  BY DEF Grant
<1>1. /\ phase = "changes" /\ phase' = "apply" /\ j \in DOMAIN todo
      /\ t.pending < 0 \/ fit > 0
      /\ grant' = [job |-> j, walltime |-> t.walltime + fit, asked |-> t.pending, delay |-> t.delay]
      /\ given' = [given EXCEPT ![j] = IF t.pending > 0 THEN @ + fit ELSE @]
      /\ todo' = [i \in DOMAIN todo \ {j} |-> todo[i]]
      /\ UNCHANGED <<now, job, cmd, readAt, requests, crashes, accepted>>
  BY <1>0 DEF Grant, Without
<1>2. /\ DOMAIN change' = DOMAIN change \cup {j}
      /\ change'[j] = [pending |-> t.pending - fit, force |-> FALSE, delay |-> FALSE,
                       granted |-> t.granted + fit]
      /\ \A i \in DOMAIN change \ {j} : change'[i] = change[i]
  BY <1>0 DEF Demand, Left
<1>3. /\ t \in Read /\ t.pending # 0
      /\ t.start = job[j].start /\ t.walltime = job[j].walltime
  BY <1>1 DEF IInv, TypeOK, ListIsTrue
<1>4. TypeOK
  BY DEF IInv
<1>5. /\ fit \in Int
      /\ t.pending > 0 => fit \in Nat /\ fit <= t.pending
  <2>1. CASE t.pending > 0
    <3>1. fit # 0
      BY <1>1, <1>3, <2>1 DEF Read
    <3> HIDE DEF t
    <3> QED
      BY <1>0, <1>3, <1>4, <2>1, <3>1, FitIsSafe
  <2>2. CASE ~(t.pending > 0)
    <3>1. t.pending < 0
      BY <1>3, <2>2 DEF Read
    <3> HIDE DEF t
    <3> QED
      BY <1>0, <1>3, <1>4, <2>2, <3>1, CutIsWhole
  <2> QED
    BY <2>1, <2>2
<1>6. TypeOK'
  <2>1. grant' \in [job : Jobs, walltime : Int, asked : Int, delay : BOOLEAN] /\ grant'.job = j
    BY <1>1, <1>3, <1>5 DEF Read
  <2>2. change'[j] \in [pending : Int, force : BOOLEAN, delay : BOOLEAN, granted : Int]
    BY <1>2, <1>3, <1>5 DEF Read
  <2>3. given' \in [Jobs -> Int]
    BY <1>1, <1>4, <1>5 DEF TypeOK
  <2>4. grant' # NoGrant
    BY <1>1, <1>3 DEF NoGrant
  <2>5. /\ DOMAIN change' \subseteq Jobs
        /\ \A i \in DOMAIN change' :
             change'[i] \in [pending : Int, force : BOOLEAN, delay : BOOLEAN, granted : Int]
    BY <1>2, <1>4, <2>2 DEF TypeOK
  <2>6. DOMAIN todo' \subseteq Jobs /\ \A i \in DOMAIN todo' : todo'[i] \in Read
    BY <1>1, <1>4 DEF TypeOK
  <2> HIDE DEF t
  <2> QED
    BY <1>1, <1>4, <2>1, <2>3, <2>4, <2>5, <2>6 DEF TypeOK
<1>7. WithinDemands'
  <2> SUFFICES ASSUME NEW k \in Jobs
               PROVE  /\ given'[k] + InTable(k)' + InHand(k)' <= accepted'[k]
                      /\ given'[k] + InList(k)' + InHand(k)' <= accepted'[k]
    BY DEF WithinDemands
  <2>1. accepted' = accepted /\ InHand(k)' = InHand(k)
    BY <1>1 DEF InHand
  <2>2. /\ InTable(k) \in Nat /\ InHand(k) \in Nat /\ InList(k) \in Nat
        /\ given[k] \in Int /\ accepted[k] \in Nat
    BY <1>4 DEF TypeOK, InTable, InHand, InList, Plus, NoCommand, Read
  <2>3. /\ given[k] + InTable(k) + InHand(k) <= accepted[k]
        /\ given[k] + InList(k) + InHand(k) <= accepted[k]
    BY DEF IInv, WithinDemands
  <2>4. CASE k = j
    <3>1. InTable(k)' = Plus(t.pending - fit)
      BY <1>2, <2>4 DEF InTable
    <3>2. InList(k) = Plus(t.pending) /\ InList(k)' = 0
      BY <1>1, <2>4 DEF InList
    <3>3. given'[k] = IF t.pending > 0 THEN given[k] + fit ELSE given[k]
      BY <1>1, <1>4, <2>4 DEF TypeOK
    <3>4. CASE t.pending > 0
      <4>1. t.pending \in Int
        BY <1>3 DEF Read
      <4> HIDE DEF t
      <4> QED
        BY <1>5, <2>1, <2>2, <2>3, <3>1, <3>2, <3>3, <3>4, <4>1 DEF Plus
    <3>5. CASE ~(t.pending > 0)
      (* a reduction is cut to what remains: nothing is left to be asked *)
      <4>1. /\ t.start \in Int /\ t.walltime \in Int /\ t.pending \in Int
            /\ SuspendedFor[j] \in Int
        BY <1>3, JobsAssumption DEF Read
      <4>2. t.pending < 0
        BY <1>3, <3>5, <4>1
      <4>4. t.pending - fit <= 0
        <5> HIDE DEF t
        <5> QED
          BY <1>0, <1>3, <1>4, <3>5, <4>2, CutIsWhole
      <4>5. InTable(k)' = 0
        <5> HIDE DEF t
        <5> QED
          BY <1>5, <3>1, <4>1, <4>4 DEF Plus
      <4> HIDE DEF t
      <4> QED
        BY <2>1, <2>2, <2>3, <3>2, <3>3, <3>5, <4>5
    <3> QED
      BY <3>4, <3>5
  <2>5. CASE k # j
    <3>1. InTable(k)' = InTable(k) /\ InList(k)' = InList(k) /\ given'[k] = given[k]
      BY <1>1, <1>2, <1>4, <2>5 DEF InTable, InList, TypeOK
    <3> QED
      BY <2>1, <2>3, <3>1
  <2> QED
    BY <2>4, <2>5
<1>8. ListIsTrue'
  BY <1>1, <1>4 DEF IInv, ListIsTrue, TypeOK
<1>9. GrantFits'
  <2> SUFFICES ASSUME grant'.asked > 0 PROVE GrantFits'
    BY DEF GrantFits
  <2> DEFINE end == t.start + t.walltime + SuspendedFor[j]
  <2>1. t.pending > 0 /\ grant'.job = j /\ grant'.delay = t.delay /\ grant'.walltime = t.walltime + fit
    BY <1>1
  <2>2. fit # 0
    BY <1>1, <1>3, <2>1 DEF Read
  <2>3. /\ \A k \in Waiting \ Besteffort :
             Share(j, k) /\ job[k].start > end /\ (k \in Reservations \/ ~t.delay)
               => end + fit + Security <= job[k].start
        /\ j \in DOMAIN InnerOf =>
             end + fit <= job[InnerOf[j]].start + job[InnerOf[j]].walltime
    <3> HIDE DEF t
    <3> QED
      BY <1>0, <1>3, <1>4, <2>1, <2>2, FitIsSafe
  <2>4. job' = job /\ End(grant.job)' = end
    <3>1. End(grant.job)' = job'[grant'.job].start + job'[grant'.job].walltime + SuspendedFor[grant'.job]
      BY DEF End
    <3> QED
      BY <1>1, <1>3, <2>1, <3>1
  <2>5. NewEnd' = end + fit
    <3>1. NewEnd' = job[j].start + (t.walltime + fit) + SuspendedFor[j]
      BY <1>1, <2>1 DEF NewEnd
    <3>2. /\ t.start \in Int /\ t.walltime \in Int /\ SuspendedFor[j] \in Int
      BY <1>3, JobsAssumption DEF Read
    <3> HIDE DEF t
    <3> QED
      BY <1>3, <1>5, <3>1, <3>2
  <2>6. Waiting' = Waiting
    BY <2>4 DEF Waiting
  <2> HIDE DEF t, end
  <2> QED
    BY <2>1, <2>3, <2>4, <2>5, <2>6 DEF GrantFits, Share
<1> QED
  BY <1>6, <1>7, <1>8, <1>9 DEF IInv

(* The second commit: the list no longer speaks of the job *)
LEMMA ApplyKeeps == ASSUME IInv, Apply PROVE IInv'
<1>1. /\ phase = "apply" /\ phase' = "changes" /\ grant' = NoGrant
      /\ job' = [job EXCEPT ![grant.job].walltime = grant.walltime]
      /\ UNCHANGED <<now, change, cmd, readAt, todo, requests, crashes, accepted, given>>
  BY DEF Apply
<1>2. grant \in [job : Jobs, walltime : Int, asked : Int, delay : BOOLEAN]
  BY <1>1, GrantIsTyped DEF IInv
<1>3. job' \in [Jobs -> [state : {"Waiting", "Running", "Over"}, start : Nat, walltime : Int]]
  BY <1>1, <1>2 DEF IInv, TypeOK
<1>4. TypeOK'
  BY <1>1, <1>3 DEF IInv, TypeOK
<1>5. WithinDemands'
  BY <1>1 DEF IInv, WithinDemands, InHand, InTable, InList
<1>6. ListIsTrue'
  <2>1. \A j \in DOMAIN todo : j \in Jobs /\ j # grant.job
    BY <1>1 DEF IInv, ListIsTrue, TypeOK
  <2>2. \A j \in DOMAIN todo : job'[j] = job[j]
    BY <1>1, <2>1 DEF IInv, TypeOK
  <2> QED
    BY <1>1, <2>2 DEF IInv, ListIsTrue
<1>7. GrantFits'
  BY <1>1 DEF GrantFits
<1> QED
  BY <1>4, <1>5, <1>6, <1>7 DEF IInv

LEMMA PlanningKeeps == ASSUME IInv, Planning PROVE IInv'
<1>1. TypeOK'
  BY DEF Planning, IInv, TypeOK
<1>2. WithinDemands'
  BY DEF Planning, IInv, WithinDemands, InHand, InTable, InList
<1>3. ListIsTrue' /\ GrantFits'
  BY DEF Planning, IInv, ListIsTrue, GrantFits
<1> QED
  BY <1>1, <1>2, <1>3 DEF IInv

(* A job that starts or stops keeps its dates, and waits no more *)
LEMMA StateKeeps ==
  ASSUME IInv, NEW j \in Jobs, NEW s \in {"Running", "Over"},
         job' = [job EXCEPT ![j].state = s],
         UNCHANGED <<now, change, cmd, meta, requests, crashes, accepted, given>>
  PROVE  IInv'
<1>1. job' \in [Jobs -> [state : {"Waiting", "Running", "Over"}, start : Nat, walltime : Int]]
  BY DEF IInv, TypeOK
<1>2. TypeOK'
  BY <1>1 DEF IInv, TypeOK, meta
<1>3. WithinDemands'
  BY DEF meta, IInv, WithinDemands, InHand, InTable, InList
<1>4. \A k \in Jobs : job'[k].start = job[k].start /\ job'[k].walltime = job[k].walltime
  BY DEF IInv, TypeOK
<1>5. ListIsTrue'
  BY <1>4 DEF meta, IInv, ListIsTrue, TypeOK
<1>6. GrantFits'
  <2> SUFFICES ASSUME phase = "apply", grant.asked > 0 PROVE GrantFits'
    BY DEF GrantFits, meta
  <2>1. grant' = grant /\ grant.job \in Jobs /\ Waiting' \subseteq Waiting
    BY GrantIsTyped DEF meta, IInv, TypeOK, Waiting
  <2>2. NewEnd' = NewEnd /\ End(grant.job)' = End(grant.job)
    BY <1>4, <2>1 DEF NewEnd, End
  <2>3. \A k \in Waiting' : k \in Jobs /\ job'[k].start = job[k].start
    BY <1>4 DEF Waiting
  <2>4. grant.job \in DOMAIN InnerOf => InnerOf[grant.job] \in Jobs
    BY ContainersAssumption
  <2> QED
    BY <1>4, <2>1, <2>2, <2>3, <2>4 DEF IInv, GrantFits, Share
<1> QED
  BY <1>2, <1>3, <1>5, <1>6 DEF IInv

LEMMA TickKeeps == ASSUME IInv, Tick PROVE IInv'
<1>1. TypeOK'
  <2>1. now' \in 0..Horizon /\ readAt' \in 0..now'
    BY SettingsAssumption DEF Tick, meta, IInv, TypeOK
  <2> QED
    BY <2>1 DEF Tick, meta, IInv, TypeOK
<1>2. WithinDemands'
  BY DEF Tick, meta, IInv, WithinDemands, InHand, InTable, InList
<1>3. ListIsTrue' /\ GrantFits'
  BY DEF Tick, meta, IInv, ListIsTrue, GrantFits, NewEnd, End, Waiting
<1> QED
  BY <1>1, <1>2, <1>3 DEF IInv

LEMMA StutterKeeps == ASSUME IInv, UNCHANGED vars PROVE IInv'
<1>1. TypeOK'
  BY DEF vars, meta, IInv, TypeOK
<1>2. WithinDemands'
  BY DEF vars, meta, IInv, WithinDemands, InHand, InTable, InList
<1>3. ListIsTrue' /\ GrantFits'
  BY DEF vars, meta, IInv, ListIsTrue, GrantFits, NewEnd, End, Waiting
<1> QED
  BY <1>1, <1>2, <1>3 DEF IInv

LEMMA StepKeeps == ASSUME IInv, [Next]_vars PROVE IInv'
<1>1. ASSUME NEW j \in Jobs, NEW seconds \in Amounts, NEW who \in Askers,
             NEW force \in BOOLEAN, NEW delay \in BOOLEAN,
             Request(j, seconds, who, force, delay)
      PROVE  IInv'
  BY <1>1, RequestKeeps
<1>2. CASE WriteRequest
  BY <1>2, WriteRequestKeeps
<1>3. CASE ReadChanges
  BY <1>3, ReadChangesKeeps
<1>4. CASE Apply
  BY <1>4, ApplyKeeps
<1>5. CASE Planning
  BY <1>5, PlanningKeeps
<1>6. CASE MakePlan
  BY <1>6, MakePlanKeeps
<1>7. CASE Crash
  BY <1>7, CrashKeeps
<1>8. CASE Tick
  BY <1>8, TickKeeps
<1>9. ASSUME NEW j \in Jobs, Skip(j) \/ Fail(j) \/ Grant(j) \/ Start(j) \/ Stop(j)
      PROVE  IInv'
  <2>1. CASE Start(j)
    BY <2>1, StateKeeps DEF Start
  <2>2. CASE Stop(j)
    BY <2>2, StateKeeps DEF Stop
  <2> QED
    BY <1>9, <2>1, <2>2, SkipKeeps, FailKeeps, GrantKeeps
<1>10. CASE UNCHANGED vars
  BY <1>10, StutterKeeps
<1> QED
  BY <1>1, <1>2, <1>3, <1>4, <1>5, <1>6, <1>7, <1>8, <1>9, <1>10 DEF Next

(* The invariant holds in every state that oarwalltime, the metascheduler  *)
(* and the jobs reach                                                      *)
THEOREM Invariance == Spec => []IInv
<1>1. Init => IInv
  BY InitHolds
<1>2. IInv /\ [Next]_vars => IInv'
  BY StepKeeps
<1> QED
  BY <1>1, <1>2, PTL DEF Spec

(* However demands, commits and crashes interleave, a job is never granted *)
(* more than its accepted demands together                                 *)
THEOREM GrantsStayBounded == Spec => []GrantsAreBounded
<1>1. IInv => GrantsAreBounded
  <2> SUFFICES ASSUME IInv, NEW j \in Jobs PROVE given[j] <= accepted[j]
    BY DEF GrantsAreBounded, NeverMoreThanAsked, IInv
  <2>1. /\ InTable(j) \in Nat /\ InHand(j) \in Nat
        /\ given[j] \in Int /\ accepted[j] \in Nat
    BY DEF IInv, TypeOK, InTable, InHand, Plus, NoCommand
  <2>2. given[j] + InTable(j) + InHand(j) <= accepted[j]
    BY DEF IInv, WithinDemands
  <2> QED
    BY <2>1, <2>2
<1> QED
  BY <1>1, Invariance, PTL

(* Only the second commit makes the job of the grant longer *)
LEMMA LongerIsApply ==
  ASSUME IInv, [Next]_vars, NEW j \in Jobs, Longer(j)
  PROVE  Apply
<1>1. phase = "apply" /\ job' # job /\ job'[j].walltime > job[j].walltime
  BY JobTypes DEF Longer, IInv
<1>2. job'[j].walltime # job[j].walltime
  BY <1>1, JobTypes DEF IInv
<1>3. \A k \in Jobs : ~Start(k) /\ ~Stop(k)
  <2> SUFFICES ASSUME NEW k \in Jobs, Start(k) \/ Stop(k) PROVE FALSE
    OBVIOUS
  <2>1. PICK s \in {"Running", "Over"} : job' = [job EXCEPT ![k].state = s]
    BY DEF Start, Stop
  <2> QED
    BY <1>2, <2>1 DEF IInv, TypeOK
<1> QED
  BY <1>1, <1>3 DEF Next, Request, WriteRequest, ReadChanges, Planning, MakePlan, Crash, Tick,
                    Skip, Fail, Grant, vars

(* What the second commit makes of the end of the job *)
LEMMA ApplyEnds ==
  ASSUME IInv, Apply
  PROVE  /\ grant.job \in Jobs
         /\ job'[grant.job].start + job'[grant.job].walltime + SuspendedFor[grant.job] = NewEnd
         /\ \A k \in Jobs \ {grant.job} : job'[k] = job[k]
<1>1. grant \in [job : Jobs, walltime : Int, asked : Int, delay : BOOLEAN]
  BY GrantIsTyped DEF Apply, IInv
<1>2. job' = [job EXCEPT ![grant.job].walltime = grant.walltime]
  BY DEF Apply
<1> QED
  BY <1>1, <1>2 DEF NewEnd, IInv, TypeOK

(* A longer walltime leaves reservations where they are, and the other     *)
(* jobs unless the user asked to delay them                                *)
THEOREM LongerJobsKeepTheNext == Spec => LaterJobsAreKept
<1>1. ASSUME IInv, [Next]_vars, NEW j \in Jobs, NEW k \in Jobs,
             Longer(j), Share(j, k), k \in Waiting \ Besteffort, job[k].start > End(j),
             k \in Reservations \/ ~grant.delay
      PROVE  End(j)' + Security <= job[k].start
  <2>1. Apply /\ grant.job = j /\ phase = "apply" /\ grant.asked > 0
    BY <1>1, LongerIsApply DEF Longer
  <2>2. End(j)' = NewEnd
    BY <1>1, <2>1, ApplyEnds DEF End
  <2>3. NewEnd + Security <= job[k].start
    BY <1>1, <2>1 DEF IInv, GrantFits
  <2> QED
    BY <2>2, <2>3
<1>2. IInv /\ [Next]_vars =>
        [\A j, k \in Jobs :
           /\ Longer(j) /\ Share(j, k) /\ k \in Waiting \ Besteffort
           /\ job[k].start > End(j)
           /\ k \in Reservations \/ ~grant.delay
           => End(j)' + Security <= job[k].start]_vars
  BY <1>1
<1> QED
  BY <1>2, Invariance, PTL DEF Spec, LaterJobsAreKept

(* An inner job that was given time ends within its container *)
THEOREM InnerJobsEndWithin == Spec => InnerEndsWithin
<1>1. ASSUME IInv, [Next]_vars, NEW j \in DOMAIN InnerOf, Longer(j)
      PROVE  End(j)' <= End(InnerOf[j])'
  <2>1. j \in Jobs /\ InnerOf[j] \in Jobs
    BY ContainersAssumption
  <2>2. Apply /\ grant.job = j /\ phase = "apply" /\ grant.asked > 0
    BY <1>1, <2>1, LongerIsApply DEF Longer
  <2>3. IInv'
    BY <1>1, StepKeeps
  <2>4. End(j)' \in Int /\ End(InnerOf[j])' \in Int
    <3>1. /\ job'[j].start \in Nat /\ job'[j].walltime \in Int
          /\ job'[InnerOf[j]].start \in Nat /\ job'[InnerOf[j]].walltime \in Int
      BY <2>1, <2>3 DEF IInv, TypeOK
    <3> QED
      BY <2>1, <3>1, JobsAssumption DEF End
  <2>5. CASE InnerOf[j] = j
    BY <2>4, <2>5 DEF End
  <2>6. CASE InnerOf[j] # j
    <3>1. End(j)' = NewEnd
      BY <1>1, <2>2, ApplyEnds DEF End
    <3>2. NewEnd <= job[InnerOf[j]].start + job[InnerOf[j]].walltime
      BY <1>1, <2>2 DEF IInv, GrantFits
    <3>3. job'[InnerOf[j]] = job[InnerOf[j]]
      BY <1>1, <2>1, <2>2, <2>6, ApplyEnds
    <3>4. /\ job[InnerOf[j]].start \in Nat /\ job[InnerOf[j]].walltime \in Int
          /\ SuspendedFor[InnerOf[j]] \in Nat
      BY <1>1, <2>1, JobTypes DEF IInv
    <3>5. End(InnerOf[j])' = job[InnerOf[j]].start + job[InnerOf[j]].walltime + SuspendedFor[InnerOf[j]]
      BY <3>3 DEF End
    <3> QED
      BY <2>4, <3>1, <3>2, <3>4, <3>5
  <2> QED
    BY <2>5, <2>6
<1>2. IInv /\ [Next]_vars =>
        [\A j \in DOMAIN InnerOf : Longer(j) => End(j)' <= End(InnerOf[j])']_vars
  BY <1>1
<1> QED
  BY <1>2, Invariance, PTL DEF Spec, InnerEndsWithin
=============================================================================
