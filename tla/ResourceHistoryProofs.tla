----------------------- MODULE ResourceHistoryProofs -----------------------
(***************************************************************************)
(* For any resources, jobs, administrators and bounds: a request is        *)
(* forgotten only when it has been applied, and the dead switch takes only *)
(* resources that have been in their state for its time. The invariant     *)
(* relates the list that NodeChangeState works on to the column            *)
(* next_state, and the open rows of the history to the date of the last    *)
(* change, commit by commit.                                               *)
(*                                                                         *)
(* A second invariant, on top of the first, is about what the tables tell: *)
(* the open row of a resource tells its state and the rows follow each     *)
(* other; the event of a suspicion that was cut is still there; and        *)
(* between two commits of a command on available_upto, what it has read,   *)
(* written and logged belong together.                                     *)
(***************************************************************************)
EXTENDS ResourceHistory, SequenceTheorems, TLAPS

Rows == [value : States, start : Nat, stop : Nat]

Types ==
  /\ known \subseteq Resources
  /\ state \in [Resources -> States]
  /\ next \in [Resources -> States \cup {"UnChanged"}]
  /\ since \in [Resources -> Nat]
  /\ log \in [Resources -> Seq(Rows)]
  /\ clock \in Nat \ {0}
  /\ date \in Nat

(* A resource that has never been there has no row, and cannot be changed *)
NeverThere ==
  \A r \in Resources : since[r] = 0 => r \notin known /\ log[r] = <<>>

(* The list of NodeChangeState has each resource once *)
ListIsSound ==
  /\ Applying =>
       /\ todo \subseteq [res : Resources, asked : States]
       /\ \A c, d \in todo : c.res = d.res => c = d
       /\ \A c \in todo : since[c.res] # 0
  /\ program \in {"applying", "fragging"} => hand \in todo
  /\ program = "switch" => todo \subseteq {r \in Resources : since[r] # 0}

(* What was read is still asked for, or somebody has asked since then *)
AskedIsNext ==
  /\ Applying =>
       \A c \in todo : \/ program = "fragging" /\ c = hand
                       \/ next[c.res] = c.asked
                       \/ c.res \in hurried
  /\ program = "fragging" /\ hand.res \in known =>
       next[hand.res] = "UnChanged" \/ hand.res \in hurried

NoneOpen(r) == \A i \in DOMAIN log[r] : log[r][i].stop # 0

(* An open row begins at the last change of the state, or after it *)
OpenAfter(r) == \A i \in DOMAIN log[r] : log[r][i].stop = 0 => since[r] <= log[r][i].start

OpenIsSince ==
  /\ \A r \in Resources : since[r] <= clock
  /\ \A r \in known \ (late \cup torn) : ~InSuspicion(r) => OpenAfter(r)
  /\ program = "opening" =>
       \A r \in known \ late : HostOf[r] = hand.host => since[r] <= date /\ NoneOpen(r)

(* What the dead switch has read is old *)
SwitchIsDue ==
  program = "switch" =>
    \A r \in (todo \cap known) \ (late \cup torn) : since[r] + Timeout < clock

IInv == Types /\ NeverThere /\ ListIsSound /\ AskedIsNext /\ OpenIsSince /\ SwitchIsDue

-----------------------------------------------------------------------------
(* UPDATE ... SET date_stop: no row is open any more *)
LEMMA ClosedRows ==
  ASSUME NEW rs \in Seq(Rows), clock \in Nat \ {0}
  PROVE  /\ Closed(rs) \in Seq(Rows)
         /\ \A i \in DOMAIN Closed(rs) : Closed(rs)[i].stop # 0
<1>1. Len(rs) \in Nat /\ DOMAIN rs = 1..Len(rs) /\ \A i \in 1..Len(rs) : rs[i] \in Rows
  BY LenProperties
<1>2. Closed(rs) = [i \in 1..Len(rs) |-> IF rs[i].stop = 0 THEN [rs[i] EXCEPT !.stop = clock] ELSE rs[i]]
  BY <1>1 DEF Closed
<1>3. \A i \in 1..Len(rs) : Closed(rs)[i] \in Rows /\ Closed(rs)[i].stop # 0
  BY <1>1, <1>2 DEF Rows
<1>4. Closed(rs) \in [1..Len(rs) -> Rows]
  BY <1>2, <1>3
<1>5. Closed(rs) \in Seq(Rows)
  BY <1>1, <1>4, SeqDef
<1> QED
  BY <1>2, <1>3, <1>5

(* INSERT: one more row, after the others *)
LEMMA RowAdded ==
  ASSUME NEW rs \in Seq(Rows), NEW row \in Rows
  PROVE  /\ Append(rs, row) \in Seq(Rows) /\ Append(rs, row) # <<>>
         /\ \A i \in DOMAIN Append(rs, row) :
              Append(rs, row)[i] = row \/ (i \in DOMAIN rs /\ Append(rs, row)[i] = rs[i])
OBVIOUS

-----------------------------------------------------------------------------
LEMMA InitHolds == ASSUME Init PROVE IInv
<1>1. Types
  <2>1. /\ known \subseteq Resources
        /\ state \in [Resources -> States] /\ next \in [Resources -> States \cup {"UnChanged"}]
        /\ since \in [Resources -> Nat]
        /\ clock = 1 /\ date = 0
    BY HostAssumption DEF Init, States
  <2>2. log \in [Resources -> Seq(Rows)]
    <3>1. <<Row("Alive", 1)>> \in Seq(Rows) /\ <<>> \in Seq(Rows)
      BY DEF Row, Rows, States
    <3> QED
      BY <3>1 DEF Init
  <2> QED
    BY <2>1, <2>2 DEF Types
<1>2. NeverThere
  BY DEF Init, NeverThere
<1>3. ListIsSound /\ AskedIsNext /\ SwitchIsDue
  BY DEF Init, ListIsSound, AskedIsNext, SwitchIsDue, Applying
<1>4. OpenIsSince
  <2>1. \A r \in known : OpenAfter(r)
    <3> SUFFICES ASSUME NEW r \in known PROVE OpenAfter(r)
      OBVIOUS
    <3>1. log[r] = <<Row("Alive", 1)>> /\ since[r] = 1
      BY HostAssumption DEF Init
    <3>2. \A i \in DOMAIN <<Row("Alive", 1)>> : <<Row("Alive", 1)>>[i] = Row("Alive", 1)
      OBVIOUS
    <3> QED
      BY <3>1, <3>2 DEF OpenAfter, Row
  <2>2. \A r \in Resources : since[r] <= clock
    BY DEF Init
  <2> QED
    BY <2>1, <2>2 DEF Init, OpenIsSince
<1> QED
  BY <1>1, <1>2, <1>3, <1>4 DEF IInv

(* What users, jobs and the maintenance write is not looked at *)
core == <<known, state, next, since, log, clock, date, program, todo, hand, hurried, late, torn>>

LEMMA CoreKeeps == ASSUME IInv, UNCHANGED core PROVE IInv'
<1>1. Types' /\ NeverThere' /\ ListIsSound' /\ AskedIsNext' /\ SwitchIsDue'
  BY DEF core, IInv, Types, NeverThere, ListIsSound, AskedIsNext, SwitchIsDue, Applying
<1>2. OpenIsSince'
  BY DEF core, IInv, OpenIsSince, OpenAfter, NoneOpen, InSuspicion
<1> QED
  BY <1>1, <1>2 DEF IInv

(* A request that is made while NodeChangeState applies others is known *)
LEMMA AskKeeps ==
  ASSUME IInv, NEW r \in Resources, NEW s \in States, AskFor(r, s),
         UNCHANGED <<known, state, since, log, clock, date, program, todo, hand, late, torn>>
  PROVE  IInv'
<1>1. Types'
  BY DEF AskFor, IInv, Types
<1>2. NeverThere' /\ ListIsSound' /\ SwitchIsDue'
  BY DEF IInv, NeverThere, ListIsSound, SwitchIsDue, Applying
<1>3. AskedIsNext'
  <2>1. \A q \in Resources \ {r} : next'[q] = next[q]
    BY DEF AskFor, IInv, Types
  <2>2. Applying => hurried' = hurried \cup {r}
    BY DEF AskFor
  <2>3. Applying => \A c \in todo : c.res \in Resources
    BY DEF IInv, ListIsSound
  <2>4. Applying => \A c \in todo : \/ program = "fragging" /\ c = hand
                                   \/ next'[c.res] = c.asked
                                   \/ c.res \in hurried'
    BY <2>1, <2>2, <2>3 DEF IInv, AskedIsNext
  <2>5. program = "fragging" /\ hand.res \in known => next'[hand.res] = "UnChanged" \/ hand.res \in hurried'
    BY <2>1, <2>2 DEF IInv, AskedIsNext, Types, Applying
  <2> QED
    BY <2>4, <2>5 DEF AskedIsNext, Applying
<1>4. OpenIsSince'
  BY DEF IInv, OpenIsSince, OpenAfter, NoneOpen, InSuspicion
<1> QED
  BY <1>1, <1>2, <1>3, <1>4 DEF IInv

LEMMA TickKeeps == ASSUME IInv, Tick PROVE IInv'
<1> USE DEF Tick, table, rows, prog, history
<1>1. Types' /\ NeverThere' /\ ListIsSound' /\ AskedIsNext'
  BY DEF IInv, Types, NeverThere, ListIsSound, AskedIsNext, Applying
<1>2. OpenIsSince'
  <2>1. \A r \in Resources : since'[r] <= clock'
    BY DEF IInv, Types, OpenIsSince
  <2> QED
    BY <2>1 DEF IInv, OpenIsSince, OpenAfter, NoneOpen, InSuspicion
<1>3. SwitchIsDue'
  BY BoundAssumption DEF IInv, Types, SwitchIsDue
<1> QED
  BY <1>1, <1>2, <1>3 DEF IInv

(* A resource comes with a row that begins when it comes *)
LEMMA AddResourceKeeps == ASSUME IInv, NEW r \in Resources, AddResource(r) PROVE IInv'
<1>1. /\ since[r] = 0 /\ r \notin known /\ known' = known \cup {r}
      /\ log' = [log EXCEPT ![r] = FirstRows] /\ since' = [since EXCEPT ![r] = clock]
      /\ UNCHANGED <<state, next, clock, date, program, todo, hand, hurried, torn>>
      /\ late \subseteq late'
      /\ InSuspicion(r) => r \in late'
  BY DEF AddResource, prog, InSuspicion, IInv, NeverThere
<1>2. FirstRows \in Seq(Rows) /\ \A i \in DOMAIN FirstRows : FirstRows[i].start = clock
  <2>1. Row("Alive", clock) \in Rows
    BY DEF IInv, Types, Row, Rows, States
  <2> QED
    BY <2>1 DEF FirstRows, Row
<1>3. Types'
  BY <1>1, <1>2 DEF IInv, Types
<1>4. NeverThere'
  BY <1>1 DEF IInv, Types, NeverThere
<1>5. ListIsSound'
  <2>1. \A q \in Resources : since[q] # 0 => since'[q] # 0
    BY <1>1 DEF IInv, Types
  <2>2. Applying => \A c \in todo : c.res \in Resources
    BY DEF IInv, ListIsSound
  <2> QED
    BY <1>1, <2>1, <2>2 DEF IInv, ListIsSound, Applying
<1>6. AskedIsNext'
  <2>1. program = "fragging" => hand.res # r
    BY <1>1 DEF IInv, ListIsSound, Applying
  <2> QED
    BY <1>1, <2>1 DEF IInv, AskedIsNext, Applying
<1>7. OpenIsSince'
  <2>1. \A q \in Resources : since'[q] <= clock'
    BY <1>1 DEF IInv, Types, OpenIsSince
  <2>2. \A q \in known : log'[q] = log[q] /\ since'[q] = since[q] /\ (InSuspicion(q)' <=> InSuspicion(q))
    BY <1>1 DEF IInv, Types, InSuspicion
  <2>3. OpenAfter(r)'
    BY <1>1, <1>2 DEF IInv, Types, OpenAfter
  <2>4. \A q \in known' \ (late' \cup torn') : ~InSuspicion(q)' => OpenAfter(q)'
    BY <1>1, <2>2, <2>3 DEF IInv, OpenIsSince, OpenAfter
  <2>5. program' = "opening" =>
          \A q \in known' \ late' : HostOf[q] = hand'.host => since'[q] <= date' /\ NoneOpen(q)'
    BY <1>1, <2>2 DEF IInv, OpenIsSince, NoneOpen, InSuspicion
  <2> QED
    BY <2>1, <2>4, <2>5 DEF OpenIsSince
<1>8. SwitchIsDue'
  <2>1. program = "switch" => r \notin todo
    BY <1>1 DEF IInv, ListIsSound
  <2>2. \A q \in known : since'[q] = since[q]
    BY <1>1 DEF IInv, Types
  <2> QED
    BY <1>1, <2>1, <2>2 DEF IInv, SwitchIsDue
<1> QED
  BY <1>3, <1>4, <1>5, <1>6, <1>7, <1>8 DEF IInv

LEMMA RemoveResourceKeeps == ASSUME IInv, NEW r \in Resources, RemoveResource(r) PROVE IInv'
<1>1. /\ known' = known \ {r} /\ log' = [log EXCEPT ![r] = <<>>]
      /\ UNCHANGED <<state, next, since, clock, date, program, todo, hand, hurried, late, torn>>
  BY DEF RemoveResource, prog, history
<1>2. Types' /\ NeverThere' /\ ListIsSound' /\ AskedIsNext' /\ SwitchIsDue'
  BY <1>1 DEF IInv, Types, NeverThere, ListIsSound, AskedIsNext, SwitchIsDue, Applying
<1>3. OpenIsSince'
  <2>1. \A q \in known' : q \in known /\ log'[q] = log[q]
    BY <1>1 DEF IInv, Types
  <2> QED
    BY <1>1, <2>1 DEF IInv, OpenIsSince, OpenAfter, NoneOpen, InSuspicion
<1> QED
  BY <1>2, <1>3 DEF IInv

-----------------------------------------------------------------------------
(* The three commits of a suspicion *)

LEMMA SuspectStateKeeps == ASSUME IInv, SuspectState PROVE IInv'
<1>1. PICK e \in todo :
        /\ hand' = e
        /\ state' = [r \in Resources |-> IF r \in OnHost(e.host) THEN "Suspected" ELSE state[r]]
        /\ since' = [r \in Resources |-> IF r \in OnHost(e.host) THEN clock ELSE since[r]]
  BY DEF SuspectState
<1>2. /\ program = "events" /\ program' = "closing"
      /\ UNCHANGED <<known, next, log, clock, date, todo, hurried, late, torn>>
  BY DEF SuspectState, rows
<1>3. Types' /\ NeverThere'
  BY <1>1, <1>2 DEF IInv, Types, NeverThere, OnHost, States
<1>4. ListIsSound' /\ AskedIsNext' /\ SwitchIsDue'
  BY <1>2 DEF ListIsSound, AskedIsNext, SwitchIsDue, Applying
<1>5. OpenIsSince'
  <2>1. \A r \in Resources : since'[r] <= clock'
    BY <1>1, <1>2 DEF IInv, Types, OpenIsSince
  <2>2. ASSUME NEW r \in known' \ (late' \cup torn'), ~InSuspicion(r)'
        PROVE  OpenAfter(r)'
    <3>1. HostOf[r] # hand'.host /\ r \in known \ (late \cup torn)
      BY <1>2, <2>2 DEF InSuspicion
    <3>2. since'[r] = since[r]
      BY <1>1, <3>1 DEF IInv, Types, OnHost
    <3> QED
      BY <1>2, <3>1, <3>2 DEF IInv, OpenIsSince, OpenAfter, InSuspicion
  <2> QED
    BY <1>2, <2>1, <2>2 DEF OpenIsSince
<1> QED
  BY <1>3, <1>4, <1>5 DEF IInv

LEMMA SuspectCloseKeeps == ASSUME IInv, SuspectClose PROVE IInv'
<1>1. /\ program = "closing" /\ program' = "opening" /\ date' = clock
      /\ log' = [r \in Resources |-> IF r \in OnHost(hand.host) THEN Closed(log[r]) ELSE log[r]]
      /\ UNCHANGED <<known, state, next, since, clock, todo, hand, hurried, late, torn>>
  BY DEF SuspectClose, table, history
<1>2. \A r \in Resources : Closed(log[r]) \in Seq(Rows) /\ \A i \in DOMAIN Closed(log[r]) : Closed(log[r])[i].stop # 0
  BY ClosedRows DEF IInv, Types
<1>3. Types'
  BY <1>1, <1>2 DEF IInv, Types
<1>4. NeverThere'
  BY <1>1 DEF IInv, Types, NeverThere, OnHost
<1>5. ListIsSound' /\ AskedIsNext' /\ SwitchIsDue'
  BY <1>1 DEF ListIsSound, AskedIsNext, SwitchIsDue, Applying
<1>6. OpenIsSince'
  <2>1. \A r \in Resources : since'[r] <= clock'
    BY <1>1 DEF IInv, OpenIsSince
  <2>2. ASSUME NEW r \in known' \ (late' \cup torn'), ~InSuspicion(r)'
        PROVE  OpenAfter(r)'
    <3>1. HostOf[r] # hand.host /\ r \in known \ (late \cup torn) /\ ~InSuspicion(r)
      BY <1>1, <2>2 DEF InSuspicion
    <3>2. log'[r] = log[r]
      BY <1>1, <3>1 DEF IInv, Types, OnHost
    <3> QED
      BY <1>1, <3>1, <3>2 DEF IInv, OpenIsSince, OpenAfter
  <2>3. ASSUME NEW r \in known' \ late', HostOf[r] = hand'.host
        PROVE  since'[r] <= date' /\ NoneOpen(r)'
    <3>1. r \in OnHost(hand.host) /\ r \in Resources
      BY <1>1, <2>3 DEF OnHost, IInv, Types
    <3>2. log'[r] = Closed(log[r])
      BY <1>1, <3>1
    <3> QED
      BY <1>1, <1>2, <2>1, <3>1, <3>2 DEF NoneOpen
  <2> QED
    BY <2>1, <2>2, <2>3 DEF OpenIsSince
<1> QED
  BY <1>3, <1>4, <1>5, <1>6 DEF IInv

LEMMA SuspectOpenKeeps == ASSUME IInv, SuspectOpen PROVE IInv'
<1> DEFINE row == Row("Suspected", OpenDate)
<1>1. /\ program = "opening" /\ program' = "checking"
      /\ log' = [r \in Resources |-> IF r \in OnHost(hand.host) THEN Append(log[r], row) ELSE log[r]]
      /\ torn' = torn \ OnHost(hand.host)
      /\ UNCHANGED <<known, state, next, since, clock, date, todo, hand, hurried, late>>
  BY DEF SuspectOpen, table
<1>2. row \in Rows /\ row.start = date
  BY DEF IInv, Types, Row, Rows, OpenDate, States
<1> HIDE DEF row
<1>3. \A r \in Resources :
        /\ Append(log[r], row) \in Seq(Rows)
        /\ \A i \in DOMAIN Append(log[r], row) :
             \/ Append(log[r], row)[i] = row
             \/ i \in DOMAIN log[r] /\ Append(log[r], row)[i] = log[r][i]
  BY <1>2, RowAdded DEF IInv, Types
<1>4. Types'
  BY <1>1, <1>3 DEF IInv, Types
<1>5. NeverThere'
  BY <1>1 DEF IInv, Types, NeverThere, OnHost
<1>6. ListIsSound' /\ AskedIsNext' /\ SwitchIsDue'
  BY <1>1 DEF ListIsSound, AskedIsNext, SwitchIsDue, Applying
<1>7. OpenIsSince'
  <2>1. \A r \in Resources : since'[r] <= clock'
    BY <1>1 DEF IInv, OpenIsSince
  <2>2. ASSUME NEW r \in known' \ (late' \cup torn')
        PROVE  OpenAfter(r)'
    <3>1. r \in known \ late /\ r \in Resources
      BY <1>1 DEF IInv, Types
    <3>2. CASE HostOf[r] = hand.host
      <4>1. since[r] <= date /\ NoneOpen(r)
        BY <1>1, <3>1, <3>2 DEF IInv, OpenIsSince
      <4>2. log'[r] = Append(log[r], row)
        BY <1>1, <3>1, <3>2 DEF OnHost
      <4>3. \A i \in DOMAIN log'[r] : log'[r][i] = row \/ log'[r][i].stop # 0
        BY <1>3, <3>1, <4>1, <4>2 DEF NoneOpen
      <4> QED
        BY <1>1, <1>2, <4>1, <4>3 DEF OpenAfter
    <3>3. CASE HostOf[r] # hand.host
      <4>1. log'[r] = log[r] /\ r \notin torn /\ ~InSuspicion(r)
        BY <1>1, <2>2, <3>1, <3>3 DEF OnHost, InSuspicion
      <4> QED
        BY <1>1, <3>1, <4>1 DEF IInv, OpenIsSince, OpenAfter
    <3> QED
      BY <3>2, <3>3
  <2> QED
    BY <1>1, <2>1, <2>2 DEF OpenIsSince
<1> QED
  BY <1>4, <1>5, <1>6, <1>7 DEF IInv

(* Steps from one treatment to the next, that write none of these tables *)
LEMMA MoveKeeps ==
  ASSUME IInv, UNCHANGED <<known, state, next, since, log, clock, late, torn>>,
         date' \in Nat, program \notin {"closing", "opening"}, program' \notin {"closing", "opening"},
         ListIsSound', AskedIsNext', SwitchIsDue'
  PROVE  IInv'
<1>1. Types' /\ NeverThere'
  BY DEF IInv, Types, NeverThere
<1>2. OpenIsSince'
  BY DEF IInv, OpenIsSince, OpenAfter, InSuspicion
<1> QED
  BY <1>1, <1>2 DEF IInv

LEMMA NCSStartKeeps == ASSUME IInv, NCSStart PROVE IInv'
<1> USE DEF NCSStart, table, rows, history
<1>1. ListIsSound' /\ AskedIsNext' /\ SwitchIsDue'
  BY DEF ListIsSound, AskedIsNext, SwitchIsDue, Applying
<1>2. /\ UNCHANGED <<known, state, next, since, log, clock, late, torn>>
      /\ date' \in Nat /\ program = "none" /\ program' = "events"
  BY DEF IInv, Types
<1> QED
  BY <1>1, <1>2, MoveKeeps

LEMMA CheckEventKeeps == ASSUME IInv, CheckEvent PROVE IInv'
<1> USE DEF CheckEvent, table, rows, history
<1>1. ListIsSound' /\ AskedIsNext' /\ SwitchIsDue'
  BY DEF ListIsSound, AskedIsNext, SwitchIsDue, Applying
<1>2. /\ UNCHANGED <<known, state, next, since, log, clock, late, torn>>
      /\ date' \in Nat /\ program = "checking" /\ program' = "events"
  OBVIOUS
<1> QED
  BY <1>1, <1>2, MoveKeeps

(* The list has the requests as they are *)
LEMMA ReadRequestsKeeps == ASSUME IInv, ReadRequests PROVE IInv'
<1>1. /\ program = "events" /\ program' = "changes"
      /\ todo' = {[res |-> r, asked |-> next[r]] : r \in {q \in known : next[q] # "UnChanged"}}
      /\ UNCHANGED <<known, state, next, since, log, clock, date, hand, late, torn>>
  BY DEF ReadRequests, table, rows
<1>2. \A c \in todo' : c.res \in known /\ c.asked = next[c.res] /\ next[c.res] # "UnChanged"
                       /\ c = [res |-> c.res, asked |-> next[c.res]]
  BY <1>1
<1>3. ListIsSound'
  <2>1. \A c \in todo' : c \in [res : Resources, asked : States] /\ since'[c.res] # 0
    <3> SUFFICES ASSUME NEW c \in todo'
                 PROVE  c \in [res : Resources, asked : States] /\ since'[c.res] # 0
      OBVIOUS
    <3>1. c.res \in Resources /\ next[c.res] \in States
      BY <1>2 DEF IInv, Types
    <3>2. since'[c.res] # 0
      BY <1>1, <1>2, <3>1 DEF IInv, NeverThere
    <3>3. [res |-> c.res, asked |-> next[c.res]] \in [res : Resources, asked : States]
      BY <3>1
    <3> QED
      BY <1>2, <3>2, <3>3
  <2>2. \A c, d \in todo' : c.res = d.res => c = d
    BY <1>2
  <2> QED
    BY <1>1, <2>1, <2>2 DEF ListIsSound, Applying
<1>4. AskedIsNext' /\ SwitchIsDue'
  BY <1>1, <1>2 DEF AskedIsNext, SwitchIsDue
<1>5. date' \in Nat
  BY <1>1 DEF IInv, Types
<1> QED
  BY <1>1, <1>3, <1>4, <1>5, MoveKeeps

LEMMA LookAtKeeps == ASSUME IInv, LookAt PROVE IInv'
<1>1. PICK c \in todo :
        \/ program' = "none" /\ todo' = {} /\ UNCHANGED hand
        \/ todo' = todo \ {c} /\ UNCHANGED <<program, hand>>
        \/ program' = "applying" /\ hand' = c /\ UNCHANGED todo
  BY DEF LookAt
<1>2. /\ program = "changes"
      /\ UNCHANGED <<known, state, next, since, log, clock, date, hurried, late, torn>>
  BY DEF LookAt, table, rows, history
<1>3. ListIsSound'
  BY <1>1, <1>2 DEF IInv, ListIsSound, Applying
<1>4. AskedIsNext' /\ SwitchIsDue'
  BY <1>1, <1>2 DEF IInv, AskedIsNext, SwitchIsDue, Applying
<1>5. date' \in Nat
  BY <1>2 DEF IInv, Types
<1>6. program' \in {"none", "changes", "applying"}
  BY <1>1, <1>2
<1> QED
  BY <1>2, <1>3, <1>4, <1>5, <1>6, MoveKeeps

(* The change of the state, its rows and the reset of the request *)
LEMMA ApplyKeeps == ASSUME IInv, Apply PROVE IInv'
<1> DEFINE r == hand.res
<1> DEFINE row == Row(hand.asked, clock)
<1>1. /\ program = "applying" /\ program' \in {"fragging", "changes"}
      /\ log' = [log EXCEPT ![r] = Append(Closed(log[r]), row)]
      /\ IF r \in known
           THEN /\ state' = [state EXCEPT ![r] = hand.asked]
                /\ next' = [next EXCEPT ![r] = "UnChanged"]
                /\ since' = [since EXCEPT ![r] = clock]
           ELSE UNCHANGED <<state, next, since>>
      /\ torn' = torn \ {r}
      /\ UNCHANGED <<known, clock, date, late, hurried>>
      /\ \/ program' = "fragging" /\ todo' = todo /\ hand' = hand
         \/ program' = "changes" /\ todo' = todo \ {hand}
  BY DEF Apply
<1>2. /\ hand \in todo /\ hand \in [res : Resources, asked : States] /\ since[r] # 0
      /\ todo \subseteq [res : Resources, asked : States]
      /\ \A c \in todo : c.res = r => c = hand
      /\ \A c \in todo : since[c.res] # 0
  BY <1>1 DEF IInv, ListIsSound, Applying
<1>3. r \in Resources /\ hand.asked \in States
  BY <1>2
<1>4. row \in Rows /\ row.start = clock
  BY <1>3 DEF IInv, Types, Row, Rows
<1>5. /\ Closed(log[r]) \in Seq(Rows)
      /\ \A i \in DOMAIN Closed(log[r]) : Closed(log[r])[i].stop # 0
  BY <1>3, ClosedRows DEF IInv, Types
<1> HIDE DEF r, row
<1>6. /\ log'[r] \in Seq(Rows)
      /\ \A i \in DOMAIN log'[r] : log'[r][i] = row \/ log'[r][i].stop # 0
      /\ \A q \in Resources \ {r} : log'[q] = log[q]
  <2> DEFINE closed == Closed(log[r])
  <2>1. log'[r] = Append(closed, row) /\ \A q \in Resources \ {r} : log'[q] = log[q]
    BY <1>1, <1>3 DEF IInv, Types
  <2>2. closed \in Seq(Rows) /\ \A i \in DOMAIN closed : closed[i].stop # 0
    BY <1>5
  <2> HIDE DEF closed
  <2>3. /\ Append(closed, row) \in Seq(Rows)
        /\ \A i \in DOMAIN Append(closed, row) :
             \/ Append(closed, row)[i] = row
             \/ i \in DOMAIN closed /\ Append(closed, row)[i] = closed[i]
    BY <1>4, <2>2, RowAdded
  <2> QED
    BY <2>1, <2>2, <2>3
<1>7. Types'
  <2>1. log' \in [Resources -> Seq(Rows)]
    BY <1>1, <1>3, <1>6 DEF IInv, Types
  <2> QED
    BY <1>1, <1>3, <2>1 DEF IInv, Types
<1>8. /\ \A q \in Resources : since[q] # 0 => since'[q] # 0
      /\ \A q \in Resources \ {r} : since'[q] = since[q] /\ next'[q] = next[q]
      /\ r \in known => since'[r] = clock /\ next'[r] = "UnChanged"
      /\ r \notin known => since' = since /\ next' = next
  BY <1>1, <1>3 DEF IInv, Types
<1>9. NeverThere'
  BY <1>1, <1>2, <1>3, <1>6, <1>8 DEF IInv, NeverThere
<1>10. ListIsSound'
  <2>1. todo' \subseteq todo /\ \A c \in todo : c.res \in Resources
    BY <1>1, <1>2
  <2>2. \A c \in todo' : since'[c.res] # 0
    BY <1>2, <1>8, <2>1
  <2>3. \A c, d \in todo' : c.res = d.res => c = d
    BY <1>1, <2>1 DEF IInv, ListIsSound, Applying
  <2>4. program' = "fragging" => hand' \in todo'
    BY <1>1, <1>2
  <2> QED
    BY <1>1, <1>2, <2>1, <2>2, <2>3, <2>4 DEF ListIsSound
<1>11. AskedIsNext'
  <2>1. \A c \in todo \ {hand} : c.res \in Resources \ {r}
    BY <1>2
  <2>2. \A c \in todo \ {hand} : next'[c.res] = c.asked \/ c.res \in hurried'
    BY <1>1, <1>8, <2>1 DEF IInv, AskedIsNext, Applying
  <2> QED
    BY <1>1, <1>8, <2>2 DEF AskedIsNext, Applying, r
<1>12. OpenIsSince'
  <2>1. \A q \in Resources : since'[q] <= clock'
    BY <1>1, <1>3, <1>8 DEF IInv, Types, OpenIsSince
  <2>2. ASSUME NEW q \in known' \ (late' \cup torn')
        PROVE  OpenAfter(q)'
    <3>1. q \in known /\ q \in Resources
      BY <1>1 DEF IInv, Types
    <3>2. CASE q = r
      BY <1>4, <1>6, <1>8, <3>1, <3>2 DEF OpenAfter, IInv, Types
    <3>3. CASE q # r
      <4>1. OpenAfter(q)
        BY <1>1, <2>2, <3>1, <3>3 DEF IInv, OpenIsSince, InSuspicion
      <4> QED
        BY <1>6, <1>8, <3>1, <3>3, <4>1 DEF OpenAfter
    <3> QED
      BY <3>2, <3>3
  <2> QED
    BY <1>1, <2>1, <2>2 DEF OpenIsSince
<1>13. SwitchIsDue'
  BY <1>1 DEF SwitchIsDue
<1> QED
  BY <1>7, <1>9, <1>10, <1>11, <1>12, <1>13 DEF IInv

LEMMA ResetAgainKeeps == ASSUME IInv, ResetAgain PROVE IInv'
<1>1. /\ program = "fragging" /\ program' = "changes" /\ todo' = todo \ {hand}
      /\ next' = [q \in Resources |-> IF q \in {hand.res} \cap known THEN "UnChanged" ELSE next[q]]
      /\ UNCHANGED <<known, state, since, log, clock, date, hurried, late, torn>>
  BY DEF ResetAgain, rows, history, Reset
<1>2. /\ hand \in todo /\ todo \subseteq [res : Resources, asked : States]
      /\ \A c \in todo : c.res = hand.res => c = hand
  BY <1>1 DEF IInv, ListIsSound, Applying
<1>3. Types' /\ NeverThere'
  BY <1>1 DEF IInv, Types, NeverThere
<1>4. ListIsSound' /\ SwitchIsDue'
  BY <1>1 DEF IInv, ListIsSound, SwitchIsDue, Applying
<1>5. AskedIsNext'
  <2>1. \A c \in todo \ {hand} : c.res \in Resources /\ c.res # hand.res
    BY <1>2
  <2>2. \A c \in todo \ {hand} : next'[c.res] = next[c.res]
    BY <1>1, <2>1 DEF IInv, Types
  <2> QED
    BY <1>1, <2>2 DEF IInv, AskedIsNext, Applying
<1>6. OpenIsSince'
  BY <1>1 DEF IInv, OpenIsSince, OpenAfter, InSuspicion
<1> QED
  BY <1>3, <1>4, <1>5, <1>6 DEF IInv

LEMMA NCSEndsKeeps == ASSUME IInv, NCSEnds PROVE IInv'
<1> USE DEF NCSEnds, table, rows, history
<1>1. ListIsSound' /\ AskedIsNext' /\ SwitchIsDue'
  BY DEF ListIsSound, AskedIsNext, SwitchIsDue, Applying
<1>2. /\ UNCHANGED <<known, state, next, since, log, clock, late, torn>>
      /\ date' \in Nat /\ program = "changes" /\ program' = "none"
  BY DEF IInv, Types
<1> QED
  BY <1>1, <1>2, MoveKeeps

(* What a suspicion has left is torn *)
LEMMA NCSDiesKeeps == ASSUME IInv, NCSDies PROVE IInv'
<1>1. /\ program' = "none" /\ todo' = {} /\ date' = 0
      /\ torn' = IF program \in {"closing", "opening"} THEN torn \cup OnHost(hand.host) ELSE torn
      /\ UNCHANGED <<known, state, next, since, log, clock, hurried, late>>
  BY DEF NCSDies, table, rows
<1>2. Types' /\ NeverThere' /\ ListIsSound' /\ AskedIsNext' /\ SwitchIsDue'
  BY <1>1 DEF IInv, Types, NeverThere, ListIsSound, AskedIsNext, SwitchIsDue, Applying
<1>3. OpenIsSince'
  <2>1. ASSUME NEW r \in known' \ (late' \cup torn')
        PROVE  OpenAfter(r)'
    <3>1. r \in known \ (late \cup torn) /\ ~InSuspicion(r)
      BY <1>1, <2>1 DEF InSuspicion, OnHost
    <3> QED
      BY <1>1, <3>1 DEF IInv, OpenIsSince, OpenAfter
  <2> QED
    BY <1>1, <2>1 DEF IInv, OpenIsSince
<1> QED
  BY <1>2, <1>3 DEF IInv

-----------------------------------------------------------------------------
(* An old open row tells an old state *)
LEMMA SwitchStartKeeps == ASSUME IInv, SwitchStart PROVE IInv'
<1>1. /\ program = "none" /\ program' = "switch" /\ todo' = LongAgo
      /\ UNCHANGED <<known, state, next, since, log, clock, date, late, torn>>
  BY DEF SwitchStart, table, rows, history
<1>2. ListIsSound'
  <2>1. \A r \in LongAgo : r \in Resources /\ log[r] # <<>>
    BY DEF LongAgo
  <2> QED
    BY <1>1, <2>1 DEF IInv, NeverThere, ListIsSound, Applying
<1>3. SwitchIsDue'
  <2> SUFFICES ASSUME NEW r \in (LongAgo \cap known) \ (late \cup torn)
               PROVE  since[r] + Timeout < clock
    BY <1>1 DEF SwitchIsDue
  <2>1. PICK i \in DOMAIN log[r] : log[r][i].stop = 0 /\ log[r][i].start + Timeout < clock
    BY DEF LongAgo, Counts
  <2>2. since[r] <= log[r][i].start
    BY <1>1, <2>1 DEF IInv, OpenIsSince, OpenAfter, InSuspicion
  <2>3. since[r] \in Nat /\ log[r][i].start \in Nat /\ clock \in Nat
    <3>1. r \in Resources /\ log[r] \in Seq(Rows)
      BY DEF IInv, Types
    <3>2. log[r][i] \in Rows
      BY <3>1, LenProperties, ElementOfSeq
    <3> QED
      BY <3>1, <3>2 DEF IInv, Types, Rows
  <2> QED
    BY <2>1, <2>2, <2>3, BoundAssumption
<1>4. AskedIsNext' /\ date' \in Nat
  BY <1>1 DEF AskedIsNext, Applying, IInv, Types
<1> QED
  BY <1>1, <1>2, <1>3, <1>4, MoveKeeps

LEMMA SwitchOneKeeps == ASSUME IInv, SwitchOne PROVE IInv'
<1>1. PICK r \in todo : /\ todo' = todo \ {r}
                        /\ next' = IF r \in known THEN [next EXCEPT ![r] = "Dead"] ELSE next
  BY DEF SwitchOne
<1>2. /\ program = "switch" /\ program' \in {"none", "switch"}
      /\ UNCHANGED <<known, state, since, log, clock, date, hurried, late, torn>>
  BY DEF SwitchOne, rows, history
<1>3. Types' /\ NeverThere'
  BY <1>1, <1>2 DEF IInv, Types, NeverThere, States
<1>4. ListIsSound' /\ AskedIsNext' /\ SwitchIsDue'
  BY <1>1, <1>2 DEF IInv, ListIsSound, AskedIsNext, SwitchIsDue, Applying
<1>5. OpenIsSince'
  BY <1>2 DEF IInv, OpenIsSince, OpenAfter, InSuspicion
<1> QED
  BY <1>3, <1>4, <1>5 DEF IInv

(* The others write none of the tables of the invariant *)
LEMMA OthersKeep ==
  ASSUME \/ \E j \in Jobs : JobStarts(j) \/ JobEnds(j)
         \/ \E j \in Jobs, h \in {HostOf[r] : r \in Resources} : Accuse(j, h)
         \/ \E a \in Admins, r \in Resources :
              (\E v \in Uptos : SetUpto(a, r, v)) \/ MaintenanceOn(a, r) \/ MaintenanceOff(a, r)
         \/ \E a \in Admins : LogUpto(a) \/ OnZero(a) \/ OnSave(a) \/ OffBack(a) \/ CommandDies(a)
         \/ FragOne
         \/ UNCHANGED vars
  PROVE  UNCHANGED core
<1> USE DEF core, table, rows, prog, history, vars
<1>1. ASSUME NEW j \in Jobs, JobStarts(j) \/ JobEnds(j) PROVE UNCHANGED core
  BY <1>1 DEF JobStarts, JobEnds
<1>2. ASSUME NEW j \in Jobs, NEW h, Accuse(j, h) PROVE UNCHANGED core
  BY <1>2 DEF Accuse
<1>3. ASSUME NEW a \in Admins, NEW r \in Resources, NEW v \in Uptos, SetUpto(a, r, v)
      PROVE  UNCHANGED core
  BY <1>3 DEF SetUpto
<1>4. ASSUME NEW a \in Admins, NEW r \in Resources, MaintenanceOn(a, r) \/ MaintenanceOff(a, r)
      PROVE  UNCHANGED core
  BY <1>4 DEF MaintenanceOn, MaintenanceOff
<1>5. ASSUME NEW a \in Admins, LogUpto(a) \/ OnZero(a) \/ OnSave(a) \/ OffBack(a) \/ CommandDies(a)
      PROVE  UNCHANGED core
  BY <1>5 DEF LogUpto, OnZero, OnSave, OffBack, CommandDies
<1>6. CASE FragOne
  BY <1>6 DEF FragOne
<1>7. CASE UNCHANGED vars
  BY <1>7
<1> QED
  BY <1>1, <1>2, <1>3, <1>4, <1>5, <1>6, <1>7

LEMMA StepKeeps == ASSUME IInv, [Next]_vars PROVE IInv'
<1>1. CASE Tick
  BY <1>1, TickKeeps
<1>2. ASSUME NEW j \in Jobs, JobStarts(j) \/ JobEnds(j) PROVE IInv'
  BY <1>2, OthersKeep, CoreKeeps
<1>3. ASSUME NEW e \in {[job |-> j, r |-> r] : j \in Jobs, r \in Resources}, Accuse(e.job, HostOf[e.r])
      PROVE  IInv'
  <2>1. e.job \in Jobs /\ HostOf[e.r] \in {HostOf[r] : r \in Resources}
    OBVIOUS
  <2> QED
    BY <1>3, <2>1, OthersKeep, CoreKeeps
<1>4. ASSUME NEW r \in Resources, NEW s \in {"Alive", "Absent", "Dead"}, SetState(r, s)
      PROVE  IInv'
  BY <1>4, AskKeeps DEF SetState, States, rows, prog
<1>5. ASSUME NEW r \in Resources, AddResource(r) \/ RemoveResource(r) PROVE IInv'
  BY <1>5, AddResourceKeeps, RemoveResourceKeeps
<1>6. ASSUME NEW a \in Admins, NEW r \in Resources,
             (\E v \in Uptos : SetUpto(a, r, v)) \/ MaintenanceOn(a, r) \/ MaintenanceOff(a, r)
      PROVE  IInv'
  BY <1>6, OthersKeep, CoreKeeps
<1>7. ASSUME NEW a \in Admins,
             LogUpto(a) \/ OnZero(a) \/ OnSave(a) \/ OffBack(a) \/ CommandDies(a)
      PROVE  IInv'
  BY <1>7, OthersKeep, CoreKeeps
<1>8. ASSUME NEW a \in Admins, AskAbsent(a) PROVE IInv'
  <2>1. UNCHANGED <<known, state, since, log, clock, date, program, todo, hand, late, torn>>
    BY <1>8 DEF AskAbsent, prog
  <2>2. CASE adm[a].r \in known
    <3>1. AskFor(adm[a].r, "Absent") /\ adm[a].r \in Resources /\ "Absent" \in States
      BY <1>8, <2>2 DEF AskAbsent, IInv, Types, States
    <3> QED
      BY <2>1, <3>1, AskKeeps
  <2>3. CASE adm[a].r \notin known
    <3>1. UNCHANGED core
      BY <1>8, <2>1, <2>3 DEF AskAbsent, core
    <3> QED
      BY <3>1, CoreKeeps
  <2> QED
    BY <2>2, <2>3
<1>9. CASE NCSStart \/ SuspectState \/ SuspectClose \/ SuspectOpen \/ CheckEvent
  BY <1>9, NCSStartKeeps, SuspectStateKeeps, SuspectCloseKeeps, SuspectOpenKeeps, CheckEventKeeps
<1>10. CASE ReadRequests \/ LookAt \/ Apply \/ ResetAgain \/ NCSEnds \/ NCSDies
  BY <1>10, ReadRequestsKeeps, LookAtKeeps, ApplyKeeps, ResetAgainKeeps, NCSEndsKeeps, NCSDiesKeeps
<1>11. CASE FragOne \/ UNCHANGED vars
  BY <1>11, OthersKeep, CoreKeeps
<1>12. CASE SwitchStart \/ SwitchOne
  BY <1>12, SwitchStartKeeps, SwitchOneKeeps
<1> QED
  BY <1>1, <1>2, <1>3, <1>4, <1>5, <1>6, <1>7, <1>8, <1>9, <1>10, <1>11, <1>12 DEF Next

(* The invariant holds at each commit, for any resources, jobs and         *)
(* administrators                                                          *)
THEOREM Invariance == Spec => []IInv
<1>1. Init => IInv
  BY InitHolds
<1>2. IInv /\ [Next]_vars => IInv'
  BY StepKeeps
<1> QED
  BY <1>1, <1>2, PTL DEF Spec

-----------------------------------------------------------------------------
(* Only Apply and ResetAgain forget requests *)
LEMMA ForgottenWhenApplied ==
  ASSUME IInv, [Next]_vars, NEW r \in known, next[r] # "UnChanged", next'[r] = "UnChanged"
  PROVE  state'[r] = next[r] \/ r \in hurried
<1>1. r \in Resources /\ next' # next
  BY DEF IInv, Types
<1>2. CASE Apply
  <2>1. hand \in todo /\ program = "applying" /\ hand.res = r /\ r \in known
    BY <1>1, <1>2 DEF Apply, IInv, Types, ListIsSound
  <2>2. state'[r] = hand.asked
    BY <1>1, <1>2, <2>1 DEF Apply, IInv, Types
  <2> QED
    BY <2>1, <2>2 DEF IInv, AskedIsNext, Applying
<1>3. CASE ResetAgain
  <2>1. program = "fragging" /\ hand.res = r
    BY <1>1, <1>3 DEF ResetAgain, Reset
  <2> QED
    BY <2>1 DEF IInv, AskedIsNext
<1>4. ASSUME NEW q \in Resources, NEW s \in {"Alive", "Absent", "Dead"}, AskFor(q, s) PROVE FALSE
  BY <1>1, <1>4 DEF AskFor, IInv, Types
<1>5. CASE SwitchOne
  BY <1>1, <1>5 DEF SwitchOne, IInv, Types
<1>6. ASSUME NEW q \in Resources, NEW s \in {"Alive", "Absent", "Dead"}, SetState(q, s) PROVE FALSE
  BY <1>4, <1>6 DEF SetState
<1>7. ASSUME NEW a \in Admins, AskAbsent(a) PROVE FALSE
  <2>1. CASE adm[a].r \in known
    BY <1>4, <1>7, <2>1 DEF AskAbsent, IInv, Types
  <2>2. CASE adm[a].r \notin known
    BY <1>1, <1>7, <2>2 DEF AskAbsent
  <2> QED
    BY <2>1, <2>2
<1>8. ~UNCHANGED core
  BY <1>1 DEF core
<1>9. ~(\E q \in Resources : AddResource(q) \/ RemoveResource(q))
  BY <1>1 DEF AddResource, RemoveResource
<1>10. /\ ~(Tick \/ NCSStart \/ SuspectState \/ SuspectClose \/ SuspectOpen \/ CheckEvent)
       /\ ~(ReadRequests \/ LookAt \/ NCSEnds \/ NCSDies \/ SwitchStart)
  BY <1>1 DEF Tick, NCSStart, SuspectState, SuspectClose, SuspectOpen, CheckEvent, ReadRequests,
              LookAt, NCSEnds, NCSDies, SwitchStart, table
<1>11. ASSUME NEW e \in {[job |-> j, r |-> q] : j \in Jobs, q \in Resources}, Accuse(e.job, HostOf[e.r])
       PROVE  FALSE
  BY <1>1, <1>11 DEF Accuse, table
<1> QED
  BY <1>2, <1>3, <1>5, <1>6, <1>7, <1>8, <1>9, <1>10, <1>11, OthersKeep DEF Next

(* Only SwitchOne takes a resource of the list of the switch *)
LEMMA SwitchedWhenOld ==
  ASSUME IInv, program = "switch", NEW r \in known \ (late \cup torn), r \in todo
  PROVE  since[r] + Timeout < clock
BY DEF IInv, SwitchIsDue

(* However commands, accusations and crashes are interleaved: a request is *)
(* forgotten only when it has been applied, but for one made while others  *)
(* are applied, and the dead switch takes only what is old                 *)
THEOREM StepsHaveReasons == Spec => StepsAreFounded
<1>1. IInv /\ [Next]_vars =>
        [\A r \in known : next[r] # "UnChanged" /\ next'[r] = "UnChanged" =>
           state'[r] = next[r] \/ r \in hurried]_vars
  BY ForgottenWhenApplied
<1>2. IInv /\ [Next]_vars =>
        [program = "switch" =>
           \A r \in known \ (late \cup torn) :
             next'[r] = "Dead" /\ next[r] # "Dead" /\ r \in todo /\ r \notin todo' =>
               since[r] + Timeout < clock]_vars
  BY SwitchedWhenOld
<1> QED
  BY <1>1, <1>2, Invariance, PTL DEF Spec, StepsAreFounded, RequestsAreServed, SwitchedAreOld

-----------------------------------------------------------------------------
(* What the program has in its hands, and what its list is made of *)
HandIsSound ==
  /\ program \in {"none", "events", "changes", "switch"} => hand = {}
  /\ program \in {"closing", "opening", "checking"} => hand \in todo
  /\ program \in {"events", "closing", "opening", "checking"} =>
       todo \subseteq events \cup erased
  /\ events \cup erased \subseteq [job : Jobs, host : {HostOf[r] : r \in Resources}]
  /\ kill \subseteq Jobs \ Cosystem

(* The other tables *)
MoreTypes ==
  /\ upto \in [Resources -> Uptos] /\ saved \in [Resources -> Uptos]
  /\ given \in [Resources -> Uptos]
  /\ upRows \in [Resources -> Seq(Uptos)]
  /\ maint \in [Resources -> BOOLEAN]
  /\ job \in [Jobs -> {"waiting", "running", "over", "deleted"}]
  /\ frag \subseteq Jobs

Stages == {"idle", "propLog", "zero", "zeroLog", "save", "absent", "back", "backLog"}

(* A command is about a resource that has been there *)
CommandsTyped ==
  /\ adm \in [Admins -> [at : Stages, r : Resources \cup {Idle.r}, val : Uptos, pend : BOOLEAN]]
  /\ \A a \in Admins : adm[a].at # "idle" => adm[a].r \in Resources /\ since[adm[a].r] # 0

-----------------------------------------------------------------------------
(* The history of the states *)

(* The dates of the rows are past *)
PastRows(rs, t) == \A i \in DOMAIN rs : rs[i].start \in 1..t /\ rs[i].stop <= t

Datable ==
  /\ clock <= MaxClock
  /\ \A r \in Resources : PastRows(log[r], clock)
  /\ program = "opening" => date \in 1..clock

(* One open row, with that value *)
OneOpen(rs, v) ==
  \E i \in DOMAIN rs : {k \in DOMAIN rs : rs[k].stop = 0} = {i} /\ rs[i].value = v

InOrder(rs) ==
  \A i \in DOMAIN rs :
    /\ rs[i].stop # 0 => rs[i].start <= rs[i].stop
    /\ i > 1 => rs[i - 1].stop # 0 /\ rs[i - 1].stop <= rs[i].start

(* A suspicion, when its first commit is done: the state is written, and   *)
(* when its second is: the rows stop before its date                       *)
Halfway ==
  \A r \in known \ late : InSuspicion(r) =>
    /\ state[r] = "Suspected"
    /\ program = "opening" => \A i \in DOMAIN log[r] : log[r][i].stop <= date

Told ==
  /\ \A r \in known \ (late \cup torn) : ~InSuspicion(r) => OneOpen(log[r], state[r])
  /\ \A r \in known \ late : InOrder(log[r])

(* The event of a suspicion is there until the suspicion is done *)
Accused ==
  /\ TornIsAccused
  /\ program = "checking" => \A r \in torn \cap known : HostOf[r] # hand.host
  /\ \A r \in torn : r \in Resources /\ since[r] # 0

-----------------------------------------------------------------------------
(* The commands on available_upto *)

(* Before it is added, a resource has what it is added with *)
NotYet ==
  \A r \in Resources : since[r] = 0 =>
    state[r] = "Alive" /\ given[r] = upto[r] /\ upRows[r] = <<>> /\ maint[r] = FALSE

RowTells(r) == upRows[r] \in {<<>>, <<upto[r]>>}

InMaintenance(r) == upto[r] = 0 /\ saved[r] = given[r]

(* Between two commands *)
AtRest(r) ==
  /\ RowTells(r)
  /\ given[r] # 0 => IF maint[r] THEN InMaintenance(r) ELSE upto[r] = given[r]

(* What holds of the resource between the commits of the command *)
Halted(r, c) ==
  /\ c.at = "propLog" => upRows[r] = <<>> /\ upto[r] = c.val /\ given[r] = c.val /\ ~maint[r] /\ ~c.pend
  /\ c.at = "zero" => AtRest(r) /\ c.val = upto[r] /\ c.pend
  /\ c.at = "zeroLog" =>
       upRows[r] = <<>> /\ upto[r] = 0 /\ ~c.pend /\ (given[r] # 0 => maint[r] /\ c.val = given[r])
  /\ c.at = "save" =>
       RowTells(r) /\ (given[r] # 0 => upto[r] = 0 /\ maint[r]
                                       /\ (c.val = given[r] \/ (c.val = 0 /\ saved[r] = given[r])))
  /\ c.at = "absent" => AtRest(r) /\ (given[r] # 0 /\ c.pend => maint[r])
  /\ c.at = "back" => RowTells(r) /\ ~maint[r] /\ ~c.pend /\ (given[r] # 0 => InMaintenance(r))
  /\ c.at = "backLog" =>
       upRows[r] = <<>> /\ upto[r] = c.val /\ ~maint[r] /\ ~c.pend /\ (given[r] # 0 => upto[r] = given[r])

Serves(a, r) == adm[a].at # "idle" /\ adm[a].r = r

(* A resource that is not tangled is in the hands of one command *)
AvailableAt(r) ==
  /\ ~InHands(r) => AtRest(r)
  /\ \A a \in Admins : Serves(a, r) => Halted(r, adm[a])
  /\ \A a, b \in Admins : Serves(a, r) /\ Serves(b, r) => a = b

Available == \A r \in known \ tangled : AvailableAt(r)

HInv ==
  /\ HandIsSound /\ MoreTypes /\ CommandsTyped
  /\ Datable /\ Halfway /\ Told /\ Accused
  /\ NotYet /\ Available /\ TakenOutIsCleared

-----------------------------------------------------------------------------
(* The step of a command: its record, and those of the others *)
CommandRecs == [at : Stages, r : Resources \cup {Idle.r}, val : Uptos, pend : BOOLEAN]

Becomes(a, at, r, val, pend) ==
  /\ adm' \in [Admins -> CommandRecs]
  /\ adm'[a].at = at /\ adm'[a].r = r /\ adm'[a].val = val /\ adm'[a].pend = pend
  /\ \A b \in Admins \ {a} : adm'[b] = adm[b]

LEMMA StepOfOne ==
  ASSUME CommandsTyped, NEW a \in Admins, NEW c \in CommandRecs, adm' = [adm EXCEPT ![a] = c]
  PROVE  Becomes(a, c.at, c.r, c.val, c.pend)
BY DEF CommandsTyped, CommandRecs, Becomes

LEMMA IdleIsACommand == Idle \in CommandRecs
BY UptoAssumption DEF Idle, CommandRecs, Stages

LEMMA CommandBegins ==
  ASSUME CommandsTyped, NEW a \in Admins, NEW r \in Resources, NEW at \in Stages, NEW v \in Uptos, NEW more,
         Command(a, r, at, v, more)
  PROVE  Becomes(a, at, r, v, at = "zero")
<1> DEFINE c == [at |-> at, r |-> r, val |-> v, pend |-> (at = "zero")]
<1>1. c \in CommandRecs /\ c.at = at /\ c.r = r /\ c.val = v /\ c.pend = (at = "zero")
  BY DEF CommandRecs
<1>2. adm' = [adm EXCEPT ![a] = c]
  BY DEF Command
<1> HIDE DEF c
<1> QED
  BY <1>1, <1>2, StepOfOne

LEMMA CommandGoes ==
  ASSUME CommandsTyped, NEW a \in Admins, NEW at \in Stages, Goto(a, at)
  PROVE  Becomes(a, at, adm[a].r, adm[a].val, adm[a].pend)
<1> DEFINE c == [adm[a] EXCEPT !.at = at]
<1>1. adm[a] \in CommandRecs
  BY DEF CommandsTyped, CommandRecs
<1>2. c \in CommandRecs /\ c.at = at /\ c.r = adm[a].r /\ c.val = adm[a].val /\ c.pend = adm[a].pend
  BY <1>1 DEF CommandRecs
<1>3. adm' = [adm EXCEPT ![a] = c]
  BY DEF Goto
<1> HIDE DEF c
<1> QED
  BY <1>2, <1>3, StepOfOne

LEMMA CommandCommits ==
  ASSUME CommandsTyped, NEW a \in Admins, NEW at \in Stages,
         adm' = [adm EXCEPT ![a].at = at, ![a].pend = FALSE]
  PROVE  Becomes(a, at, adm[a].r, adm[a].val, FALSE)
<1> DEFINE c == [adm[a] EXCEPT !.at = at, !.pend = FALSE]
<1>1. adm[a] \in CommandRecs
  BY DEF CommandsTyped, CommandRecs
<1>2. c \in CommandRecs /\ c.at = at /\ c.r = adm[a].r /\ c.val = adm[a].val /\ c.pend = FALSE
  BY <1>1 DEF CommandRecs
<1>3. adm' = [adm EXCEPT ![a] = c]
  BY DEF CommandsTyped
<1> HIDE DEF c
<1> QED
  BY <1>2, <1>3, StepOfOne

LEMMA CommandTakes ==
  ASSUME CommandsTyped, NEW a \in Admins, NEW at \in Stages, NEW v \in Uptos,
         adm' = [adm EXCEPT ![a].at = at, ![a].val = v]
  PROVE  Becomes(a, at, adm[a].r, v, adm[a].pend)
<1> DEFINE c == [adm[a] EXCEPT !.at = at, !.val = v]
<1>1. adm[a] \in CommandRecs
  BY DEF CommandsTyped, CommandRecs
<1>2. c \in CommandRecs /\ c.at = at /\ c.r = adm[a].r /\ c.val = v /\ c.pend = adm[a].pend
  BY <1>1 DEF CommandRecs
<1>3. adm' = [adm EXCEPT ![a] = c]
  BY DEF CommandsTyped
<1> HIDE DEF c
<1> QED
  BY <1>2, <1>3, StepOfOne

LEMMA CommandEnds ==
  ASSUME CommandsTyped, NEW a \in Admins, adm' = [adm EXCEPT ![a] = Idle]
  PROVE  Becomes(a, "idle", Idle.r, Idle.val, Idle.pend)
<1>1. Idle.at = "idle"
  BY DEF Idle
<1> QED
  BY <1>1, StepOfOne, IdleIsACommand

-----------------------------------------------------------------------------
(* The administrators' steps *)
AdminStep ==
  \/ \E a \in Admins, r \in Resources :
       \/ \E v \in Uptos : SetUpto(a, r, v)
       \/ MaintenanceOn(a, r)
       \/ MaintenanceOff(a, r)
  \/ \E a \in Admins :
       LogUpto(a) \/ OnZero(a) \/ OnSave(a) \/ OffBack(a) \/ AskAbsent(a) \/ CommandDies(a)

(* What they leave alone *)
LEMMA AdminsLeave ==
  ASSUME AdminStep
  PROVE  /\ UNCHANGED <<known, state, log, job, frag, events, clock, program, todo, hand, date, kill>>
         /\ UNCHANGED <<late, torn, unfragged, erased, since>>
<1> USE DEF table, rows, jobVars, prog, history
<1>1. ASSUME NEW a \in Admins, NEW r \in Resources,
             (\E v \in Uptos : SetUpto(a, r, v)) \/ MaintenanceOn(a, r) \/ MaintenanceOff(a, r)
      PROVE  /\ UNCHANGED <<known, state, log, job, frag, events, clock, program, todo, hand, date, kill>>
             /\ UNCHANGED <<late, torn, unfragged, erased, since>>
  BY <1>1 DEF SetUpto, MaintenanceOn, MaintenanceOff
<1>2. ASSUME NEW a \in Admins,
             LogUpto(a) \/ OnZero(a) \/ OnSave(a) \/ OffBack(a) \/ CommandDies(a)
      PROVE  /\ UNCHANGED <<known, state, log, job, frag, events, clock, program, todo, hand, date, kill>>
             /\ UNCHANGED <<late, torn, unfragged, erased, since>>
  BY <1>2 DEF LogUpto, OnZero, OnSave, OffBack, CommandDies
<1>3. ASSUME NEW a \in Admins, AskAbsent(a)
      PROVE  /\ UNCHANGED <<known, state, log, job, frag, events, clock, program, todo, hand, date, kill>>
             /\ UNCHANGED <<late, torn, unfragged, erased, since>>
  BY <1>3 DEF AskAbsent, AskFor
<1> QED
  BY <1>1, <1>2, <1>3 DEF AdminStep

LEMMA HandKept == ASSUME IInv, HInv, [Next]_vars PROVE HandIsSound'
<1> DEFINE Mine == UNCHANGED <<events, erased, program, todo, hand, kill>>
<1> USE DEF table, rows, jobVars, prog, history
<1>1. HandIsSound
  BY DEF HInv
<1>2. Mine => HandIsSound'
  BY <1>1 DEF HandIsSound
<1>3. CASE Tick \/ UNCHANGED vars
  BY <1>2, <1>3 DEF Tick, vars
<1>4. ASSUME NEW j \in Jobs, JobStarts(j) \/ JobEnds(j) PROVE HandIsSound'
  BY <1>2, <1>4 DEF JobStarts, JobEnds
<1>5. ASSUME NEW e \in {[job |-> j, r |-> r] : j \in Jobs, r \in Resources}, Accuse(e.job, HostOf[e.r])
      PROVE  HandIsSound'
  <2>1. [job |-> e.job, host |-> HostOf[e.r]] \in [job : Jobs, host : {HostOf[r] : r \in Resources}]
    OBVIOUS
  <2>2. events' = events \cup {[job |-> e.job, host |-> HostOf[e.r]]} /\ UNCHANGED <<erased, program, todo, hand, kill>>
    BY <1>5 DEF Accuse
  <2> QED
    BY <1>1, <2>1, <2>2 DEF HandIsSound
<1>6. ASSUME NEW r \in Resources, NEW s, SetState(r, s) PROVE HandIsSound'
  BY <1>2, <1>6 DEF SetState
<1>7. ASSUME NEW r \in Resources, AddResource(r) PROVE HandIsSound'
  BY <1>2, <1>7 DEF AddResource
<1>8. ASSUME NEW r \in Resources, RemoveResource(r) PROVE HandIsSound'
  <2>1. PICK gone : events' = {e \in events : e.job \notin gone} /\ erased' = erased \cup {e \in events : e.job \in gone}
    BY <1>8 DEF RemoveResource
  <2>2. UNCHANGED <<program, todo, hand, kill>>
    BY <1>8 DEF RemoveResource
  <2>3. events' \cup erased' = events \cup erased
    BY <2>1
  <2> QED
    BY <1>1, <2>2, <2>3 DEF HandIsSound
<1>9. CASE AdminStep
  BY <1>2, <1>9, AdminsLeave
<1>10. CASE NCSStart
  BY <1>1, <1>10 DEF NCSStart, HandIsSound
<1>11. CASE SuspectState \/ SuspectClose \/ SuspectOpen
  BY <1>1, <1>11 DEF SuspectState, SuspectClose, SuspectOpen, ToCheck, HandIsSound
<1>12. CASE CheckEvent
  <2>1. PICK same \in SUBSET events :
               events' = events \ (same \cup {hand}) /\ erased' = erased \cup (same \ {hand})
    BY <1>12 DEF CheckEvent
  <2>2. /\ program = "checking" /\ program' = "events" /\ hand' = {}
        /\ todo' = todo \ {hand} /\ UNCHANGED kill
    BY <1>12 DEF CheckEvent
  <2> QED
    BY <1>1, <2>1, <2>2 DEF HandIsSound
<1>13. CASE ReadRequests \/ LookAt \/ ResetAgain \/ NCSEnds
  BY <1>1, <1>13 DEF ReadRequests, LookAt, ResetAgain, NCSEnds, HandIsSound
<1>14. CASE Apply
  <2>1. JobsOn(hand.res) \subseteq Jobs \ Cosystem
    BY DEF JobsOn
  <2> QED
    BY <1>1, <1>14, <2>1 DEF Apply, HandIsSound
<1>15. CASE FragOne
  BY <1>1, <1>15 DEF FragOne, HandIsSound
<1>16. CASE NCSDies
  BY <1>1, <1>16 DEF NCSDies, HandIsSound
<1>17. CASE SwitchStart \/ SwitchOne
  BY <1>1, <1>17 DEF SwitchStart, SwitchOne, HandIsSound
<1> QED
  BY <1>3, <1>4, <1>5, <1>6, <1>7, <1>8, <1>9, <1>10, <1>11, <1>12, <1>13, <1>14, <1>15, <1>16, <1>17
  DEF Next, AdminStep

(* The records of the commands have their fields *)
LEMMA CommandTypes ==
  ASSUME CommandsTyped, NEW a \in Admins
  PROVE  /\ adm[a].at \in Stages /\ adm[a].val \in Uptos /\ adm[a].pend \in BOOLEAN
         /\ adm[a].at # "idle" => adm[a].r \in Resources /\ since[adm[a].r] # 0
BY DEF CommandsTyped

(* Each step of a command goes to one stage *)
StepsTo(a, at) == \E r \in Resources \cup {Idle.r}, v \in Uptos, p \in BOOLEAN :
  Becomes(a, at, r, v, p) /\ (at # "idle" => r \in Resources /\ since[r] # 0)

(* Once in the table, for ever known *)
LEMMA SinceKept ==
  ASSUME IInv, [Next]_vars PROVE \A r \in Resources : since[r] # 0 => since'[r] # 0
<1> USE DEF table, rows, jobVars, prog, history
<1>1. CASE UNCHANGED since
  BY <1>1
<1>2. ASSUME NEW r \in Resources, AddResource(r) PROVE \A q \in Resources : since[q] # 0 => since'[q] # 0
  BY <1>2 DEF AddResource, IInv, Types
<1>3. CASE SuspectState
  BY <1>3 DEF SuspectState, IInv, Types
<1>4. CASE Apply
  BY <1>4 DEF Apply, IInv, Types
<1>5. ASSUME NEW r \in Resources, NEW s, SetState(r, s) \/ RemoveResource(r) PROVE UNCHANGED since
  BY <1>5 DEF SetState, RemoveResource
<1>6. ASSUME NEW j, NEW h, Accuse(j, h) PROVE UNCHANGED since
  BY <1>6 DEF Accuse
<1>7. ASSUME NEW j, JobStarts(j) \/ JobEnds(j) PROVE UNCHANGED since
  BY <1>7 DEF JobStarts, JobEnds
<1>8. CASE \/ Tick \/ NCSStart \/ SuspectClose \/ SuspectOpen \/ CheckEvent \/ ReadRequests \/ LookAt
             \/ FragOne \/ ResetAgain \/ NCSEnds \/ NCSDies \/ SwitchStart \/ SwitchOne \/ UNCHANGED vars
  BY <1>1, <1>8 DEF Tick, NCSStart, SuspectClose, SuspectOpen, CheckEvent, ReadRequests, LookAt, FragOne,
       ResetAgain, NCSEnds, NCSDies, SwitchStart, SwitchOne, vars
<1> QED
  BY <1>1, <1>2, <1>3, <1>4, <1>5, <1>6, <1>7, <1>8, AdminsLeave DEF Next, AdminStep

LEMMA CommandsKept == ASSUME IInv, HInv, [Next]_vars PROVE CommandsTyped'
<1> USE DEF table, rows, jobVars, prog, history
<1>1. CommandsTyped /\ \A r \in known : r \in Resources /\ since[r] # 0
  BY DEF HInv, IInv, Types, NeverThere
<1>2. \A r \in Resources : since[r] # 0 => since'[r] # 0
  BY SinceKept
<1>3. CASE UNCHANGED adm
  BY <1>1, <1>2, <1>3 DEF CommandsTyped
<1>4. ASSUME NEW a \in Admins, NEW at, StepsTo(a, at) PROVE CommandsTyped'
  <2>1. PICK r \in Resources \cup {Idle.r}, v \in Uptos, p \in BOOLEAN :
          Becomes(a, at, r, v, p) /\ (at # "idle" => r \in Resources /\ since[r] # 0)
    BY <1>4 DEF StepsTo
  <2> QED
    BY <1>1, <1>2, <2>1 DEF CommandsTyped, Becomes, CommandRecs
<1>5. ASSUME NEW a \in Admins, NEW r \in Resources, NEW v \in Uptos, NEW at \in {"propLog", "zero", "back"}, NEW more,
             Command(a, r, at, v, more)
      PROVE  CommandsTyped'
  <2>1. since[r] # 0 /\ at \in Stages /\ (at = "zero") \in BOOLEAN
    BY <1>1, <1>5 DEF Command, Stages
  <2>2. Becomes(a, at, r, v, at = "zero")
    BY <1>1, <1>5, <2>1, CommandBegins
  <2> HIDE DEF Becomes
  <2>3. StepsTo(a, at)
    BY <2>1, <2>2 DEF StepsTo
  <2> QED
    BY <1>4, <2>3
<1>6. ASSUME NEW a \in Admins, NEW r \in Resources,
             (\E v \in Uptos : SetUpto(a, r, v)) \/ MaintenanceOn(a, r) \/ MaintenanceOff(a, r)
      PROVE  CommandsTyped'
  <2>1. upto[r] \in Uptos /\ 0 \in Uptos
    BY UptoAssumption DEF HInv, MoreTypes
  <2>2. ASSUME NEW v \in Uptos, SetUpto(a, r, v) PROVE CommandsTyped'
    BY <1>5, <2>2 DEF SetUpto
  <2>3. CASE MaintenanceOn(a, r)
    BY <1>5, <2>1, <2>3 DEF MaintenanceOn
  <2>4. CASE MaintenanceOff(a, r)
    BY <1>5, <2>1, <2>4 DEF MaintenanceOff
  <2> QED
    BY <1>6, <2>2, <2>3, <2>4
<1>7. ASSUME NEW a \in Admins, adm[a].at # "idle", NEW at \in Stages, Goto(a, at) PROVE CommandsTyped'
  <2>1. Becomes(a, at, adm[a].r, adm[a].val, adm[a].pend)
    BY <1>1, <1>7, CommandGoes
  <2>2. StepsTo(a, at)
    BY <1>1, <1>7, <2>1, CommandTypes DEF StepsTo
  <2> QED
    BY <1>4, <2>2
<1>8. ASSUME NEW a \in Admins, adm[a].at # "idle", NEW at \in Stages,
             adm' = [adm EXCEPT ![a].at = at, ![a].pend = FALSE]
      PROVE  CommandsTyped'
  <2>1. Becomes(a, at, adm[a].r, adm[a].val, FALSE)
    BY <1>1, <1>8, CommandCommits
  <2>2. StepsTo(a, at)
    BY <1>1, <1>8, <2>1, CommandTypes DEF StepsTo
  <2> QED
    BY <1>4, <2>2
<1>9. ASSUME NEW a \in Admins, adm' = [adm EXCEPT ![a] = Idle] PROVE CommandsTyped'
  <2>1. Becomes(a, "idle", Idle.r, Idle.val, Idle.pend)
    BY <1>1, <1>9, CommandEnds
  <2>2. Idle.val \in Uptos /\ Idle.pend \in BOOLEAN
    BY UptoAssumption DEF Idle
  <2>3. StepsTo(a, "idle")
    BY <2>1, <2>2 DEF StepsTo
  <2> QED
    BY <1>4, <2>3
<1>10. ASSUME NEW a \in Admins, LogUpto(a) PROVE CommandsTyped'
  <2>1. adm[a].at # "idle" /\ \E at \in {"idle", "save", "absent"} : Goto(a, at)
    BY <1>10 DEF LogUpto
  <2> QED
    BY <1>7, <2>1 DEF Stages
<1>11. ASSUME NEW a \in Admins, OnZero(a) PROVE CommandsTyped'
  <2>1. adm[a].at # "idle"
        /\ (Goto(a, "save") \/ adm' = [adm EXCEPT ![a].at = "zeroLog", ![a].pend = FALSE])
    BY <1>11 DEF OnZero
  <2> QED
    BY <1>7, <1>8, <2>1 DEF Stages
<1>12. ASSUME NEW a \in Admins, OnSave(a) PROVE CommandsTyped'
  <2>1. adm[a].at # "idle"
        /\ (Goto(a, "absent") \/ adm' = [adm EXCEPT ![a].at = "absent", ![a].pend = FALSE])
    BY <1>12 DEF OnSave
  <2> QED
    BY <1>7, <1>8, <2>1 DEF Stages
<1>13. ASSUME NEW a \in Admins, OffBack(a) PROVE CommandsTyped'
  <2>1. adm[a].at # "idle" /\ adm[a].r \in known
        /\ (Goto(a, "absent") \/ adm' = [adm EXCEPT ![a].at = "backLog", ![a].val = saved[adm[a].r]])
    BY <1>13 DEF OffBack
  <2>2. CASE Goto(a, "absent")
    BY <1>7, <2>1, <2>2 DEF Stages
  <2>3. CASE adm' = [adm EXCEPT ![a].at = "backLog", ![a].val = saved[adm[a].r]]
    <3>1. saved[adm[a].r] \in Uptos /\ "backLog" \in Stages
      BY <1>1, <2>1 DEF HInv, MoreTypes, Stages
    <3>2. Becomes(a, "backLog", adm[a].r, saved[adm[a].r], adm[a].pend)
      BY <1>1, <2>3, <3>1, CommandTakes
    <3>3. StepsTo(a, "backLog")
      BY <1>1, <2>1, <3>1, <3>2, CommandTypes DEF StepsTo
    <3> QED
      BY <1>4, <3>3
  <2> QED
    BY <2>1, <2>2, <2>3
<1>14. ASSUME NEW a \in Admins, AskAbsent(a) \/ CommandDies(a) PROVE CommandsTyped'
  BY <1>9, <1>14 DEF AskAbsent, CommandDies
<1>15. ASSUME NEW r, NEW s, SetState(r, s) \/ AddResource(r) \/ RemoveResource(r) PROVE UNCHANGED adm
  BY <1>15 DEF SetState, AddResource, RemoveResource
<1>16. ASSUME NEW j, NEW h, Accuse(j, h) \/ JobStarts(j) \/ JobEnds(j) PROVE UNCHANGED adm
  BY <1>16 DEF Accuse, JobStarts, JobEnds
<1>17. \/ Tick \/ NCSStart \/ SuspectState \/ SuspectClose \/ SuspectOpen \/ CheckEvent \/ ReadRequests \/ LookAt
       \/ Apply \/ FragOne \/ ResetAgain \/ NCSEnds \/ NCSDies \/ SwitchStart \/ SwitchOne \/ UNCHANGED vars
       => UNCHANGED adm
  BY DEF Tick, NCSStart, SuspectState, SuspectClose, SuspectOpen, CheckEvent, ReadRequests, LookAt, Apply,
         FragOne, ResetAgain, NCSEnds, NCSDies, SwitchStart, SwitchOne, vars
<1> QED
  BY <1>3, <1>6, <1>10, <1>11, <1>12, <1>13, <1>14, <1>15, <1>16, <1>17 DEF Next

(* The first commit of set_resources_property, and that of the row of the *)
(* maintenance                                                            *)
LEMMA UptoWritten ==
  ASSUME MoreTypes, NEW r \in Resources, NEW v \in Uptos, WriteUpto(r, v)
  PROVE  upto' \in [Resources -> Uptos] /\ upRows' \in [Resources -> Seq(Uptos)]
BY DEF MoreTypes, WriteUpto

LEMMA MaintCommitted ==
  ASSUME MoreTypes, NEW a \in Admins, adm[a].r \in Resources, Commits(a)
  PROVE  maint' \in [Resources -> BOOLEAN]
BY DEF MoreTypes, Commits

LEMMA TablesKept == ASSUME IInv, HInv, [Next]_vars PROVE MoreTypes'
<1> DEFINE Others == UNCHANGED <<upto, saved, given, upRows, maint, job, frag>>
<1> USE DEF table, rows, jobVars, prog, history
<1>1. MoreTypes /\ CommandsTyped /\ HandIsSound
  BY DEF HInv
<1>2. Others => MoreTypes'
  BY <1>1 DEF MoreTypes
<1>3. ASSUME NEW j \in Jobs, JobStarts(j) \/ JobEnds(j) PROVE MoreTypes'
  BY <1>1, <1>3 DEF JobStarts, JobEnds, MoreTypes
<1>4. ASSUME NEW j, NEW h, Accuse(j, h) PROVE MoreTypes'
  BY <1>2, <1>4 DEF Accuse
<1>5. ASSUME NEW r, NEW s, SetState(r, s) \/ AddResource(r) PROVE MoreTypes'
  BY <1>2, <1>5 DEF SetState, AddResource
<1>6. ASSUME NEW r \in Resources, RemoveResource(r) PROVE MoreTypes'
  <2>1. PICK gone \in SUBSET Jobs :
          job' = [j \in Jobs |-> IF j \in gone THEN "deleted" ELSE job[j]] /\ frag' = frag \ gone
    <3> DEFINE gone == {j \in Jobs : r \in Uses[j] /\ job[j] \in {"running", "over"}}
    <3>1. job' = [j \in Jobs |-> IF j \in gone THEN "deleted" ELSE job[j]] /\ frag' = frag \ gone
      BY <1>6 DEF RemoveResource
    <3> QED
      BY <3>1
  <2>2. /\ upRows' = [upRows EXCEPT ![r] = <<>>] /\ maint' = [maint EXCEPT ![r] = FALSE]
        /\ UNCHANGED <<upto, saved, given>> /\ <<>> \in Seq(Uptos)
    BY <1>6 DEF RemoveResource
  <2> QED
    BY <1>1, <2>1, <2>2 DEF MoreTypes
<1>7. ASSUME NEW a \in Admins, NEW r \in Resources, NEW v \in Uptos, SetUpto(a, r, v) PROVE MoreTypes'
  BY <1>1, <1>7 DEF SetUpto, WriteUpto, MoreTypes
<1>8. ASSUME NEW a \in Admins, NEW r \in Resources, MaintenanceOn(a, r) PROVE MoreTypes'
  BY <1>2, <1>8 DEF MaintenanceOn
<1>9. ASSUME NEW a \in Admins, NEW r \in Resources, MaintenanceOff(a, r) PROVE MoreTypes'
  BY <1>1, <1>9 DEF MaintenanceOff, MoreTypes
<1>10. ASSUME NEW a \in Admins, LogUpto(a) PROVE MoreTypes'
  <2>1. adm[a].r \in Resources /\ adm[a].val \in Uptos
    BY <1>1, <1>10, CommandTypes DEF LogUpto
  <2>2. PICK v \in Uptos : upRows' = [upRows EXCEPT ![adm[a].r] = Append(@, v)]
    BY <1>10, <2>1, UptoAssumption DEF LogUpto
  <2>3. Append(upRows[adm[a].r], v) \in Seq(Uptos)
    BY <1>1, <2>1 DEF MoreTypes
  <2>4. UNCHANGED <<upto, saved, given, maint, job, frag>>
    BY <1>10 DEF LogUpto
  <2> QED
    BY <1>1, <2>2, <2>3, <2>4 DEF MoreTypes
<1>11. ASSUME NEW a \in Admins, OnZero(a) PROVE MoreTypes'
  <2>1. adm[a].r \in Resources
    BY <1>1, <1>11, CommandTypes DEF OnZero
  <2>2. \/ WriteUpto(adm[a].r, 0) /\ Commits(a)
        \/ UNCHANGED <<upto, upRows, maint>>
    BY <1>11 DEF OnZero
  <2>3. /\ upto' \in [Resources -> Uptos] /\ upRows' \in [Resources -> Seq(Uptos)]
        /\ maint' \in [Resources -> BOOLEAN]
    BY <1>1, <2>1, <2>2, UptoWritten, MaintCommitted, UptoAssumption DEF MoreTypes
  <2>4. UNCHANGED <<saved, given, job, frag>>
    BY <1>11 DEF OnZero
  <2> QED
    BY <1>1, <2>3, <2>4 DEF MoreTypes
<1>12. ASSUME NEW a \in Admins, OnSave(a) PROVE MoreTypes'
  <2>1. adm[a].r \in Resources /\ adm[a].val \in Uptos
    BY <1>1, <1>12, CommandTypes DEF OnSave
  <2> QED
    BY <1>1, <1>12, <2>1 DEF OnSave, Commits, MoreTypes
<1>13. ASSUME NEW a \in Admins, OffBack(a) PROVE MoreTypes'
  <2>1. adm[a].r \in Resources
    BY <1>1, <1>13, CommandTypes DEF OffBack
  <2>2. \/ WriteUpto(adm[a].r, saved[adm[a].r])
        \/ UNCHANGED <<upto, upRows>>
    BY <1>13 DEF OffBack
  <2>3. saved[adm[a].r] \in Uptos
    BY <1>1, <2>1 DEF MoreTypes
  <2>4. upto' \in [Resources -> Uptos] /\ upRows' \in [Resources -> Seq(Uptos)]
    BY <1>1, <2>1, <2>2, <2>3, UptoWritten DEF MoreTypes
  <2>5. UNCHANGED <<saved, given, maint, job, frag>>
    BY <1>13 DEF OffBack
  <2> QED
    BY <1>1, <2>4, <2>5 DEF MoreTypes
<1>14. ASSUME NEW a \in Admins, AskAbsent(a) PROVE MoreTypes'
  <2>1. adm[a].r \in Resources
    BY <1>1, <1>14, CommandTypes DEF AskAbsent
  <2> QED
    BY <1>1, <1>14, <2>1 DEF AskAbsent, Commits, MoreTypes
<1>15. ASSUME NEW a \in Admins, CommandDies(a) PROVE MoreTypes'
  BY <1>2, <1>15 DEF CommandDies
<1>16. CASE FragOne
  <2>1. frag' \subseteq Jobs /\ UNCHANGED <<upto, saved, given, upRows, maint, job>>
    BY <1>1, <1>16 DEF FragOne, MoreTypes, HandIsSound
  <2> QED
    BY <1>1, <2>1 DEF MoreTypes
<1>17. \/ Tick \/ NCSStart \/ SuspectState \/ SuspectClose \/ SuspectOpen \/ CheckEvent \/ ReadRequests \/ LookAt
       \/ Apply \/ ResetAgain \/ NCSEnds \/ NCSDies \/ SwitchStart \/ SwitchOne \/ UNCHANGED vars
       => Others
  BY DEF Tick, NCSStart, SuspectState, SuspectClose, SuspectOpen, CheckEvent, ReadRequests, LookAt, Apply,
         ResetAgain, NCSEnds, NCSDies, SwitchStart, SwitchOne, vars
<1> HIDE DEF Others
<1> QED
  BY <1>2, <1>3, <1>4, <1>5, <1>6, <1>7, <1>8, <1>9, <1>10, <1>11, <1>12, <1>13, <1>14, <1>15, <1>16, <1>17 DEF Next

-----------------------------------------------------------------------------
(* A command is only about a resource that is or has been in the table *)
LEMMA NotYetKept == ASSUME IInv, HInv, [Next]_vars PROVE NotYet'
<1> USE DEF table, rows, jobVars, prog, history
<1>1. /\ NotYet /\ NeverThere /\ MoreTypes /\ CommandsTyped /\ Types
  BY DEF HInv, IInv
<1>2. ASSUME UNCHANGED <<state, given, upto, upRows, maint>>,
             \A r \in Resources : since'[r] = 0 => since[r] = 0
      PROVE  NotYet'
  BY <1>1, <1>2 DEF NotYet
<1>3. ASSUME NEW q \in Resources, since[q] # 0, UNCHANGED <<state, since>>,
             \A r \in Resources \ {q} : /\ given'[r] = given[r] /\ upto'[r] = upto[r]
                                        /\ upRows'[r] = upRows[r] /\ maint'[r] = maint[r]
      PROVE  NotYet'
  BY <1>1, <1>3 DEF NotYet
<1>4. ASSUME NEW j, JobStarts(j) \/ JobEnds(j) PROVE NotYet'
  BY <1>2, <1>4 DEF JobStarts, JobEnds
<1>5. ASSUME NEW j, NEW h, Accuse(j, h) PROVE NotYet'
  BY <1>2, <1>5 DEF Accuse
<1>6. ASSUME NEW r, NEW s, SetState(r, s) PROVE NotYet'
  BY <1>2, <1>6 DEF SetState
<1>7. ASSUME NEW r \in Resources, AddResource(r) PROVE NotYet'
  <2>1. since' = [since EXCEPT ![r] = clock] /\ clock # 0
    BY <1>1, <1>7 DEF AddResource, Types
  <2>2. \A q \in Resources : since'[q] = 0 => since[q] = 0
    BY <1>1, <2>1 DEF Types
  <2> QED
    BY <1>2, <1>7, <2>2 DEF AddResource
<1>8. ASSUME NEW r \in Resources, RemoveResource(r) PROVE NotYet'
  <2>1. since[r] # 0 /\ UNCHANGED <<state, since, given, upto>>
    BY <1>1, <1>8 DEF RemoveResource, NeverThere
  <2>2. \A q \in Resources \ {r} : upRows'[q] = upRows[q] /\ maint'[q] = maint[q]
    BY <1>1, <1>8 DEF RemoveResource, MoreTypes
  <2> QED
    BY <1>3, <2>1, <2>2
<1>9. ASSUME NEW a \in Admins, NEW r \in Resources,
             (\E v \in Uptos : SetUpto(a, r, v)) \/ MaintenanceOn(a, r) \/ MaintenanceOff(a, r)
      PROVE  NotYet'
  <2>1. since[r] # 0 /\ UNCHANGED <<state, since>>
    BY <1>1, <1>9 DEF SetUpto, MaintenanceOn, MaintenanceOff, Command, NeverThere
  <2>2. \A q \in Resources \ {r} : /\ given'[q] = given[q] /\ upto'[q] = upto[q]
                                   /\ upRows'[q] = upRows[q] /\ maint'[q] = maint[q]
    BY <1>1, <1>9 DEF SetUpto, MaintenanceOn, MaintenanceOff, WriteUpto, MoreTypes
  <2> QED
    BY <1>3, <2>1, <2>2
<1>10. ASSUME NEW a \in Admins,
              LogUpto(a) \/ OnZero(a) \/ OnSave(a) \/ OffBack(a) \/ AskAbsent(a) \/ CommandDies(a)
       PROVE  NotYet'
  <2>1. UNCHANGED <<state, since>>
    BY <1>10, AdminsLeave DEF AdminStep
  <2>2. adm[a].at # "idle"
    BY <1>10 DEF LogUpto, OnZero, OnSave, OffBack, AskAbsent, CommandDies
  <2>3. adm[a].r \in Resources /\ since[adm[a].r] # 0
    BY <1>1, <2>2, CommandTypes
  <2>4. \A q \in Resources \ {adm[a].r} : /\ given'[q] = given[q] /\ upto'[q] = upto[q]
                                          /\ upRows'[q] = upRows[q] /\ maint'[q] = maint[q]
    <3>1. CASE LogUpto(a)
      BY <1>1, <2>3, <3>1 DEF LogUpto, MoreTypes
    <3>2. CASE OnZero(a) \/ OffBack(a)
      BY <1>1, <2>3, <3>2 DEF OnZero, OffBack, WriteUpto, Commits, MoreTypes
    <3>3. CASE OnSave(a) \/ AskAbsent(a) \/ CommandDies(a)
      BY <1>1, <2>3, <3>3 DEF OnSave, AskAbsent, CommandDies, Commits, MoreTypes
    <3> QED
      BY <1>10, <3>1, <3>2, <3>3
  <2> QED
    BY <1>3, <2>1, <2>3, <2>4
<1>11. CASE SuspectState
  <2>1. PICK h : /\ state' = [r \in Resources |-> IF r \in OnHost(h) THEN "Suspected" ELSE state[r]]
                 /\ since' = [r \in Resources |-> IF r \in OnHost(h) THEN clock ELSE since[r]]
    BY <1>11 DEF SuspectState
  <2>2. UNCHANGED <<given, upto, upRows, maint>>
    BY <1>11 DEF SuspectState
  <2>3. OnHost(h) \subseteq known
    BY DEF OnHost
  <2>4. clock # 0
    BY <1>1 DEF Types
  <2> HIDE DEF OnHost
  <2>5. ASSUME NEW r \in Resources, since'[r] = 0
        PROVE  state'[r] = state[r] /\ since[r] = 0
    <3>1. since'[r] = IF r \in OnHost(h) THEN clock ELSE since[r]
      BY <2>1
    <3> QED
      BY <2>1, <2>4, <2>5, <3>1
  <2> QED
    BY <1>1, <2>2, <2>5 DEF NotYet
<1>12. CASE Apply
  <2>1. UNCHANGED <<given, upto, upRows, maint>>
    BY <1>12 DEF Apply
  <2>2. /\ IF hand.res \in known
             THEN state' = [state EXCEPT ![hand.res] = hand.asked] /\ since' = [since EXCEPT ![hand.res] = clock]
             ELSE UNCHANGED <<state, since>>
    BY <1>12 DEF Apply
  <2> QED
    BY <1>1, <2>1, <2>2 DEF NotYet, NeverThere, Types
<1>13. \/ Tick \/ NCSStart \/ SuspectClose \/ SuspectOpen \/ CheckEvent \/ ReadRequests \/ LookAt
       \/ FragOne \/ ResetAgain \/ NCSEnds \/ NCSDies \/ SwitchStart \/ SwitchOne \/ UNCHANGED vars
       => UNCHANGED <<state, given, upto, upRows, maint, since>>
  BY DEF Tick, NCSStart, SuspectClose, SuspectOpen, CheckEvent, ReadRequests, LookAt, FragOne,
         ResetAgain, NCSEnds, NCSDies, SwitchStart, SwitchOne, vars
<1> QED
  BY <1>2, <1>4, <1>5, <1>6, <1>7, <1>8, <1>9, <1>10, <1>11, <1>12, <1>13 DEF Next

-----------------------------------------------------------------------------
(* available_upto, resource by resource *)

SameAt(r) ==
  /\ upto'[r] = upto[r] /\ saved'[r] = saved[r] /\ given'[r] = given[r]
  /\ upRows'[r] = upRows[r] /\ maint'[r] = maint[r]

(* A step of somebody else *)
LEMMA Undisturbed ==
  ASSUME NEW r, AvailableAt(r), SameAt(r),
         \A b \in Admins : (Serves(b, r)' <=> Serves(b, r)) /\ (Serves(b, r) => adm'[b] = adm[b])
  PROVE  AvailableAt(r)'
<1>1. AtRest(r)' <=> AtRest(r)
  BY DEF SameAt, AtRest, RowTells, InMaintenance
<1>2. \A b \in Admins : Serves(b, r) => (Halted(r, adm[b])' <=> Halted(r, adm[b]))
  BY <1>1 DEF SameAt, Halted, RowTells, InMaintenance
<1>3. InHands(r)' <=> InHands(r)
  BY DEF InHands, Serves
<1> QED
  BY <1>1, <1>2, <1>3 DEF AvailableAt

(* A step of the only command on the resource *)
LEMMA Settled ==
  ASSUME NEW r, NEW a \in Admins,
         \A b \in Admins \ {a} : adm'[b] = adm[b] /\ ~Serves(b, r),
         Serves(a, r)' => Halted(r, adm[a])',
         ~Serves(a, r)' => AtRest(r)'
  PROVE  AvailableAt(r)'
<1>1. \A b \in Admins \ {a} : ~Serves(b, r)'
  BY DEF Serves
<1>2. InHands(r)' <=> Serves(a, r)'
  BY <1>1 DEF InHands, Serves
<1> QED
  BY <1>1, <1>2 DEF AvailableAt

(* A resource whose commands do not mix, and another *)
LEMMA OtherResource ==
  ASSUME CommandsTyped, NEW a \in Admins, NEW q, NEW r, r # q, AvailableAt(r), SameAt(r),
         adm[a].at # "idle" => adm[a].r = q,
         adm'[a].at # "idle" => adm'[a].r = q,
         \A b \in Admins \ {a} : adm'[b] = adm[b]
  PROVE  AvailableAt(r)'
<1>1. \A b \in Admins : (Serves(b, r)' <=> Serves(b, r)) /\ (Serves(b, r) => adm'[b] = adm[b])
  BY DEF Serves
<1> QED
  BY <1>1, Undisturbed

(* The first step of a command *)
LEMMA BeginsKeep ==
  ASSUME IInv, HInv, NEW a \in Admins, NEW q \in Resources,
         (\E v \in Uptos : SetUpto(a, q, v)) \/ MaintenanceOn(a, q) \/ MaintenanceOff(a, q)
  PROVE  Available'
<1> USE DEF table, rows, jobVars, prog, history
<1>1. CommandsTyped /\ MoreTypes /\ Available /\ 0 \in Uptos /\ upto[q] \in Uptos
  BY UptoAssumption DEF HInv, MoreTypes
<1>2. PICK at \in {"propLog", "zero", "back"}, v \in Uptos, more \in BOOLEAN :
        /\ Command(a, q, at, v, more)
        /\ at = "propLog" => /\ WriteUpto(q, v) /\ given' = [given EXCEPT ![q] = v]
                             /\ UNCHANGED <<saved, maint>> /\ more = maint[q]
        /\ at = "zero" => UNCHANGED <<upto, saved, upRows, maint, given>> /\ v = upto[q]
        /\ at = "back" => /\ maint' = [maint EXCEPT ![q] = FALSE] /\ more = ~maint[q]
                          /\ UNCHANGED <<upto, saved, upRows, given>>
  <2>1. ASSUME NEW v \in Uptos, SetUpto(a, q, v)
        PROVE  Command(a, q, "propLog", v, maint[q]) /\ WriteUpto(q, v) /\ given' = [given EXCEPT ![q] = v]
               /\ UNCHANGED <<saved, maint>> /\ maint[q] \in BOOLEAN
    BY <1>1, <2>1 DEF SetUpto, MoreTypes
  <2>2. CASE MaintenanceOn(a, q)
    BY <1>1, <2>2 DEF MaintenanceOn
  <2>3. CASE MaintenanceOff(a, q)
    BY <1>1, <2>3 DEF MaintenanceOff
  <2> QED
    BY <2>1, <2>2, <2>3
<1>3. Becomes(a, at, q, v, at = "zero") /\ adm[a].at = "idle"
  <2>1. at \in Stages
    BY DEF Stages
  <2> QED
    BY <1>1, <1>2, <2>1, CommandBegins DEF Command
<1>4. known' = known /\ tangled' = IF InHands(q) \/ more THEN tangled \cup {q} ELSE tangled
  <2>1. known' = known
    BY AdminsLeave DEF AdminStep
  <2> QED
    BY <1>2, <2>1 DEF Command
<1>5. ASSUME NEW r \in known \ tangled, r # q PROVE AvailableAt(r)'
  <2>1. r \in Resources /\ AvailableAt(r)
    BY <1>1 DEF Available, IInv, Types
  <2>2. SameAt(r)
    BY <1>1, <1>2, <1>5, <2>1 DEF WriteUpto, MoreTypes, SameAt
  <2> QED
    BY <1>1, <1>3, <1>5, <2>1, <2>2, OtherResource DEF Becomes
<1>6. ASSUME q \in known \ tangled, ~InHands(q), ~more PROVE AvailableAt(q)'
  <2>1. AtRest(q)
    BY <1>1, <1>6 DEF Available, AvailableAt
  <2>2. \A b \in Admins \ {a} : adm'[b] = adm[b] /\ ~Serves(b, q)
    BY <1>3, <1>6 DEF Becomes, InHands, Serves
  <2>3. Serves(a, q)'
    BY <1>2, <1>3 DEF Becomes, Serves
  <2>4. Halted(q, adm[a])'
    <3>1. adm'[a].at = at /\ adm'[a].val = v /\ adm'[a].pend = (at = "zero")
      BY <1>3 DEF Becomes
    <3>2. CASE at = "propLog"
      <4>1. /\ upto'[q] = v /\ upRows'[q] = <<>> /\ given'[q] = v /\ maint'[q] = FALSE
        BY <1>1, <1>2, <1>6, <3>2 DEF WriteUpto, MoreTypes
      <4> QED
        BY <3>1, <3>2, <4>1 DEF Halted
    <3>3. CASE at = "zero"
      BY <1>2, <2>1, <3>1, <3>3 DEF Halted, AtRest, RowTells, InMaintenance
    <3>4. CASE at = "back"
      <4>1. maint[q] = TRUE /\ maint'[q] = FALSE
        BY <1>1, <1>2, <1>6, <3>4 DEF MoreTypes
      <4>2. upto'[q] = upto[q] /\ saved'[q] = saved[q] /\ upRows'[q] = upRows[q] /\ given'[q] = given[q]
        BY <1>2, <3>4
      <4> QED
        BY <2>1, <3>1, <3>4, <4>1, <4>2 DEF Halted, AtRest, RowTells, InMaintenance
    <3> QED
      BY <3>2, <3>3, <3>4
  <2> QED
    BY <2>2, <2>3, <2>4, Settled
<1> QED
  BY <1>4, <1>5, <1>6 DEF Available

(* The steps that follow: what is to be shown of the resource of the command *)
LEMMA GoesOn ==
  ASSUME IInv, HInv, NEW a \in Admins, NEW r \in Resources, adm[a].at # "idle", adm[a].r = r,
         NEW at, NEW q, NEW v, NEW p, Becomes(a, at, q, v, p), at # "idle" => q = r,
         UNCHANGED <<known, tangled>>, \A o \in Resources \ {r} : SameAt(o),
         r \in known \ tangled /\ Halted(r, adm[a]) =>
           IF at # "idle" THEN Halted(r, adm[a])' ELSE AtRest(r)'
  PROVE  Available'
<1>1. CommandsTyped /\ Available /\ known \subseteq Resources
  BY DEF HInv, IInv, Types
<1>2. /\ \A b \in Admins \ {a} : adm'[b] = adm[b]
      /\ adm'[a].at = at /\ adm'[a].r = q
  BY DEF Becomes
<1>3. ASSUME NEW o \in known \ tangled, o # r PROVE AvailableAt(o)'
  <2>1. AvailableAt(o) /\ SameAt(o)
    BY <1>1, <1>3 DEF Available
  <2> QED
    BY <1>1, <1>2, <1>3, <2>1, OtherResource
<1>4. ASSUME r \in known \ tangled PROVE AvailableAt(r)'
  <2>1. AvailableAt(r) /\ Serves(a, r)
    BY <1>1, <1>4 DEF Available, Serves
  <2>2. Halted(r, adm[a]) /\ \A b \in Admins \ {a} : ~Serves(b, r)
    BY <2>1 DEF AvailableAt
  <2>3. Serves(a, r)' <=> at # "idle"
    BY <1>2 DEF Serves
  <2> QED
    BY <1>2, <1>4, <2>2, <2>3, Settled
<1> QED
  BY <1>3, <1>4 DEF Available

LEMMA LogUptoKeeps == ASSUME IInv, HInv, NEW a \in Admins, LogUpto(a) PROVE Available'
<1> DEFINE c == adm[a]
<1>1. CommandsTyped /\ MoreTypes
  BY DEF HInv
<1>2. UNCHANGED <<known, upto, saved, maint, tangled, given>>
  BY <1>1 DEF LogUpto, table, history
<1>3. PICK at \in {"idle", "save", "absent"}, v \in Uptos :
        /\ Goto(a, at) /\ upRows' = [upRows EXCEPT ![c.r] = Append(@, v)]
        /\ \/ c.at = "propLog" /\ at = "idle" /\ v = c.val
           \/ c.at = "zeroLog" /\ at = "save" /\ v = 0
           \/ c.at = "backLog" /\ at = "absent" /\ v = c.val
  BY <1>1, CommandTypes, UptoAssumption DEF LogUpto
<1>4. c.at # "idle"
  BY <1>3
<1>5. PICK r \in Resources : r = c.r
  BY <1>1, <1>4, CommandTypes
<1>6. Becomes(a, at, c.r, c.val, c.pend)
  BY <1>1, <1>3, CommandGoes DEF Stages
<1>7. ASSUME NEW o \in Resources \ {r} PROVE SameAt(o)
  BY <1>1, <1>2, <1>3, <1>5 DEF SameAt, MoreTypes
<1>8. ASSUME Halted(r, c)
      PROVE  IF at # "idle" THEN Halted(r, adm[a])' ELSE AtRest(r)'
  <2>1. upRows[r] = <<>>
    BY <1>3, <1>8 DEF Halted
  <2>2. upRows'[r] = <<v>>
    <3>1. upRows'[r] = Append(upRows[r], v)
      BY <1>1, <1>3, <1>5 DEF MoreTypes
    <3> QED
      BY <2>1, <3>1
  <2>3. adm'[a].at = at /\ adm'[a].val = c.val /\ adm'[a].pend = c.pend
    BY <1>6 DEF Becomes
  <2>4. maint[r] \in BOOLEAN /\ upto[r] = v
    BY <1>1, <1>3, <1>8 DEF MoreTypes, Halted
  <2>5. RowTells(r)'
    BY <1>2, <2>2, <2>4 DEF RowTells
  <2> QED
    BY <1>2, <1>3, <1>8, <2>3, <2>4, <2>5 DEF Halted, AtRest, InMaintenance
<1> QED
  BY <1>2, <1>4, <1>5, <1>6, <1>7, <1>8, GoesOn

LEMMA OnZeroKeeps == ASSUME IInv, HInv, NEW a \in Admins, OnZero(a) PROVE Available'
<1> DEFINE c == adm[a]
<1>1. CommandsTyped /\ MoreTypes /\ "zeroLog" \in Stages /\ "save" \in Stages
  BY DEF HInv, Stages
<1>2. UNCHANGED <<known, saved, tangled, given>> /\ c.at = "zero"
  BY DEF OnZero, history
<1>3. PICK r \in Resources : r = c.r
  BY <1>1, <1>2, CommandTypes
<1>4. maint[r] \in BOOLEAN
  BY <1>1 DEF MoreTypes
<1>5. CASE Differs(r, 0) /\ WriteUpto(r, 0) /\ Commits(a)
           /\ adm' = [adm EXCEPT ![a].at = "zeroLog", ![a].pend = FALSE]
  <2>1. Becomes(a, "zeroLog", c.r, c.val, FALSE)
    BY <1>1, <1>5, CommandCommits
  <2>2. ASSUME NEW o \in Resources \ {r} PROVE SameAt(o)
    BY <1>1, <1>2, <1>3, <1>5 DEF SameAt, MoreTypes, WriteUpto, Commits
  <2>3. ASSUME Halted(r, c) PROVE Halted(r, adm[a])'
    <3>1. AtRest(r) /\ c.val = upto[r] /\ c.pend
      BY <1>2, <2>3 DEF Halted
    <3>2. upto'[r] = 0 /\ upRows'[r] = <<>> /\ maint'[r] = TRUE
      BY <1>1, <1>3, <1>5, <3>1 DEF MoreTypes, WriteUpto, Commits
    <3>3. given[r] # 0 => upto[r] = given[r]
      BY <1>4, <1>5, <3>1 DEF AtRest, InMaintenance, Differs
    <3>4. adm'[a].at = "zeroLog" /\ adm'[a].val = c.val /\ adm'[a].pend = FALSE
      BY <2>1 DEF Becomes
    <3> QED
      BY <1>2, <3>1, <3>2, <3>3, <3>4 DEF Halted
  <2> QED
    BY <1>2, <1>3, <2>1, <2>2, <2>3, GoesOn
<1>6. CASE ~Differs(r, 0) /\ Goto(a, "save") /\ UNCHANGED <<upto, upRows, maint>>
  <2>1. Becomes(a, "save", c.r, c.val, c.pend)
    BY <1>1, <1>6, CommandGoes
  <2>2. ASSUME NEW o \in Resources \ {r} PROVE SameAt(o)
    BY <1>2, <1>6 DEF SameAt
  <2>3. ASSUME r \in known, Halted(r, c) PROVE Halted(r, adm[a])'
    <3>1. AtRest(r) /\ c.val = upto[r] /\ upto[r] = 0
      BY <1>2, <1>6, <2>3 DEF Halted, Differs
    <3>2. adm'[a].at = "save" /\ adm'[a].val = c.val
      BY <2>1 DEF Becomes
    <3> QED
      BY <1>2, <1>4, <1>6, <3>1, <3>2 DEF Halted, AtRest, RowTells, InMaintenance
  <2> QED
    BY <1>2, <1>3, <2>1, <2>2, <2>3, GoesOn
<1> QED
  BY <1>3, <1>5, <1>6 DEF OnZero

LEMMA OnSaveKeeps == ASSUME IInv, HInv, NEW a \in Admins, OnSave(a) PROVE Available'
<1> DEFINE c == adm[a]
<1>1. CommandsTyped /\ MoreTypes /\ "absent" \in Stages
  BY DEF HInv, Stages
<1>2. UNCHANGED <<known, upto, upRows, tangled, given>> /\ c.at = "save"
  BY DEF OnSave, history
<1>3. PICK r \in Resources : r = c.r
  BY <1>1, <1>2, CommandTypes
<1>4. maint[r] \in BOOLEAN
  BY <1>1 DEF MoreTypes
<1>5. CASE saved' = [saved EXCEPT ![r] = c.val] /\ ToSave(c.val) /\ Commits(a)
           /\ adm' = [adm EXCEPT ![a].at = "absent", ![a].pend = FALSE]
  <2>1. Becomes(a, "absent", c.r, c.val, FALSE)
    BY <1>1, <1>5, CommandCommits
  <2>2. ASSUME NEW o \in Resources \ {r} PROVE SameAt(o)
    BY <1>1, <1>2, <1>3, <1>5 DEF SameAt, MoreTypes, Commits
  <2>3. ASSUME Halted(r, c) PROVE Halted(r, adm[a])'
    <3>1. saved'[r] = c.val /\ (maint[r] => maint'[r] = TRUE) /\ maint'[r] \in BOOLEAN
      BY <1>1, <1>3, <1>4, <1>5 DEF MoreTypes, Commits
    <3>2. adm'[a].at = "absent" /\ adm'[a].pend = FALSE
      BY <2>1 DEF Becomes
    <3> QED
      BY <1>2, <1>5, <2>3, <3>1, <3>2 DEF Halted, AtRest, RowTells, InMaintenance, ToSave
  <2> QED
    BY <1>2, <1>3, <2>1, <2>2, <2>3, GoesOn
<1>6. CASE ~(ToSave(c.val) /\ r \in known /\ saved[r] # c.val) /\ Goto(a, "absent") /\ UNCHANGED <<saved, maint>>
  <2>1. Becomes(a, "absent", c.r, c.val, c.pend)
    BY <1>1, <1>6, CommandGoes
  <2>2. ASSUME NEW o \in Resources \ {r} PROVE SameAt(o)
    BY <1>2, <1>6 DEF SameAt
  <2>3. ASSUME r \in known, Halted(r, c) PROVE Halted(r, adm[a])'
    <3>1. adm'[a].at = "absent"
      BY <2>1 DEF Becomes
    <3> QED
      BY <1>2, <1>4, <1>6, <2>3, <3>1 DEF Halted, AtRest, RowTells, InMaintenance, ToSave
  <2> QED
    BY <1>2, <1>3, <2>1, <2>2, <2>3, GoesOn
<1> QED
  BY <1>3, <1>5, <1>6 DEF OnSave

LEMMA OffBackKeeps == ASSUME IInv, HInv, NEW a \in Admins, OffBack(a) PROVE Available'
<1> DEFINE c == adm[a]
<1>1. CommandsTyped /\ MoreTypes /\ "absent" \in Stages /\ "backLog" \in Stages
  BY DEF HInv, Stages
<1>2. UNCHANGED <<known, saved, maint, tangled, given>> /\ c.at = "back"
  BY DEF OffBack, history
<1>3. PICK r \in Resources : r = c.r
  BY <1>1, <1>2, CommandTypes
<1>4. maint[r] \in BOOLEAN /\ saved[r] \in Uptos
  BY <1>1 DEF MoreTypes
<1>5. CASE WriteUpto(r, saved[r]) /\ adm' = [adm EXCEPT ![a].at = "backLog", ![a].val = saved[r]]
  <2>1. Becomes(a, "backLog", c.r, saved[r], c.pend)
    BY <1>1, <1>4, <1>5, CommandTakes
  <2>2. ASSUME NEW o \in Resources \ {r} PROVE SameAt(o)
    BY <1>1, <1>2, <1>3, <1>5 DEF SameAt, MoreTypes, WriteUpto
  <2>3. ASSUME Halted(r, c) PROVE Halted(r, adm[a])'
    <3>1. upto'[r] = saved[r] /\ upRows'[r] = <<>>
      BY <1>1, <1>3, <1>5 DEF MoreTypes, WriteUpto
    <3>2. adm'[a].at = "backLog" /\ adm'[a].val = saved[r] /\ adm'[a].pend = c.pend
      BY <2>1 DEF Becomes
    <3> QED
      BY <1>2, <2>3, <3>1, <3>2 DEF Halted, InMaintenance
  <2> QED
    BY <1>2, <1>3, <2>1, <2>2, <2>3, GoesOn
<1>6. CASE ~(ToSave(saved[r]) /\ Differs(r, saved[r])) /\ Goto(a, "absent") /\ UNCHANGED <<upto, upRows>>
  <2>1. Becomes(a, "absent", c.r, c.val, c.pend)
    BY <1>1, <1>6, CommandGoes
  <2>2. ASSUME NEW o \in Resources \ {r} PROVE SameAt(o)
    BY <1>2, <1>6 DEF SameAt
  <2>3. ASSUME r \in known, Halted(r, c) PROVE Halted(r, adm[a])'
    <3>1. adm'[a].at = "absent" /\ adm'[a].pend = c.pend
      BY <2>1 DEF Becomes
    <3>2. given[r] = 0
      BY <1>2, <1>6, <2>3 DEF Halted, InMaintenance, ToSave, Differs
    <3> QED
      BY <1>2, <1>6, <2>3, <3>1, <3>2 DEF Halted, AtRest, RowTells
  <2> QED
    BY <1>2, <1>3, <2>1, <2>2, <2>3, GoesOn
<1> QED
  BY <1>3, <1>5, <1>6 DEF OffBack

LEMMA AskAbsentKeeps == ASSUME IInv, HInv, NEW a \in Admins, AskAbsent(a) PROVE Available'
<1> DEFINE c == adm[a]
<1>1. CommandsTyped /\ MoreTypes
  BY DEF HInv
<1>2. /\ UNCHANGED <<known, upto, saved, upRows, tangled, given>> /\ c.at = "absent"
      /\ Commits(a) /\ adm' = [adm EXCEPT ![a] = Idle]
  <2>1. known' = known
    BY AdminsLeave DEF AdminStep
  <2> QED
    BY <2>1 DEF AskAbsent
<1>3. PICK r \in Resources : r = c.r
  BY <1>1, <1>2, CommandTypes
<1>4. maint[r] \in BOOLEAN /\ c.pend \in BOOLEAN
  BY <1>1, CommandTypes DEF MoreTypes
<1>5. Becomes(a, "idle", Idle.r, Idle.val, Idle.pend)
  BY <1>1, <1>2, CommandEnds
<1>6. ASSUME NEW o \in Resources \ {r} PROVE SameAt(o)
  BY <1>1, <1>2, <1>3 DEF SameAt, MoreTypes, Commits
<1>7. ASSUME Halted(r, c) PROVE AtRest(r)'
  <2>1. maint'[r] = IF c.pend THEN TRUE ELSE maint[r]
    BY <1>1, <1>2, <1>3 DEF MoreTypes, Commits
  <2>2. AtRest(r) /\ (given[r] # 0 /\ c.pend => maint[r])
    BY <1>2, <1>7 DEF Halted
  <2>3. given[r] # 0 => maint'[r] = maint[r]
    BY <1>4, <2>1, <2>2
  <2> QED
    BY <1>2, <2>2, <2>3 DEF AtRest, RowTells, InMaintenance
<1> QED
  BY <1>2, <1>3, <1>5, <1>6, <1>7, GoesOn

(* What a command that is killed leaves is tangled *)
LEMMA CommandDiesKeeps == ASSUME IInv, HInv, NEW a \in Admins, CommandDies(a) PROVE Available'
<1>1. CommandsTyped /\ Available /\ known \subseteq Resources
  BY DEF HInv, IInv, Types
<1>2. /\ UNCHANGED <<known, upto, saved, upRows, maint, given>>
      /\ tangled' = tangled \cup {adm[a].r} /\ adm' = [adm EXCEPT ![a] = Idle]
  BY DEF CommandDies, table, rows
<1>3. Becomes(a, "idle", Idle.r, Idle.val, Idle.pend)
  BY <1>1, <1>2, CommandEnds
<1>4. ASSUME NEW o \in known \ tangled, o # adm[a].r PROVE AvailableAt(o)'
  <2>1. AvailableAt(o) /\ SameAt(o) /\ adm'[a].at = "idle" /\ \A b \in Admins \ {a} : adm'[b] = adm[b]
    BY <1>1, <1>2, <1>3 DEF Available, SameAt, Becomes
  <2> QED
    BY <1>1, <1>4, <2>1, OtherResource
<1> QED
  BY <1>2, <1>4 DEF Available

LEMMA AvailableKept == ASSUME IInv, HInv, [Next]_vars PROVE Available'
<1> DEFINE Others == UNCHANGED <<upto, saved, given, upRows, maint, adm, known, tangled>>
<1> USE DEF table, rows, jobVars, prog, history
<1>1. /\ Available /\ CommandsTyped /\ MoreTypes /\ NotYet /\ known \subseteq Resources
      /\ \A r \in known : since[r] # 0
  BY DEF HInv, IInv, Types, NeverThere
<1>2. ASSUME UNCHANGED adm, NEW r \in known \ tangled, SameAt(r) PROVE AvailableAt(r)'
  <2>1. AvailableAt(r)
    BY <1>1 DEF Available
  <2> QED
    BY <1>2, <2>1, Undisturbed DEF Serves
<1>3. Others => Available'
  BY <1>1, <1>2 DEF SameAt, Available
<1>4. ASSUME NEW j, JobStarts(j) \/ JobEnds(j) PROVE Available'
  BY <1>3, <1>4 DEF JobStarts, JobEnds
<1>5. ASSUME NEW j, NEW h, Accuse(j, h) PROVE Available'
  BY <1>3, <1>5 DEF Accuse
<1>6. ASSUME NEW r, NEW s, SetState(r, s) PROVE Available'
  BY <1>3, <1>6 DEF SetState
<1>7. ASSUME NEW r \in Resources, AddResource(r) PROVE Available'
  <2>1. /\ since[r] = 0 /\ known' = known \cup {r}
        /\ UNCHANGED <<upto, saved, given, upRows, maint, adm, tangled>>
    BY <1>7 DEF AddResource
  <2>2. \A b \in Admins : ~Serves(b, r)
    BY <1>1, <2>1, CommandTypes DEF Serves
  <2>3. upRows[r] = <<>> /\ maint[r] = FALSE /\ given[r] = upto[r]
    BY <1>1, <2>1 DEF NotYet
  <2>4. AvailableAt(r)'
    BY <2>1, <2>2, <2>3 DEF AvailableAt, AtRest, RowTells, Serves
  <2>5. \A o \in known \ tangled : AvailableAt(o)'
    BY <1>2, <2>1 DEF SameAt
  <2> QED
    BY <2>1, <2>4, <2>5 DEF Available
<1>8. ASSUME NEW r \in Resources, RemoveResource(r) PROVE Available'
  <2>1. /\ known' = known \ {r} /\ UNCHANGED <<upto, saved, given, adm, tangled>>
        /\ upRows' = [upRows EXCEPT ![r] = <<>>] /\ maint' = [maint EXCEPT ![r] = FALSE]
    BY <1>8 DEF RemoveResource
  <2>2. \A o \in known' : o \in known /\ SameAt(o)
    BY <1>1, <2>1 DEF SameAt, MoreTypes
  <2> QED
    BY <1>2, <2>1, <2>2 DEF Available
<1>9. CASE AdminStep
  BY <1>9, BeginsKeep, LogUptoKeeps, OnZeroKeeps, OnSaveKeeps, OffBackKeeps, AskAbsentKeeps, CommandDiesKeeps
  DEF AdminStep
<1>10. \/ Tick \/ NCSStart \/ SuspectState \/ SuspectClose \/ SuspectOpen \/ CheckEvent \/ ReadRequests \/ LookAt
       \/ Apply \/ FragOne \/ ResetAgain \/ NCSEnds \/ NCSDies \/ SwitchStart \/ SwitchOne \/ UNCHANGED vars
       => Others
  BY DEF Tick, NCSStart, SuspectState, SuspectClose, SuspectOpen, CheckEvent, ReadRequests, LookAt, Apply,
         FragOne, ResetAgain, NCSEnds, NCSDies, SwitchStart, SwitchOne, vars
<1> HIDE DEF Others
<1> QED
  BY <1>3, <1>4, <1>5, <1>6, <1>7, <1>8, <1>9, <1>10 DEF Next, AdminStep

-----------------------------------------------------------------------------
(* What the two statements on the rows do to a history *)

LEMMA ClosedRow ==
  ASSUME NEW rs \in Seq(Rows), clock \in Nat
  PROVE  /\ DOMAIN Closed(rs) = DOMAIN rs
         /\ \A i \in DOMAIN rs :
              /\ rs[i] \in Rows
              /\ Closed(rs)[i].start = rs[i].start
              /\ Closed(rs)[i].stop = IF rs[i].stop = 0 THEN clock ELSE rs[i].stop
<1>1. \A i \in DOMAIN rs : rs[i] \in Rows
  BY LenProperties
<1>2. DOMAIN Closed(rs) = DOMAIN rs
      /\ \A i \in DOMAIN rs : Closed(rs)[i] = IF rs[i].stop = 0 THEN [rs[i] EXCEPT !.stop = clock] ELSE rs[i]
  BY DEF Closed
<1>3. \A row \in Rows : [row EXCEPT !.stop = clock].start = row.start /\ [row EXCEPT !.stop = clock].stop = clock
  BY DEF Rows
<1> QED
  BY <1>1, <1>2, <1>3

LEMMA ClosedIsPast ==
  ASSUME NEW rs \in Seq(Rows), clock \in Nat \ {0}, PastRows(rs, clock)
  PROVE  PastRows(Closed(rs), clock)
BY ClosedRow DEF PastRows

LEMMA ClosedIsInOrder ==
  ASSUME NEW rs \in Seq(Rows), clock \in Nat \ {0}, PastRows(rs, clock), InOrder(rs)
  PROVE  InOrder(Closed(rs))
<1>1. DOMAIN Closed(rs) = DOMAIN rs /\ DOMAIN rs = 1..Len(rs) /\ Len(rs) \in Nat
  BY ClosedRow, LenProperties
<1>2. ASSUME NEW i \in DOMAIN rs
      PROVE  /\ Closed(rs)[i].stop # 0 => Closed(rs)[i].start <= Closed(rs)[i].stop
             /\ i > 1 => Closed(rs)[i - 1].stop # 0 /\ Closed(rs)[i - 1].stop <= Closed(rs)[i].start
  <2>1. Closed(rs)[i].stop # 0 => Closed(rs)[i].start <= Closed(rs)[i].stop
    <3>1. /\ Closed(rs)[i].start = rs[i].start
          /\ Closed(rs)[i].stop = IF rs[i].stop = 0 THEN clock ELSE rs[i].stop
      BY ClosedRow
    <3>2. rs[i].start \in 1..clock /\ (rs[i].stop # 0 => rs[i].start <= rs[i].stop)
      BY DEF PastRows, InOrder
    <3> QED
      BY <3>1, <3>2
  <2>2. ASSUME i > 1
        PROVE  Closed(rs)[i - 1].stop # 0 /\ Closed(rs)[i - 1].stop <= Closed(rs)[i].start
    <3>1. i - 1 \in DOMAIN rs
      BY <1>1, <2>2
    <3>2. rs[i - 1].stop # 0 /\ rs[i - 1].stop <= rs[i].start
      BY <2>2 DEF InOrder
    <3>3. Closed(rs)[i - 1].stop = rs[i - 1].stop /\ Closed(rs)[i].start = rs[i].start
      BY <3>1, <3>2, ClosedRow
    <3> QED
      BY <3>2, <3>3
  <2> QED
    BY <2>1, <2>2
<1> QED
  BY <1>1, <1>2 DEF InOrder

(* All the rows are closed, at t or before *)
ClosedBy(rs, t) == \A i \in DOMAIN rs : rs[i].stop # 0 /\ rs[i].stop <= t

LEMMA AddedRow ==
  ASSUME NEW rs \in Seq(Rows), NEW row \in Rows
  PROVE  /\ DOMAIN Append(rs, row) = DOMAIN rs \cup {Len(rs) + 1} /\ Len(rs) + 1 \notin DOMAIN rs
         /\ DOMAIN rs = 1..Len(rs) /\ Len(rs) \in Nat
         /\ Append(rs, row)[Len(rs) + 1] = row
         /\ \A i \in DOMAIN rs : Append(rs, row)[i] = rs[i]
OBVIOUS

LEMMA AddedIsPast ==
  ASSUME NEW rs \in Seq(Rows), NEW row \in Rows, NEW t \in Nat, PastRows(rs, t), row.start \in 1..t, row.stop = 0
  PROVE  PastRows(Append(rs, row), t)
<1> DEFINE more == Append(rs, row)
<1>1. /\ DOMAIN more = DOMAIN rs \cup {Len(rs) + 1}
      /\ more[Len(rs) + 1] = row /\ \A i \in DOMAIN rs : more[i] = rs[i]
  BY AddedRow
<1> HIDE DEF more
<1>2. PastRows(more, t)
  BY <1>1 DEF PastRows
<1> QED
  BY <1>2 DEF more

LEMMA AddedIsOpen ==
  ASSUME NEW rs \in Seq(Rows), NEW row \in Rows, row.stop = 0, ClosedBy(rs, row.start)
  PROVE  OneOpen(Append(rs, row), row.value)
<1> DEFINE more == Append(rs, row)
<1>1. /\ DOMAIN more = DOMAIN rs \cup {Len(rs) + 1} /\ Len(rs) + 1 \notin DOMAIN rs
      /\ more[Len(rs) + 1] = row /\ \A i \in DOMAIN rs : more[i] = rs[i]
  BY AddedRow
<1> HIDE DEF more
<1>2. {k \in DOMAIN more : more[k].stop = 0} = {Len(rs) + 1}
  BY <1>1 DEF ClosedBy
<1>3. OneOpen(more, row.value)
  BY <1>1, <1>2 DEF OneOpen
<1> QED
  BY <1>3 DEF more

LEMMA AddedIsInOrder ==
  ASSUME NEW rs \in Seq(Rows), NEW row \in Rows, row.stop = 0, ClosedBy(rs, row.start), InOrder(rs)
  PROVE  InOrder(Append(rs, row))
<1> DEFINE more == Append(rs, row)
<1>1. /\ DOMAIN more = DOMAIN rs \cup {Len(rs) + 1} /\ DOMAIN rs = 1..Len(rs) /\ Len(rs) \in Nat
      /\ more[Len(rs) + 1] = row /\ \A i \in DOMAIN rs : more[i] = rs[i]
  BY AddedRow
<1> HIDE DEF more
<1>2. ASSUME NEW i \in DOMAIN more
      PROVE  /\ more[i].stop # 0 => more[i].start <= more[i].stop
             /\ i > 1 => more[i - 1].stop # 0 /\ more[i - 1].stop <= more[i].start
  <2>1. CASE i \in DOMAIN rs
    <3>1. i > 1 => i - 1 \in DOMAIN rs
      BY <1>1, <2>1
    <3> QED
      BY <1>1, <2>1, <3>1 DEF InOrder
  <2>2. CASE i = Len(rs) + 1
    <3>1. i > 1 => i - 1 \in DOMAIN rs
      BY <1>1, <2>2
    <3> QED
      BY <1>1, <2>2, <3>1 DEF ClosedBy
  <2> QED
    BY <1>1, <2>1, <2>2
<1>3. InOrder(more)
  BY <1>2 DEF InOrder
<1> QED
  BY <1>3 DEF more

-----------------------------------------------------------------------------
(* The history, program by program *)

RowsKept == Datable /\ Halfway /\ Told

(* Steps that do not touch the history *)
LEMMA HistoryLeft ==
  ASSUME RowsKept, UNCHANGED <<known, state, log, late, torn, clock, date, program, hand>>
  PROVE  RowsKept'
BY DEF RowsKept, Datable, Halfway, Told, InSuspicion

LEMMA HistoryMoves ==
  ASSUME RowsKept, UNCHANGED <<known, state, log, late, torn, clock>>,
         program \notin {"closing", "opening"}, program' \notin {"closing", "opening"}
  PROVE  RowsKept'
BY DEF RowsKept, Datable, Halfway, Told, InSuspicion

LEMMA TickHistory == ASSUME IInv, RowsKept, Tick PROVE RowsKept'
<1>1. clock' = clock + 1 /\ clock < MaxClock /\ clock \in Nat \ {0} /\ MaxClock \in Nat
      /\ UNCHANGED <<known, state, log, late, torn, date, program, hand>>
  BY BoundAssumption DEF Tick, table, rows, prog, history, IInv, Types
<1>2. Halfway' /\ Told'
  BY <1>1 DEF RowsKept, Halfway, Told, InSuspicion
<1>3. Datable'
  <2>1. ASSUME NEW r \in Resources PROVE PastRows(log[r], clock')
    <3>1. \A i \in DOMAIN log[r] : log[r][i].start \in 1..clock /\ log[r][i].stop <= clock /\ log[r][i] \in Rows
      BY LenProperties DEF RowsKept, Datable, PastRows, IInv, Types
    <3> QED
      BY <1>1, <3>1 DEF PastRows, Rows
  <2> QED
    BY <1>1, <2>1 DEF RowsKept, Datable
<1> QED
  BY <1>2, <1>3 DEF RowsKept

LEMMA AddResourceHistory == ASSUME IInv, HInv, RowsKept, NEW r \in Resources, AddResource(r) PROVE RowsKept'
<1>1. /\ since[r] = 0 /\ known' = known \cup {r} /\ log' = [log EXCEPT ![r] = FirstRows]
      /\ UNCHANGED <<state, clock, date, program, hand, torn>>
      /\ late \subseteq late' /\ (InSuspicion(r) => r \in late')
  BY DEF AddResource, prog, InSuspicion
<1>2. state[r] = "Alive" /\ log \in [Resources -> Seq(Rows)] /\ clock \in Nat \ {0} /\ known \subseteq Resources
      /\ r \notin known
  BY <1>1 DEF HInv, NotYet, IInv, Types, NeverThere
<1>3. /\ DOMAIN FirstRows = {1} /\ FirstRows[1].stop = 0 /\ FirstRows[1].start = clock
      /\ FirstRows[1].value = "Alive"
  BY DEF FirstRows, Row
<1> HIDE DEF FirstRows
<1>4. PastRows(FirstRows, clock) /\ OneOpen(FirstRows, "Alive") /\ InOrder(FirstRows)
  <2>1. PastRows(FirstRows, clock)
    BY <1>2, <1>3 DEF PastRows
  <2>2. OneOpen(FirstRows, "Alive")
    <3>1. {k \in DOMAIN FirstRows : FirstRows[k].stop = 0} = {1}
      BY <1>3
    <3> QED
      BY <1>3, <3>1 DEF OneOpen
  <2>3. InOrder(FirstRows)
    BY <1>3 DEF InOrder
  <2> QED
    BY <2>1, <2>2, <2>3
<1>5. log'[r] = FirstRows /\ \A q \in Resources \ {r} : log'[q] = log[q]
  BY <1>1, <1>2
<1>6. \A q \in known : InSuspicion(q)' <=> InSuspicion(q)
  BY <1>1 DEF InSuspicion
<1>7. Datable'
  BY <1>1, <1>4, <1>5 DEF RowsKept, Datable
<1>8. Halfway'
  BY <1>1, <1>2, <1>5, <1>6 DEF RowsKept, Halfway, InSuspicion
<1>9. Told'
  <2>1. ASSUME NEW q \in known' \ late' PROVE InOrder(log'[q])
    BY <1>1, <1>2, <1>4, <1>5 DEF RowsKept, Told
  <2>2. ASSUME NEW q \in known' \ (late' \cup torn'), ~InSuspicion(q)'
        PROVE  OneOpen(log'[q], state'[q])
    BY <1>1, <1>2, <1>4, <1>5, <1>6, <2>2 DEF RowsKept, Told
  <2> QED
    BY <2>1, <2>2 DEF Told
<1> QED
  BY <1>7, <1>8, <1>9 DEF RowsKept

LEMMA RemoveResourceHistory == ASSUME IInv, RowsKept, NEW r \in Resources, RemoveResource(r) PROVE RowsKept'
<1>1. /\ known' = known \ {r} /\ log' = [log EXCEPT ![r] = <<>>]
      /\ UNCHANGED <<state, clock, date, program, hand, late, torn>>
  BY DEF RemoveResource, prog
<1>2. log'[r] = <<>> /\ \A q \in Resources \ {r} : log'[q] = log[q]
  BY <1>1 DEF IInv, Types
<1>3. known \subseteq Resources
  BY DEF IInv, Types
<1>4. Datable'
  BY <1>1, <1>2 DEF RowsKept, Datable, PastRows
<1>5. Halfway' /\ Told'
  BY <1>1, <1>2, <1>3 DEF RowsKept, Halfway, Told, InSuspicion
<1> QED
  BY <1>4, <1>5 DEF RowsKept

LEMMA SuspectStateHistory == ASSUME IInv, RowsKept, SuspectState PROVE RowsKept'
<1>1. PICK e \in todo :
        hand' = e /\ state' = [r \in Resources |-> IF r \in OnHost(e.host) THEN "Suspected" ELSE state[r]]
  BY DEF SuspectState
<1>2. program = "events" /\ program' = "closing" /\ UNCHANGED <<known, log, late, torn, clock, date>>
  BY DEF SuspectState, rows
<1>3. known \subseteq Resources
  BY DEF IInv, Types
<1>4. Datable'
  BY <1>2 DEF RowsKept, Datable
<1>5. Halfway'
  BY <1>1, <1>2, <1>3 DEF Halfway, InSuspicion, OnHost
<1>6. Told'
  <2>1. ASSUME NEW r \in known, ~InSuspicion(r)' PROVE state'[r] = state[r] /\ ~InSuspicion(r)
    BY <1>1, <1>2, <1>3, <2>1 DEF InSuspicion, OnHost
  <2> QED
    BY <1>2, <2>1 DEF RowsKept, Told
<1> QED
  BY <1>4, <1>5, <1>6 DEF RowsKept

LEMMA SuspectCloseHistory == ASSUME IInv, RowsKept, SuspectClose PROVE RowsKept'
<1>1. /\ program = "closing" /\ program' = "opening" /\ date' = clock
      /\ log' = [r \in Resources |-> IF r \in OnHost(hand.host) THEN Closed(log[r]) ELSE log[r]]
      /\ UNCHANGED <<known, state, clock, hand, late, torn>>
  BY DEF SuspectClose, table, history
<1>2. known \subseteq Resources /\ log \in [Resources -> Seq(Rows)] /\ clock \in Nat \ {0}
  BY DEF IInv, Types
<1>3. \A r \in Resources : PastRows(log[r], clock)
  BY DEF RowsKept, Datable
<1>4. \A r \in Resources : PastRows(Closed(log[r]), clock)
  BY <1>2, <1>3, ClosedIsPast
<1>5. Datable'
  BY <1>1, <1>2, <1>3, <1>4 DEF RowsKept, Datable
<1>6. ASSUME NEW r \in known' PROVE InSuspicion(r)' <=> InSuspicion(r)
  BY <1>1 DEF InSuspicion
<1>7. Halfway'
  <2>1. ASSUME NEW r \in known' \ late', InSuspicion(r)'
        PROVE  state'[r] = "Suspected" /\ \A i \in DOMAIN log'[r] : log'[r][i].stop <= date'
    <3>1. r \in Resources /\ log'[r] = Closed(log[r])
      BY <1>1, <1>2, <2>1 DEF InSuspicion, OnHost
    <3> QED
      BY <1>1, <1>4, <1>6, <2>1, <3>1 DEF RowsKept, Halfway, PastRows
  <2> QED
    BY <2>1 DEF Halfway
<1>8. Told'
  <2>1. ASSUME NEW r \in known' \ late' PROVE InOrder(log'[r])
    <3>1. r \in Resources /\ InOrder(log[r])
      BY <1>1, <1>2 DEF RowsKept, Told
    <3>2. InOrder(Closed(log[r]))
      BY <1>2, <1>3, <3>1, ClosedIsInOrder
    <3> QED
      BY <1>1, <3>1, <3>2
  <2>2. ASSUME NEW r \in known' \ (late' \cup torn'), ~InSuspicion(r)'
        PROVE  OneOpen(log'[r], state'[r])
    <3>1. log'[r] = log[r] /\ ~InSuspicion(r)
      BY <1>1, <1>2, <2>2 DEF InSuspicion, OnHost
    <3> QED
      BY <1>1, <2>2, <3>1 DEF RowsKept, Told
  <2> QED
    BY <2>1, <2>2 DEF Told
<1> QED
  BY <1>5, <1>7, <1>8 DEF RowsKept

LEMMA SuspectOpenHistory == ASSUME IInv, RowsKept, SuspectOpen PROVE RowsKept'
<1> DEFINE row == Row("Suspected", OpenDate)
<1>1. /\ program = "opening" /\ program' = "checking"
      /\ log' = [r \in Resources |-> IF r \in OnHost(hand.host) THEN Append(log[r], row) ELSE log[r]]
      /\ torn' = torn \ OnHost(hand.host)
      /\ UNCHANGED <<known, state, clock, hand, late>>
  BY DEF SuspectOpen, table
<1>2. row \in Rows /\ row.start = date /\ row.stop = 0 /\ row.value = "Suspected"
  BY DEF IInv, Types, Row, Rows, OpenDate, States
<1> HIDE DEF row
<1>3. known \subseteq Resources /\ log \in [Resources -> Seq(Rows)] /\ clock \in Nat \ {0}
  BY DEF IInv, Types
<1>4. Datable'
  <2>1. \A r \in Resources : PastRows(log[r], clock) /\ date \in 1..clock
    BY <1>1 DEF RowsKept, Datable
  <2>2. \A r \in Resources : PastRows(Append(log[r], row), clock)
    BY <1>2, <1>3, <2>1, AddedIsPast
  <2> QED
    BY <1>1, <2>1, <2>2 DEF RowsKept, Datable
<1>5. Halfway'
  BY <1>1 DEF Halfway, InSuspicion
<1>6. ASSUME NEW r \in known \ late, HostOf[r] = hand.host
      PROVE  /\ log'[r] = Append(log[r], row) /\ ClosedBy(log[r], row.start) /\ log[r] \in Seq(Rows)
             /\ state[r] = row.value /\ InOrder(log[r])
  <2>1. log'[r] = Append(log[r], row)
    BY <1>1, <1>3, <1>6 DEF OnHost
  <2>2. NoneOpen(r)
    BY <1>1, <1>6 DEF IInv, OpenIsSince
  <2>3. state[r] = "Suspected" /\ \A i \in DOMAIN log[r] : log[r][i].stop <= date
    BY <1>1, <1>6 DEF RowsKept, Halfway, InSuspicion
  <2> QED
    BY <1>2, <1>3, <2>1, <2>2, <2>3 DEF ClosedBy, NoneOpen, RowsKept, Told
<1>7. ASSUME NEW r \in known, HostOf[r] # hand.host
      PROVE  log'[r] = log[r] /\ ~InSuspicion(r) /\ r \notin OnHost(hand.host)
  BY <1>1, <1>3, <1>7 DEF OnHost, InSuspicion
<1>8. Told'
  <2>1. ASSUME NEW r \in known' \ late' PROVE InOrder(log'[r])
    BY <1>1, <1>2, <1>6, <1>7, AddedIsInOrder DEF RowsKept, Told
  <2>2. ASSUME NEW r \in known' \ (late' \cup torn')
        PROVE  OneOpen(log'[r], state'[r])
    <3>1. CASE HostOf[r] = hand.host
      <4>1. r \in known \ late
        BY <1>1
      <4>2. OneOpen(Append(log[r], row), row.value)
        BY <1>2, <1>6, <3>1, <4>1, AddedIsOpen
      <4> QED
        BY <1>1, <1>6, <3>1, <4>1, <4>2
    <3>2. CASE HostOf[r] # hand.host
      BY <1>1, <1>7, <3>2 DEF RowsKept, Told
    <3> QED
      BY <3>1, <3>2
  <2> QED
    BY <2>1, <2>2 DEF Told
<1> QED
  BY <1>4, <1>5, <1>8 DEF RowsKept

LEMMA ApplyHistory == ASSUME IInv, RowsKept, Apply PROVE RowsKept'
<1> DEFINE r == hand.res
<1> DEFINE row == Row(hand.asked, clock)
<1> DEFINE closed == Closed(log[r])
<1>1. /\ program = "applying" /\ program' \in {"fragging", "changes"}
      /\ log' = [log EXCEPT ![r] = Append(closed, row)]
      /\ r \in known => state' = [state EXCEPT ![r] = hand.asked]
      /\ r \notin known => UNCHANGED state
      /\ torn' = torn \ {r} /\ UNCHANGED <<known, clock, late>>
  BY DEF Apply
<1>2. hand.res \in Resources /\ hand.asked \in States
  BY <1>1 DEF IInv, ListIsSound, Applying
<1>3. /\ known \subseteq Resources /\ log \in [Resources -> Seq(Rows)] /\ clock \in Nat \ {0}
      /\ state \in [Resources -> States]
  BY DEF IInv, Types
<1>4. row \in Rows /\ row.start = clock /\ row.stop = 0 /\ row.value = hand.asked
  BY <1>2, <1>3 DEF Row, Rows
<1>5. /\ closed \in Seq(Rows) /\ PastRows(closed, clock) /\ ClosedBy(closed, clock)
      /\ InOrder(log[r]) => InOrder(closed)
  <2>1. log[r] \in Seq(Rows) /\ PastRows(log[r], clock)
    BY <1>2, <1>3 DEF RowsKept, Datable
  <2>2. closed \in Seq(Rows) /\ PastRows(closed, clock) /\ (InOrder(log[r]) => InOrder(closed))
    BY <1>3, <2>1, ClosedRows, ClosedIsPast, ClosedIsInOrder
  <2>3. \A i \in DOMAIN closed : closed[i].stop # 0
    BY <1>3, <2>1, ClosedRows
  <2> QED
    BY <2>2, <2>3 DEF ClosedBy, PastRows
<1> HIDE DEF row, closed
<1>6. /\ PastRows(Append(closed, row), clock) /\ OneOpen(Append(closed, row), hand.asked)
      /\ InOrder(log[r]) => InOrder(Append(closed, row))
  BY <1>3, <1>4, <1>5, AddedIsPast, AddedIsOpen, AddedIsInOrder
<1>7. log'[r] = Append(closed, row) /\ \A q \in Resources \ {r} : log'[q] = log[q]
  BY <1>1, <1>2, <1>3
<1>8. Datable'
  BY <1>1, <1>6, <1>7 DEF RowsKept, Datable
<1>9. Halfway'
  BY <1>1 DEF Halfway, InSuspicion
<1>10. Told'
  <2>1. ASSUME NEW q \in known' \ late' PROVE InOrder(log'[q])
    BY <1>1, <1>3, <1>6, <1>7 DEF RowsKept, Told
  <2>2. ASSUME NEW q \in known' \ (late' \cup torn')
        PROVE  OneOpen(log'[q], state'[q])
    <3>1. CASE q = r
      BY <1>1, <1>2, <1>3, <1>6, <1>7, <3>1
    <3>2. CASE q # r
      <4>1. q \in known \ (late \cup torn) /\ ~InSuspicion(q) /\ state'[q] = state[q] /\ log'[q] = log[q]
        BY <1>1, <1>2, <1>3, <1>7, <2>2, <3>2 DEF InSuspicion
      <4> QED
        BY <4>1 DEF RowsKept, Told
    <3> QED
      BY <3>1, <3>2
  <2> QED
    BY <2>1, <2>2 DEF Told
<1> QED
  BY <1>8, <1>9, <1>10 DEF RowsKept

LEMMA NCSDiesHistory == ASSUME IInv, RowsKept, NCSDies PROVE RowsKept'
<1>1. /\ program' = "none" /\ UNCHANGED <<known, state, log, clock, late>>
      /\ torn' = IF program \in {"closing", "opening"} THEN torn \cup OnHost(hand.host) ELSE torn
  BY DEF NCSDies, table, rows
<1>2. Datable' /\ Halfway'
  BY <1>1 DEF RowsKept, Datable, Halfway, InSuspicion
<1>3. ASSUME NEW r \in known \ (late' \cup torn') PROVE r \notin late \cup torn /\ ~InSuspicion(r)
  BY <1>1 DEF InSuspicion, OnHost
<1>4. Told'
  BY <1>1, <1>3 DEF RowsKept, Told
<1> QED
  BY <1>2, <1>4 DEF RowsKept

LEMMA HistoryKept == ASSUME IInv, HInv, [Next]_vars PROVE Datable' /\ Halfway' /\ Told'
<1> SUFFICES RowsKept'
  BY DEF RowsKept
<1> USE DEF table, rows, jobVars, prog, history
<1>1. RowsKept
  BY DEF HInv, RowsKept
<1>2. ASSUME NEW j, JobStarts(j) \/ JobEnds(j) PROVE RowsKept'
  BY <1>1, <1>2, HistoryLeft DEF JobStarts, JobEnds
<1>3. ASSUME NEW j, NEW h, Accuse(j, h) PROVE RowsKept'
  BY <1>1, <1>3, HistoryLeft DEF Accuse
<1>4. ASSUME NEW r, NEW s, SetState(r, s) PROVE RowsKept'
  BY <1>1, <1>4, HistoryLeft DEF SetState
<1>5. ASSUME NEW r \in Resources, AddResource(r) \/ RemoveResource(r) PROVE RowsKept'
  BY <1>1, <1>5, AddResourceHistory, RemoveResourceHistory
<1>6. CASE AdminStep
  BY <1>1, <1>6, AdminsLeave, HistoryLeft
<1>7. CASE FragOne \/ UNCHANGED vars
  <2>1. UNCHANGED <<known, state, log, late, torn, clock, date, program, hand>>
    BY <1>7 DEF FragOne, vars
  <2> QED
    BY <1>1, <2>1, HistoryLeft
<1>8. CASE \/ NCSStart \/ CheckEvent \/ ReadRequests \/ LookAt \/ ResetAgain \/ NCSEnds
           \/ SwitchStart \/ SwitchOne
  <2>1. /\ UNCHANGED <<known, state, log, late, torn, clock>>
        /\ program \notin {"closing", "opening"} /\ program' \notin {"closing", "opening"}
    BY <1>8 DEF NCSStart, CheckEvent, ReadRequests, LookAt, ResetAgain, NCSEnds, SwitchStart, SwitchOne
  <2> QED
    BY <1>1, <2>1, HistoryMoves
<1>9. CASE Tick \/ SuspectState \/ SuspectClose \/ SuspectOpen \/ Apply \/ NCSDies
  BY <1>1, <1>9, TickHistory, SuspectStateHistory, SuspectCloseHistory, SuspectOpenHistory, ApplyHistory,
     NCSDiesHistory
<1> QED
  BY <1>2, <1>3, <1>4, <1>5, <1>6, <1>7, <1>8, <1>9 DEF Next, AdminStep

-----------------------------------------------------------------------------
(* A step moves what it writes: the jobs of a resource taken out *)
LEMMA TakenOutKept == ASSUME IInv, HInv, [Next]_vars PROVE TakenOutIsCleared'
<1> DEFINE Same == UNCHANGED <<known, state, job, frag, unfragged>>
<1> USE DEF table, rows, jobVars, prog, history
<1>1. TakenOutIsCleared /\ known \subseteq Resources /\ state \in [Resources -> States]
      /\ job \in [Jobs -> {"waiting", "running", "over", "deleted"}] /\ frag \subseteq Jobs
  BY DEF IInv, HInv, Types, MoreTypes
<1>2. Same /\ UNCHANGED <<program, hand, kill>> => TakenOutIsCleared'
  BY <1>1 DEF TakenOutIsCleared
<1>3. Same /\ program # "fragging" => TakenOutIsCleared'
  BY <1>1 DEF TakenOutIsCleared
<1> HIDE DEF Same
<1>4. CASE Tick \/ UNCHANGED vars
  BY <1>2, <1>4 DEF Tick, vars, Same
<1>5. ASSUME NEW j \in Jobs, JobStarts(j) PROVE TakenOutIsCleared'
  <2>1. /\ job' = [job EXCEPT ![j] = "running"] /\ UNCHANGED <<known, state, frag, unfragged>>
        /\ UNCHANGED <<program, hand, kill>>
        /\ \A r \in Uses[j] : state[r] = "Alive"
    BY <1>5 DEF JobStarts
  <2> QED
    BY <1>1, <2>1 DEF TakenOutIsCleared
<1>6. ASSUME NEW j \in Jobs, JobEnds(j) PROVE TakenOutIsCleared'
  <2>1. job' = [job EXCEPT ![j] = "over"] /\ UNCHANGED <<known, state, frag, unfragged, program, hand, kill>>
    BY <1>6 DEF JobEnds
  <2> QED
    BY <1>1, <2>1 DEF TakenOutIsCleared
<1>7. ASSUME NEW j, NEW h, Accuse(j, h) PROVE TakenOutIsCleared'
  BY <1>2, <1>7 DEF Accuse, Same
<1>8. ASSUME NEW r \in Resources, NEW s, SetState(r, s) PROVE TakenOutIsCleared'
  BY <1>2, <1>8 DEF SetState, Same
<1>9. ASSUME NEW r \in Resources, AddResource(r) PROVE TakenOutIsCleared'
  <2>1. /\ known' = known \cup {r} /\ state[r] = "Alive"
        /\ UNCHANGED <<state, job, frag, unfragged, program, hand, kill>>
    BY <1>9 DEF AddResource, HInv, NotYet
  <2> QED
    BY <1>1, <2>1 DEF TakenOutIsCleared
<1>10. ASSUME NEW r \in Resources, RemoveResource(r) PROVE TakenOutIsCleared'
  <2> DEFINE gone == {j \in Jobs : r \in Uses[j] /\ job[j] \in {"running", "over"}}
  <2>1. /\ known' = known \ {r} /\ job' = [j \in Jobs |-> IF j \in gone THEN "deleted" ELSE job[j]]
        /\ frag' = frag \ gone /\ UNCHANGED <<state, unfragged, program, hand, kill>>
    BY <1>10 DEF RemoveResource
  <2> HIDE DEF gone
  <2> QED
    BY <1>1, <2>1 DEF TakenOutIsCleared
<1>11. ASSUME NEW a \in Admins, NEW r \in Resources,
              (\E v \in Uptos : SetUpto(a, r, v)) \/ MaintenanceOn(a, r) \/ MaintenanceOff(a, r)
       PROVE  TakenOutIsCleared'
  BY <1>2, <1>11 DEF SetUpto, MaintenanceOn, MaintenanceOff, Same
<1>12. ASSUME NEW a \in Admins,
              LogUpto(a) \/ OnZero(a) \/ OnSave(a) \/ OffBack(a) \/ AskAbsent(a) \/ CommandDies(a)
       PROVE  TakenOutIsCleared'
  BY <1>2, <1>12 DEF LogUpto, OnZero, OnSave, OffBack, AskAbsent, CommandDies, Same
<1>13. CASE \/ NCSStart \/ SuspectClose \/ SuspectOpen \/ CheckEvent \/ ReadRequests \/ LookAt
            \/ NCSEnds \/ SwitchStart \/ SwitchOne
  <2>1. Same /\ program # "fragging"
    BY <1>13 DEF NCSStart, SuspectClose, SuspectOpen, CheckEvent, ReadRequests, LookAt, NCSEnds,
                 SwitchStart, SwitchOne, Same
  <2> QED
    BY <1>3, <2>1
<1>14. CASE SuspectState
  <2>1. PICK rs : state' = [r \in Resources |-> IF r \in rs THEN "Suspected" ELSE state[r]]
    BY <1>14 DEF SuspectState
  <2>2. UNCHANGED <<known, job, frag, unfragged>> /\ program # "fragging"
    BY <1>14 DEF SuspectState
  <2> QED
    BY <1>1, <2>1, <2>2 DEF TakenOutIsCleared
<1>15. CASE Apply
  <2> DEFINE r == hand.res
  <2>1. /\ UNCHANGED <<known, job, frag>> /\ program = "applying" /\ unfragged' = unfragged \ {r}
        /\ IF r \in known THEN state' = [state EXCEPT ![r] = hand.asked] ELSE UNCHANGED state
        /\ hand.asked \in {"Dead", "Absent"} =>
             program' = "fragging" /\ hand' = hand /\ kill' = JobsOn(r)
    BY <1>15 DEF Apply
  <2>2. ASSUME NEW q \in known, NEW j \in Jobs \ Cosystem,
               state'[q] \in {"Dead", "Absent"}, q \in Uses[j], job[j] = "running"
        PROVE  j \in frag' \/ q \in unfragged' \/ (program' = "fragging" /\ hand'.res = q /\ j \in kill')
    <3>1. CASE q = r
      BY <1>1, <2>1, <2>2, <3>1 DEF JobsOn
    <3>2. CASE q # r
      BY <1>1, <2>1, <2>2, <3>2 DEF TakenOutIsCleared
    <3> QED
      BY <3>1, <3>2
  <2> QED
    BY <2>1, <2>2 DEF TakenOutIsCleared
<1>16. CASE FragOne
  <2>1. PICK j \in kill : kill' = kill \ {j} /\ frag' = IF job[j] = "deleted" THEN frag ELSE frag \cup {j}
    BY <1>16 DEF FragOne
  <2>2. UNCHANGED <<known, state, job, unfragged, program, hand>>
    BY <1>16 DEF FragOne
  <2> QED
    BY <1>1, <2>1, <2>2 DEF TakenOutIsCleared
<1>17. CASE ResetAgain
  <2>1. UNCHANGED <<known, state, job, frag, unfragged>> /\ kill = {}
    BY <1>17 DEF ResetAgain
  <2> QED
    BY <1>1, <2>1 DEF TakenOutIsCleared
<1>18. CASE NCSDies
  <2>1. /\ UNCHANGED <<known, state, job, frag>>
        /\ unfragged' = IF program = "fragging" THEN unfragged \cup {hand.res} ELSE unfragged
    BY <1>18 DEF NCSDies
  <2> QED
    BY <1>1, <2>1 DEF TakenOutIsCleared
<1> QED
  BY <1>4, <1>5, <1>6, <1>7, <1>8, <1>9, <1>10, <1>11, <1>12, <1>13, <1>14, <1>15, <1>16, <1>17, <1>18 DEF Next

-----------------------------------------------------------------------------
(* What accuses a node that a dead program has left half suspected *)

LEMMA AccusedKept == ASSUME IInv, HInv, [Next]_vars PROVE Accused'
<1> USE DEF table, rows, jobVars, prog, history
<1>1. Accused /\ HandIsSound /\ known \subseteq Resources /\ \A r \in Resources : since[r] = 0 => r \notin known
  BY DEF HInv, IInv, Types, NeverThere
<1>2. \A r \in Resources : since[r] # 0 => since'[r] # 0
  BY SinceKept
<1>3. ASSUME torn' \subseteq torn, torn' \cap known' \subseteq known,
             events \cup erased \subseteq events' \cup erased',
             program' = "checking" => program = "checking" /\ UNCHANGED hand
      PROVE  Accused'
  BY <1>1, <1>2, <1>3 DEF Accused, TornIsAccused
<1>4. CASE Tick \/ UNCHANGED vars
  BY <1>3, <1>4 DEF Tick, vars
<1>5. ASSUME NEW j, JobStarts(j) \/ JobEnds(j) PROVE Accused'
  BY <1>3, <1>5 DEF JobStarts, JobEnds
<1>6. ASSUME NEW j, NEW h, Accuse(j, h) PROVE Accused'
  BY <1>3, <1>6 DEF Accuse
<1>7. ASSUME NEW r, NEW s, SetState(r, s) PROVE Accused'
  BY <1>3, <1>7 DEF SetState
<1>8. ASSUME NEW r \in Resources, AddResource(r) PROVE Accused'
  <2>1. r \notin torn
    BY <1>1, <1>8 DEF AddResource, Accused
  <2> QED
    BY <1>3, <1>8, <2>1 DEF AddResource
<1>9. ASSUME NEW r \in Resources, RemoveResource(r) PROVE Accused'
  <2>1. PICK gone : events' = {e \in events : e.job \notin gone} /\ erased' = erased \cup {e \in events : e.job \in gone}
    BY <1>9 DEF RemoveResource
  <2>2. events \cup erased \subseteq events' \cup erased'
    BY <2>1
  <2>3. known' \subseteq known /\ UNCHANGED <<torn, program, hand>>
    BY <1>9 DEF RemoveResource
  <2> QED
    BY <1>3, <2>2, <2>3
<1>10. CASE AdminStep
  BY <1>3, <1>10, AdminsLeave
<1>11. CASE \/ NCSStart \/ SuspectState \/ SuspectClose \/ ReadRequests \/ LookAt \/ FragOne \/ ResetAgain
            \/ NCSEnds \/ SwitchStart \/ SwitchOne
  <2>1. UNCHANGED <<torn, known, events, erased>> /\ program' # "checking"
    BY <1>11 DEF NCSStart, SuspectState, SuspectClose, ReadRequests, LookAt, FragOne, ResetAgain, NCSEnds,
                 SwitchStart, SwitchOne, ToCheck
  <2> QED
    BY <1>3, <2>1
<1>12. CASE Apply
  <2>1. torn' \subseteq torn /\ UNCHANGED <<known, events, erased>> /\ program' # "checking"
    BY <1>12 DEF Apply
  <2> QED
    BY <1>3, <2>1
<1>13. CASE SuspectOpen
  <2>1. torn' = torn \ OnHost(hand.host) /\ UNCHANGED <<known, events, erased, hand>>
    BY <1>13 DEF SuspectOpen
  <2> QED
    BY <1>1, <1>2, <2>1 DEF Accused, TornIsAccused, OnHost
<1>14. CASE CheckEvent
  <2>1. PICK same \in SUBSET events :
               events' = events \ (same \cup {hand}) /\ erased' = erased \cup (same \ {hand})
    BY <1>14 DEF CheckEvent
  <2>2. UNCHANGED <<torn, known>> /\ program = "checking" /\ program' # "checking"
    BY <1>14 DEF CheckEvent
  <2>3. (events \cup erased) \ {hand} \subseteq events' \cup erased'
    BY <2>1
  <2> QED
    BY <1>1, <1>2, <2>2, <2>3 DEF Accused, TornIsAccused
<1>15. CASE NCSDies
  <2>1. /\ UNCHANGED <<known, events, erased>> /\ program' # "checking"
        /\ torn' = IF program \in {"closing", "opening"} THEN torn \cup OnHost(hand.host) ELSE torn
    BY <1>15 DEF NCSDies
  <2>2. program \in {"closing", "opening"} => hand \in events \cup erased
    BY <1>1 DEF HandIsSound
  <2> QED
    BY <1>1, <1>2, <2>1, <2>2 DEF Accused, TornIsAccused, OnHost
<1> QED
  BY <1>4, <1>5, <1>6, <1>7, <1>8, <1>9, <1>10, <1>11, <1>12, <1>13, <1>14, <1>15 DEF Next, AdminStep

-----------------------------------------------------------------------------
(* At the start *)
LEMMA HInitHolds == ASSUME Init PROVE HInv
<1>1. HandIsSound /\ TakenOutIsCleared
  BY DEF Init, HandIsSound, TakenOutIsCleared
<1>2. Default \in Uptos
  BY UptoAssumption DEF Default
<1>3. MoreTypes
  BY <1>2, UptoAssumption DEF Init, MoreTypes
<1>4. CommandsTyped
  <2>1. Idle \in CommandRecs /\ Idle.at = "idle"
    BY IdleIsACommand DEF Idle
  <2> QED
    BY <2>1 DEF Init, CommandsTyped, CommandRecs
<1>5. /\ \A r \in known : state[r] = "Alive" /\ log[r] = <<Row("Alive", 1)>>
      /\ \A r \in Resources : log[r] = <<Row("Alive", 1)>> \/ log[r] = <<>>
  BY HostAssumption DEF Init
<1> DEFINE first == <<Row("Alive", 1)>>
<1>6. DOMAIN first = {1} /\ first[1].start = 1 /\ first[1].stop = 0 /\ first[1].value = "Alive"
  BY DEF Row
<1> HIDE DEF first
<1>7. PastRows(first, 1) /\ PastRows(<<>>, 1) /\ InOrder(first)
  BY <1>6 DEF PastRows, InOrder
<1>8. OneOpen(first, "Alive")
  <2>1. {k \in DOMAIN first : first[k].stop = 0} = {1}
    BY <1>6
  <2> QED
    BY <1>6, <2>1 DEF OneOpen
<1>9. Datable
  BY <1>5, <1>7, BoundAssumption DEF Init, Datable, first
<1>10. Halfway /\ Told
  BY <1>5, <1>7, <1>8 DEF Init, Halfway, Told, InSuspicion, first
<1>11. Accused
  BY DEF Init, Accused, TornIsAccused
<1>12. NotYet
  BY DEF Init, NotYet
<1>13. Available
  <2>1. ASSUME NEW r \in known PROVE AvailableAt(r)
    <3>1. r \in Resources /\ upRows[r] = <<>> /\ maint[r] = FALSE /\ upto[r] = given[r]
      BY HostAssumption DEF Init
    <3>2. \A a \in Admins : adm[a].at = "idle"
      BY DEF Init, Idle
    <3> QED
      BY <3>1, <3>2 DEF AvailableAt, AtRest, RowTells, Serves
  <2> QED
    BY <2>1 DEF Available
<1> QED
  BY <1>1, <1>3, <1>4, <1>9, <1>10, <1>11, <1>12, <1>13 DEF HInv

(* The invariant of the history and of the commands, with the one above,   *)
(* holds at each commit                                                     *)
THEOREM HistoryInductive == Spec => []HInv
<1>1. Init => HInv
  BY HInitHolds
<1>2. IInv /\ HInv /\ [Next]_vars => HInv'
  <2> SUFFICES ASSUME IInv, HInv, [Next]_vars PROVE HInv'
    OBVIOUS
  <2> QED
    BY HandKept, TablesKept, CommandsKept, HistoryKept, AccusedKept, NotYetKept, AvailableKept, TakenOutKept
    DEF HInv
<1> QED
  BY <1>1, <1>2, Invariance, PTL DEF Spec

-----------------------------------------------------------------------------
LEMMA TypesFollow == ASSUME IInv, HInv PROVE TypeOK
<1>1. ASSUME NEW r \in Resources, NEW i \in DOMAIN log[r] PROVE log[r][i] \in LogRow
  <2>1. log[r] \in Seq(Rows) /\ clock \in Nat /\ clock <= MaxClock /\ MaxClock \in Nat /\ PastRows(log[r], clock)
    BY BoundAssumption DEF IInv, Types, HInv, Datable
  <2>2. log[r][i] \in Rows
    BY <2>1, LenProperties
  <2>3. log[r][i].start \in 1..clock /\ log[r][i].stop <= clock
    BY <2>1 DEF PastRows
  <2>4. log[r][i].start \in 1..MaxClock /\ log[r][i].stop \in 0..MaxClock
    BY <2>1, <2>2, <2>3 DEF Rows
  <2> QED
    BY <2>2, <2>4 DEF Rows, LogRow
<1>2. program \in {"applying", "fragging"} =>
        hand \in todo /\ hand \in [res : Resources, asked : States]
  BY DEF IInv, ListIsSound, Applying
<1>3. events \subseteq [job : Jobs, host : {HostOf[r] : r \in Resources}]
  BY DEF HInv, HandIsSound
<1> QED
  BY <1>1, <1>2, <1>3 DEF TypeOK, IInv, Types, HInv, HandIsSound, MoreTypes

(* For any resources, jobs and administrators, however many commands,      *)
(* suspicions and deaths of NodeChangeState: the open row of a resource    *)
(* tells its state, the rows follow each other, and a suspicion that was   *)
(* cut is done again                                                       *)
THEOREM HistoryIsTrue == Spec => []HistoryIsKept
<1>1. IInv /\ HInv => HistoryIsKept
  <2> SUFFICES ASSUME IInv, HInv PROVE HistoryIsKept
    OBVIOUS
  <2>1. HistoryTellsState
    BY DEF HInv, Told, Available, AvailableAt, AtRest, RowTells, HistoryTellsState, OpenRows, OneOpen
  <2>2. HistoryIsOrdered /\ TornIsAccused
    BY DEF HInv, Told, InOrder, Accused, HistoryIsOrdered
  <2> QED
    BY <2>1, <2>2, TypesFollow DEF HistoryIsKept
<1> QED
  BY <1>1, Invariance, HistoryInductive, PTL

(* Under the same conditions a maintenance gives back what it has taken,   *)
(* and the jobs of a resource taken out are to be killed                   *)
THEOREM CommandsAreKept == Spec => []CommandsHold
<1>1. HInv => CommandsHold
  <2> SUFFICES ASSUME HInv PROVE CommandsHold
    OBVIOUS
  <2>1. AvailabilityComesBack
    BY DEF HInv, Available, AvailableAt, AtRest, InMaintenance, AvailabilityComesBack
  <2> QED
    BY <2>1 DEF HInv, CommandsHold
<1> QED
  BY <1>1, HistoryInductive, PTL

=============================================================================
