----------------------- MODULE BipbipCommanderProofs -----------------------
(***************************************************************************)
(* For every set of jobs and messages and every limit, the commander never *)
(* has two live processes for one job, never loses sight of a process,     *)
(* never exceeds its limit by more than one entry, and keeps the promise   *)
(* of JobCommands.                                                         *)
(***************************************************************************)
EXTENDS BipbipCommander, FiniteSetTheorems, TLAPS

(* The table is finite, so its cardinality is a number. *)
LEMMA EntriesFinite ==
  ASSUME NEW f
  PROVE  /\ IsFiniteSet({j \in Jobs : f[j] # None})
         /\ Cardinality({j \in Jobs : f[j] # None}) \in Nat
<1>1. {j \in Jobs : f[j] # None} \in SUBSET Jobs
  OBVIOUS
<1>2. IsFiniteSet({j \in Jobs : f[j] # None})
  BY <1>1, JobsAssumption, FS_Subset
<1>3. QED
  BY <1>2, FS_CardinalityType

(* Starting a command adds at most one entry to the table. *)
LEMMA StartAddsOneEntry ==
  ASSUME NEW f \in [Jobs -> Commands \cup {None}], NEW c \in Commands,
         Cardinality({j \in Jobs : f[j] # None}) <= MaxProcs
  PROVE  Cardinality({j \in Jobs : [f EXCEPT ![JobOf[c]] = c][j] # None})
           <= MaxProcs + 1
<1> DEFINE E == {j \in Jobs : f[j] # None}
           k == JobOf[c]
           F == {j \in Jobs : [f EXCEPT ![k] = c][j] # None}
<1>1. k \in Jobs
  BY JobOfAssumption
<1>2. c # None
  BY NoneAssumption
<1>3. F = E \cup {k}
  BY <1>1, <1>2
<1>4. IsFiniteSet(E) /\ Cardinality(E) \in Nat
  BY EntriesFinite
<1>5. Cardinality(E \cup {k}) <= Cardinality(E) + 1
  BY <1>4, FS_AddElement
<1>6. Cardinality(E \cup {k}) \in Nat
  <2>1. IsFiniteSet(E \cup {k})
    BY <1>4, FS_AddElement
  <2>2. QED
    BY <2>1, FS_CardinalityType
<1>7. Cardinality(F) \in Nat /\ Cardinality(F) <= Cardinality(E) + 1
  BY <1>3, <1>5, <1>6
<1>8. Cardinality(E) <= MaxProcs
  OBVIOUS
<1> HIDE DEF E, F
<1>9. Cardinality(F) <= MaxProcs + 1
  BY <1>4, <1>7, <1>8, MaxProcsAssumption
<1>10. QED
  BY <1>9 DEF F

(* Removing the entries of dead processes does not add one. *)
LEMMA ReapingShrinks ==
  /\ Cardinality({j \in Jobs : Reaped[j] # None}) \in Nat
  /\ Cardinality({j \in Jobs : Reaped[j] # None}) <= Cardinality(Entries)
<1>1. {j \in Jobs : Reaped[j] # None} \in SUBSET Entries
  BY DEF Reaped, Entries
<1>2. IsFiniteSet(Entries)
  BY EntriesFinite DEF Entries
<1>3. QED
  BY <1>1, <1>2, FS_Subset, EntriesFinite

LEMMA InitEstablishesIInv == Init => IInv
<1> SUFFICES ASSUME Init PROVE IInv
  OBVIOUS
<1>1. TypeOK
  BY DEF Init, TypeOK
<1>2. LiveProcessesAreRegistered
  BY DEF Init, LiveProcessesAreRegistered
<1>3. EntriesBounded
  <2>1. Entries = {}
    BY DEF Init, Entries
  <2>2. QED
    BY <2>1, FS_EmptySet, MaxProcsAssumption DEF EntriesBounded
<1>4. QED
  BY <1>1, <1>2, <1>3 DEF IInv, Init

LEMMA NextPreservesIInv == IInv /\ [Next]_vars => IInv'
<1> SUFFICES ASSUME IInv, [Next]_vars PROVE IInv'
  OBVIOUS
<1> USE JobOfAssumption, NoneAssumption
<1>1. ASSUME NEW c \in Commands, Send(c) PROVE IInv'
  BY <1>1 DEF IInv, TypeOK, LiveProcessesAreRegistered, EntriesBounded,
              Entries, Send, loopVars
<1>2. ASSUME NEW c \in Commands, ProcessEnds(c) PROVE IInv'
  BY <1>2 DEF IInv, TypeOK, LiveProcessesAreRegistered, EntriesBounded,
              Entries, ProcessEnds, loopVars
<1>3. CASE Receive
  <2>1. TypeOK'
    BY <1>3 DEF IInv, TypeOK, Receive
  <2>2. QED
    BY <1>3, <2>1 DEF IInv, LiveProcessesAreRegistered, EntriesBounded,
                      Entries, Receive
<1>4. CASE ReceiveTimeout
  BY <1>4 DEF IInv, TypeOK, LiveProcessesAreRegistered, EntriesBounded,
              Entries, ReceiveTimeout
<1>5. CASE PopRequeue
  <2>1. Head(toRun) \in Commands /\ Tail(toRun) \in Seq(Commands)
    BY <1>5 DEF IInv, TypeOK, PopRequeue, CanPop
  <2>2. TypeOK'
    BY <1>5, <2>1 DEF IInv, TypeOK, PopRequeue
  <2>3. pc' = "drain"
    BY <1>5 DEF PopRequeue, CanPop
  <2>4. QED
    BY <1>5, <2>2, <2>3 DEF IInv, LiveProcessesAreRegistered, EntriesBounded,
                            Entries, PopRequeue
<1>6. CASE PopStart
  <2> DEFINE c == Head(toRun)
  <2>1. c \in Commands /\ Tail(toRun) \in Seq(Commands)
    BY <1>6 DEF IInv, TypeOK, PopStart, CanPop
  <2>2. /\ executors' = [executors EXCEPT ![JobOf[c]] = c]
        /\ alive' = alive \cup {c}
        /\ executors[JobOf[c]] \notin alive
        /\ pc' = "drain"
    BY <1>6 DEF PopStart, Busy, CanPop
  <2>3. TypeOK'
    BY <1>6, <2>1, <2>2 DEF IInv, TypeOK, PopStart
  <2>4. LiveProcessesAreRegistered'
    BY <2>1, <2>2 DEF IInv, TypeOK, LiveProcessesAreRegistered
  <2>5. EntriesBounded'
    <3>1. Cardinality(Entries) <= MaxProcs
      BY <1>6 DEF PopStart, CanPop
    <3>2. QED
      BY <2>1, <2>2, <3>1, StartAddsOneEntry
      DEF IInv, TypeOK, EntriesBounded, Entries
  <2>6. QED
    BY <2>2, <2>3, <2>4, <2>5 DEF IInv
<1>7. CASE EndPass
  <2>1. TypeOK'
    BY <1>7 DEF IInv, TypeOK, EndPass, Reaped
  <2>2. LiveProcessesAreRegistered'
    BY <1>7 DEF IInv, TypeOK, LiveProcessesAreRegistered, EndPass, Reaped
  <2>3. EntriesBounded'
    <3>1. Entries' = {j \in Jobs : Reaped[j] # None}
      BY <1>7 DEF EndPass, Entries
    <3>2. Cardinality(Entries) \in Nat
      BY EntriesFinite DEF Entries
    <3>3. QED
      BY <3>1, <3>2, ReapingShrinks, MaxProcsAssumption DEF IInv, EntriesBounded
  <2>4. toRequeue' = <<>> /\ (blocking' => toRun' = <<>>)
    BY <1>7 DEF EndPass
  <2>5. QED
    BY <2>1, <2>2, <2>3, <2>4 DEF IInv
<1>8. CASE UNCHANGED vars
  BY <1>8 DEF IInv, TypeOK, LiveProcessesAreRegistered, EntriesBounded,
              Entries, vars
<1>9. QED
  BY <1>1, <1>2, <1>3, <1>4, <1>5, <1>6, <1>7, <1>8 DEF Next, Loop

LEMMA SpecIInv == Spec => []IInv
  BY InitEstablishesIInv, NextPreservesIInv, PTL DEF Spec

(* The variables of the loop keep their types. *)
THEOREM TypeCorrect == Spec => []TypeOK
<1>1. IInv => TypeOK
  BY DEF IInv
<1>2. QED
  BY <1>1, SpecIInv, PTL

(* No job is ever worked on by two bipbip or leon processes at once.       *)
THEOREM MutualExclusion == Spec => []OneProcessPerJob
<1>1. IInv => OneProcessPerJob
  BY DEF IInv, LiveProcessesAreRegistered, OneProcessPerJob
<1>2. QED
  BY <1>1, SpecIInv, PTL

(* The executor table holds at most one entry more than its limit.         *)
THEOREM TableBounded == Spec => []EntriesBounded
<1>1. IInv => EntriesBounded
  BY DEF IInv
<1>2. QED
  BY <1>1, SpecIInv, PTL

(* Every live process is the one its job's entry knows.                    *)
THEOREM Registered == Spec => []LiveProcessesAreRegistered
<1>1. IInv => LiveProcessesAreRegistered
  BY DEF IInv
<1>2. QED
  BY <1>1, SpecIInv, PTL

(* The commander never blocks on its socket with a command in its lists.   *)
THEOREM NeverBlockedWithWork == Spec => []NoWorkWhileBlocked
<1>1. IInv => NoWorkWhileBlocked
  BY DEF IInv, NoWorkWhileBlocked
<1>2. QED
  BY <1>1, SpecIInv, PTL

-----------------------------------------------------------------------------
(* The refinement of JobCommands. A command is in one place at a time: it  *)
(* waits in one of the three lists, once, or its process is at work, or it *)
(* has ended; so that no list can start it again.                          *)

Queued == Range(net) \cup Range(toRun) \cup Range(toRequeue)

ListsApart ==
  /\ IsInjective(net) /\ IsInjective(toRun) /\ IsInjective(toRequeue)
  /\ Range(net) \cap Range(toRun) = {}
  /\ Range(net) \cap Range(toRequeue) = {}
  /\ Range(toRun) \cap Range(toRequeue) = {}

StagesApart ==
  /\ unsent \cap (Queued \cup alive \cup ended) = {}
  /\ Queued \cap (alive \cup ended) = {}
  /\ alive \cap ended = {}

OnePlace == ListsApart /\ StagesApart

(* Lists without repetition *)
LEMMA AppendOne ==
  ASSUME NEW s \in Seq(Commands), NEW c \in Commands
  PROVE  /\ Range(Append(s, c)) = Range(s) \cup {c}
         /\ IsInjective(s) /\ c \notin Range(s) => IsInjective(Append(s, c))
<1> DEFINE t == Append(s, c)
<1>1. /\ Len(t) = Len(s) + 1 /\ t[Len(s) + 1] = c /\ DOMAIN t = 1..Len(s) + 1
      /\ \A i \in 1..Len(s) : t[i] = s[i]
      /\ Len(s) \in Nat /\ DOMAIN s = 1..Len(s)
  OBVIOUS
<1>2. DOMAIN t = DOMAIN s \cup {Len(s) + 1}
  BY <1>1
<1> HIDE DEF t
<1>3. Range(t) = Range(s) \cup {c}
  BY <1>1, <1>2 DEF Range
<1>4. IsInjective(s) /\ c \notin Range(s) => IsInjective(t)
  BY <1>1, <1>2 DEF IsInjective, Range
<1> QED
  BY <1>3, <1>4 DEF t

LEMMA HeadAndTail ==
  ASSUME NEW s \in Seq(Commands), s # <<>>
  PROVE  /\ Range(s) = {Head(s)} \cup Range(Tail(s))
         /\ IsInjective(s) => IsInjective(Tail(s)) /\ Head(s) \notin Range(Tail(s))
         /\ Head(s) \in Commands /\ Tail(s) \in Seq(Commands)
<1> DEFINE t == Tail(s)
<1>1. /\ Len(s) \in Nat /\ Len(s) > 0 /\ DOMAIN s = 1..Len(s) /\ Head(s) = s[1]
      /\ DOMAIN t = 1..(Len(s) - 1) /\ \A i \in 1..(Len(s) - 1) : t[i] = s[i + 1]
      /\ Head(s) \in Commands /\ t \in Seq(Commands)
  OBVIOUS
<1> HIDE DEF t
<1>2. \A i \in DOMAIN s : i = 1 \/ (i - 1 \in DOMAIN t /\ t[i - 1] = s[i])
  BY <1>1
<1>3. \A i \in DOMAIN t : i + 1 \in DOMAIN s /\ t[i] = s[i + 1] /\ i + 1 # 1 /\ i \in Nat
  BY <1>1
<1>4. 1 \in DOMAIN s /\ Head(s) = s[1]
  BY <1>1
<1>5. Range(s) = {Head(s)} \cup Range(t)
  BY <1>2, <1>3, <1>4 DEF Range
<1>6. ASSUME IsInjective(s)
      PROVE  IsInjective(t) /\ Head(s) \notin Range(t)
  BY <1>3, <1>4, <1>6 DEF IsInjective, Range
<1> QED
  BY <1>1, <1>5, <1>6 DEF t

LEMMA Concatenation ==
  ASSUME NEW s \in Seq(Commands), NEW t \in Seq(Commands)
  PROVE  /\ Range(s \o t) = Range(s) \cup Range(t)
         /\ IsInjective(s) /\ IsInjective(t) /\ Range(s) \cap Range(t) = {} => IsInjective(s \o t)
<1> DEFINE u == s \o t
<1>1. /\ Len(s) \in Nat /\ Len(t) \in Nat /\ DOMAIN s = 1..Len(s) /\ DOMAIN t = 1..Len(t)
      /\ DOMAIN u = 1..(Len(s) + Len(t))
      /\ \A i \in 1..(Len(s) + Len(t)) : u[i] = IF i <= Len(s) THEN s[i] ELSE t[i - Len(s)]
  OBVIOUS
<1> HIDE DEF u
<1>2. \A i \in DOMAIN u :
        \/ i \in DOMAIN s /\ u[i] = s[i]
        \/ i \notin DOMAIN s /\ i - Len(s) \in DOMAIN t /\ u[i] = t[i - Len(s)]
  BY <1>1
<1>3. /\ \A i \in DOMAIN s : i \in DOMAIN u /\ u[i] = s[i]
      /\ \A i \in DOMAIN t : i + Len(s) \in DOMAIN u /\ u[i + Len(s)] = t[i]
  BY <1>1
<1>4. Range(u) = Range(s) \cup Range(t)
  BY <1>2, <1>3 DEF Range
<1>5. ASSUME IsInjective(s), IsInjective(t), Range(s) \cap Range(t) = {},
             NEW i \in DOMAIN u, NEW k \in DOMAIN u, u[i] = u[k]
      PROVE  i = k
  <2>1. i \in Int /\ k \in Int /\ Len(s) \in Int
    BY <1>1
  <2>2. CASE i \in DOMAIN s /\ k \in DOMAIN s
    BY <1>2, <1>5, <2>2 DEF IsInjective
  <2>3. CASE i \notin DOMAIN s /\ k \notin DOMAIN s
    <3>1. i - Len(s) \in DOMAIN t /\ k - Len(s) \in DOMAIN t /\ t[i - Len(s)] = t[k - Len(s)]
      BY <1>2, <1>5, <2>3
    <3>2. i - Len(s) = k - Len(s)
      BY <1>5, <3>1 DEF IsInjective
    <3> QED
      BY <2>1, <3>2
  <2>4. ASSUME NEW a \in DOMAIN u, NEW b \in DOMAIN u, a \in DOMAIN s, b \notin DOMAIN s
        PROVE  u[a] # u[b]
    <3>1. u[a] \in Range(s)
      BY <1>2, <2>4 DEF Range
    <3>2. u[b] \in Range(t)
      BY <1>2, <2>4 DEF Range
    <3> QED
      BY <1>5, <3>1, <3>2
  <2> QED
    BY <1>5, <2>2, <2>3, <2>4
<1>6. IsInjective(s) /\ IsInjective(t) /\ Range(s) \cap Range(t) = {} => IsInjective(u)
  BY <1>5 DEF IsInjective
<1> QED
  BY <1>4, <1>6 DEF u

LEMMA EmptyList == Range(<<>>) = {} /\ IsInjective(<<>>)
BY DEF Range, IsInjective

(* Every step moves a command from one place to the next *)
LEMMA InitOnePlace == Init => OnePlace
BY EmptyList DEF Init, OnePlace, ListsApart, StagesApart, Queued

LEMMA NextKeepsOnePlace == IInv /\ OnePlace /\ [Next]_vars => OnePlace'
<1> SUFFICES ASSUME IInv, OnePlace, [Next]_vars PROVE OnePlace'
  OBVIOUS
<1> USE DEF OnePlace, ListsApart, StagesApart, Queued
<1>0. net \in Seq(Commands) /\ toRun \in Seq(Commands) /\ toRequeue \in Seq(Commands)
  BY DEF IInv, TypeOK
<1>1. ASSUME NEW c \in Commands, Send(c) PROVE OnePlace'
  <2>1. c \in unsent /\ unsent' = unsent \ {c} /\ net' = Append(net, c)
        /\ UNCHANGED <<toRun, toRequeue, alive, ended>>
    BY <1>1 DEF Send, loopVars
  <2>2. Range(net') = Range(net) \cup {c} /\ IsInjective(net')
    BY <1>0, <2>1, AppendOne
  <2> QED
    BY <2>1, <2>2
<1>2. ASSUME NEW c \in Commands, ProcessEnds(c) PROVE OnePlace'
  BY <1>2 DEF ProcessEnds, loopVars
<1>3. CASE Receive
  <2> DEFINE c == Head(net)
  <2>1. /\ Range(net) = {c} \cup Range(Tail(net)) /\ IsInjective(Tail(net))
        /\ c \notin Range(Tail(net)) /\ c \in Commands
    BY <1>0, <1>3, HeadAndTail DEF Receive
  <2>2. toRun' = Append(toRun, c) /\ net' = Tail(net) /\ UNCHANGED <<unsent, toRequeue, alive, ended>>
    BY <1>3 DEF Receive
  <2> HIDE DEF c
  <2>3. Range(toRun') = Range(toRun) \cup {c} /\ IsInjective(toRun')
    BY <1>0, <2>1, <2>2, AppendOne
  <2> QED
    BY <2>1, <2>2, <2>3
<1>4. CASE ReceiveTimeout
  BY <1>4 DEF ReceiveTimeout
<1>5. CASE PopRequeue
  <2> DEFINE c == Head(toRun)
  <2>1. /\ Range(toRun) = {c} \cup Range(Tail(toRun)) /\ IsInjective(Tail(toRun))
        /\ c \notin Range(Tail(toRun)) /\ c \in Commands
    BY <1>0, <1>5, HeadAndTail DEF PopRequeue, CanPop
  <2>2. /\ toRun' = Tail(toRun) /\ toRequeue' = Append(toRequeue, c)
        /\ UNCHANGED <<unsent, net, alive, ended>>
    BY <1>5 DEF PopRequeue
  <2> HIDE DEF c
  <2>3. Range(toRequeue') = Range(toRequeue) \cup {c} /\ IsInjective(toRequeue')
    BY <1>0, <2>1, <2>2, AppendOne
  <2> QED
    BY <2>1, <2>2, <2>3
<1>6. CASE PopStart
  <2> DEFINE c == Head(toRun)
  <2>1. /\ Range(toRun) = {c} \cup Range(Tail(toRun)) /\ IsInjective(Tail(toRun))
        /\ c \notin Range(Tail(toRun))
    BY <1>0, <1>6, HeadAndTail DEF PopStart, CanPop
  <2>2. toRun' = Tail(toRun) /\ alive' = alive \cup {c} /\ UNCHANGED <<unsent, net, toRequeue, ended>>
    BY <1>6 DEF PopStart
  <2> HIDE DEF c
  <2> QED
    BY <2>1, <2>2
<1>7. CASE EndPass
  <2>1. toRun' = toRun \o toRequeue /\ toRequeue' = <<>> /\ UNCHANGED <<unsent, net, alive, ended>>
    BY <1>7 DEF EndPass
  <2>2. Range(toRun') = Range(toRun) \cup Range(toRequeue) /\ IsInjective(toRun')
    BY <1>0, <2>1, Concatenation
  <2> QED
    BY <2>1, <2>2, EmptyList
<1>8. CASE UNCHANGED vars
  BY <1>8 DEF vars
<1> QED
  BY <1>1, <1>2, <1>3, <1>4, <1>5, <1>6, <1>7, <1>8 DEF Next, Loop

(* Each live process has an entry of its own in the table *)
LEMMA LiveFitTheTable ==
  ASSUME IInv
  PROVE  /\ IsFiniteSet(alive) /\ Cardinality(alive) \in Nat
         /\ Cardinality(alive) <= Cardinality(Entries)
<1> DEFINE f == [c \in alive |-> JobOf[c]]
<1>1. \A c \in alive : JobOf[c] \in Jobs /\ executors[JobOf[c]] = c /\ c # None
  BY JobOfAssumption, NoneAssumption DEF IInv, TypeOK, LiveProcessesAreRegistered
<1>2. f \in [alive -> Entries]
  BY <1>1 DEF Entries
<1>3. IsInjective(f)
  BY <1>1 DEF IsInjective
<1>4. f \in Injection(alive, Entries)
  BY <1>2, <1>3 DEF Injection
<1>5. IsFiniteSet(Entries)
  BY EntriesFinite DEF Entries
<1>6. IsFiniteSet(alive) /\ Cardinality(alive) <= Cardinality(Entries)
  BY <1>4, <1>5, FS_Injection
<1> QED
  BY <1>6, FS_CardinalityType

(* The promise counts its processes with the same Cardinality *)
LEMMA SameCount == ASSUME NEW S PROVE JC!Cardinality(S) = Cardinality(S)
BY DEF JC!Cardinality, Cardinality

(* Every step of the loop is one of the promise, or changes nothing in it *)
LEMMA StepIsPromised ==
  ASSUME IInv, OnePlace, OnePlace', [Next]_vars
  PROVE  [JC!CNext]_(JC!cvars)
<1>0. net \in Seq(Commands) /\ toRun \in Seq(Commands) /\ toRequeue \in Seq(Commands)
  BY DEF IInv, TypeOK
<1>1. ASSUME NEW c \in Commands, Send(c) PROVE JC!Accept(c)
  <2>1. c \in unsent /\ net' = Append(net, c) /\ UNCHANGED <<toRun, toRequeue, alive, ended>>
    BY <1>1 DEF Send, loopVars
  <2>2. Range(net') = Range(net) \cup {c}
    BY <1>0, <2>1, AppendOne
  <2>3. c \notin Queued \cup alive \cup ended
    BY <2>1 DEF OnePlace, StagesApart
  <2> QED
    BY <2>1, <2>2, <2>3 DEF JC!Accept, Queued
<1>2. ASSUME NEW c \in Commands, ProcessEnds(c) PROVE JC!Finish(c)
  BY <1>2 DEF ProcessEnds, loopVars, JC!Finish
<1>3. CASE Receive
  <2>1. Range(net) = {Head(net)} \cup Range(Tail(net)) /\ Head(net) \in Commands
    BY <1>0, <1>3, HeadAndTail DEF Receive
  <2>2. /\ toRun' = Append(toRun, Head(net)) /\ net' = Tail(net)
        /\ UNCHANGED <<toRequeue, alive, ended>>
    BY <1>3 DEF Receive
  <2>3. Range(toRun') = Range(toRun) \cup {Head(net)}
    BY <1>0, <2>1, <2>2, AppendOne
  <2> QED
    BY <2>1, <2>2, <2>3 DEF JC!cvars
<1>4. CASE ReceiveTimeout
  BY <1>4 DEF ReceiveTimeout, JC!cvars
<1>5. CASE PopRequeue
  <2>1. Range(toRun) = {Head(toRun)} \cup Range(Tail(toRun)) /\ Head(toRun) \in Commands
    BY <1>0, <1>5, HeadAndTail DEF PopRequeue, CanPop
  <2>2. /\ toRun' = Tail(toRun) /\ toRequeue' = Append(toRequeue, Head(toRun))
        /\ UNCHANGED <<net, alive, ended>>
    BY <1>5 DEF PopRequeue
  <2>3. Range(toRequeue') = Range(toRequeue) \cup {Head(toRun)}
    BY <1>0, <2>1, <2>2, AppendOne
  <2> QED
    BY <2>1, <2>2, <2>3 DEF JC!cvars
<1>6. CASE PopStart
  <2> DEFINE c == Head(toRun)
  <2>1. /\ Range(toRun) = {c} \cup Range(Tail(toRun)) /\ c \in Commands
        /\ c \notin Range(Tail(toRun))
    BY <1>0, <1>6, HeadAndTail DEF PopStart, CanPop, OnePlace, ListsApart
  <2>2. /\ toRun' = Tail(toRun) /\ alive' = alive \cup {c} /\ UNCHANGED <<net, toRequeue, ended>>
        /\ executors[JobOf[c]] \notin alive /\ Cardinality(Entries) <= MaxProcs
    BY <1>6 DEF PopStart, CanPop, Busy
  <2> HIDE DEF c
  <2>3. \A d \in alive : JobOf[d] # JobOf[c]
    BY <2>2 DEF IInv, LiveProcessesAreRegistered
  <2>4. JC!Cardinality(alive) < MaxProcs + 1
    <3>1. Cardinality(Entries) \in Nat
      BY EntriesFinite DEF Entries
    <3> QED
      BY <2>2, <3>1, LiveFitTheTable, SameCount, MaxProcsAssumption
  <2>5. c \notin Range(net) /\ c \notin Range(toRequeue)
    BY <2>1 DEF OnePlace, ListsApart
  <2>6. JC!Start(c)
    <3> DEFINE before == Range(net) \cup Range(toRun) \cup Range(toRequeue)
               after == Range(net') \cup Range(toRun') \cup Range(toRequeue')
    <3>1. c \in before /\ after = before \ {c}
      BY <2>1, <2>2, <2>5
    <3> QED
      BY <2>2, <2>3, <2>4, <3>1 DEF JC!Start
  <2> QED
    BY <2>1, <2>6 DEF JC!CNext
<1>7. CASE EndPass
  <2>1. toRun' = toRun \o toRequeue /\ toRequeue' = <<>> /\ UNCHANGED <<net, alive, ended>>
    BY <1>7 DEF EndPass
  <2>2. Range(toRun') = Range(toRun) \cup Range(toRequeue)
    BY <1>0, <2>1, Concatenation
  <2> QED
    BY <2>1, <2>2, EmptyList DEF JC!cvars
<1>8. CASE UNCHANGED vars
  BY <1>8 DEF vars, JC!cvars
<1> QED
  BY <1>1, <1>2, <1>3, <1>4, <1>5, <1>6, <1>7, <1>8 DEF Next, Loop, JC!CNext

(* The socket, the two lists and the table of executors keep the promise   *)
(* of JobCommands: each command that was accepted is started at most once, *)
(* alone on its job, and never with more than Max_bipbip_processes + 1 at  *)
(* work (bipbip_commander.py, run).                                        *)
THEOREM CommandsArePromised == Spec => ImplementsJobCommands
<1>1. Spec => []OnePlace
  BY SpecIInv, InitOnePlace, NextKeepsOnePlace, PTL DEF Spec
<1>2. Init => JC!CInit
  BY EmptyList DEF Init, JC!CInit
<1> QED
  BY <1>1, <1>2, SpecIInv, StepIsPromised, PTL DEF Spec, ImplementsJobCommands, JC!CSpec
=============================================================================
