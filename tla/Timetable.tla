----------------------------- MODULE Timetable ------------------------------
(***************************************************************************)
(* What a round of scheduling promises, without slots: a table says what is*)
(* free at each time in each set (the cluster, and each container), and a  *)
(* job takes the first interval where what it asks for is free all along.  *)
(***************************************************************************)
EXTENDS Integers, FiniteSets

CONSTANTS
  Jobs,       \* the waiting jobs of the round
  Resources,
  Requests,   \* what a job may ask for: sequences of alternatives
  MaxTime,
  Security    \* job_security_time, a part of every walltime

VARIABLES
  free,   \* for each set, what is free at each time
  plan    \* the jobs treated

(* What is assumed of the constants *)
Sizes == MaxTime \in Nat /\ Security \in Nat \ {0} /\ IsFiniteSet(Resources)

SoundRequests ==
  \A rqts \in Requests : \A k \in DOMAIN rqts :
    rqts[k] \in [nb : Nat \ {0}, from : SUBSET Resources, walltime : Nat \ {0}]

Times == 0..MaxTime

(* A job that is not planned: no room in s, or "none" for dependencies *)
NotPlanned(s) == [start |-> -1, walltime |-> 0, res |-> {}, set |-> s, deps |-> {}]

Planned == {j \in DOMAIN plan : plan[j].start >= 0}

Finish(j) == plan[j].start + plan[j].walltime

FreeDuring(s, t, rqt) == {r \in rqt.from : \A u \in t..t + rqt.walltime - 1 : r \in free[s][u]}

(* The dates at which a request may be served, after the jobs it waits for *)
Dates(s, rqt, deps) ==
  {t \in Times : /\ \A d \in deps : t >= Finish(d)
                 /\ t + rqt.walltime - 1 <= MaxTime
                 /\ Cardinality(FreeDuring(s, t, rqt)) >= rqt.nb}

Without(table, t, rqt, res) ==
  [u \in Times |-> IF u \in t..t + rqt.walltime - 1 THEN table[u] \ res ELSE table[u]]

(* What a container gives to its inner jobs *)
Inside(t, rqt, res) ==
  [u \in Times |-> IF u \in t..t + rqt.walltime - Security THEN res ELSE {}]

Treated(j, record) ==
  plan' = [i \in DOMAIN plan \cup {j} |-> IF i = j THEN record ELSE plan[i]]

(* The alternative that ends first, at its first date. When a job that it  *)
(* waits for is in another set, the dates are not looked at one by one, and*)
(* the job may be later.                                                   *)
Place(j, s, rqts, deps, container) ==
  LET On(k) == Dates(s, rqts[k], deps)
      exact == \A d \in deps : plan[d].set = s
  IN  \E k \in DOMAIN rqts : \E t \in On(k) :
        /\ exact => \A i \in DOMAIN rqts : \A u \in On(i) :
                      t + rqts[k].walltime <= u + rqts[i].walltime
        /\ \E res \in SUBSET FreeDuring(s, t, rqts[k]) :
             /\ Cardinality(res) = rqts[k].nb
             /\ Treated(j, [start |-> t, walltime |-> rqts[k].walltime, res |-> res,
                            set |-> s, deps |-> deps])
             /\ free' = [n \in DOMAIN free \cup (IF container THEN {j} ELSE {}) |->
                          IF n = j THEN Inside(t, rqts[k], res)
                          ELSE IF n = s THEN Without(free[s], t, rqts[k], res)
                          ELSE free[n]]

NoRoom(j, s, rqts, deps) ==
  /\ (\A d \in deps : plan[d].set = s)
       => \A k \in DOMAIN rqts : Dates(s, rqts[k], deps) = {}
  /\ Treated(j, NotPlanned(s))
  /\ UNCHANGED free

Skip(j) ==
  /\ Treated(j, NotPlanned("none"))
  /\ UNCHANGED free

Init ==
  /\ plan = <<>>
  /\ \A s \in DOMAIN free : free[s] \in [Times -> SUBSET Resources]
  /\ DOMAIN free \cap Jobs = {}

Next ==
  \E j \in Jobs \ DOMAIN plan :
    \/ Skip(j)
    \/ \E s \in DOMAIN free, rqts \in Requests, deps \in SUBSET Planned :
         \/ \E container \in BOOLEAN : Place(j, s, rqts, deps, container)
         \/ NoRoom(j, s, rqts, deps)

Spec == Init /\ [][Next]_<<free, plan>>

-----------------------------------------------------------------------------
(* What the promise amounts to *)

Overlap(i, j) == plan[i].start < Finish(j) /\ plan[j].start < Finish(i)

(* No resource of a set is given to two jobs at the same time (the slots   *)
(* of src/oar/kao/slot.py are there for that).                             *)
NoDoubleBooking ==
  \A i, j \in Planned :
    i # j /\ plan[i].set = plan[j].set /\ Overlap(i, j) => plan[i].res \cap plan[j].res = {}

(* An inner job has its place in its container, in time as in resources    *)
(* (the slot sets of containers in src/oar/kao/scheduling.py).             *)
InnerWithinContainer ==
  \A j \in Planned : plan[j].set \in Jobs =>
    LET c == plan[j].set
    IN  /\ c \in Planned
        /\ plan[j].res \subseteq plan[c].res
        /\ plan[c].start <= plan[j].start /\ Finish(j) <= Finish(c)

(* A job begins when those it waits for are over (the dependencies in      *)
(* src/oar/kao/scheduling.py).                                             *)
DependenciesFirst ==
  \A j \in Planned : \A d \in plan[j].deps : d \in Planned /\ plan[j].start >= Finish(d)

=============================================================================
