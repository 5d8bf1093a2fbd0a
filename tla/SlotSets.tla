------------------------------ MODULE SlotSets ------------------------------
(***************************************************************************)
(* The slots of the schedulers (src/oar/kao/slot.py): the resources that   *)
(* are free, by intervals of time. A slot set is a list linked by ids; the *)
(* ids are handed out in sequence, so that the dictionary of the code is a *)
(* sequence here and last_id its length; the first slot keeps the id 1.    *)
(* The field prev is left out: nothing reads it.                           *)
(*                                                                         *)
(* A job is here a record with start, walltime and res; a request has a    *)
(* walltime, a number of resources and the set it takes them from: the     *)
(* hierarchies decide which sets of resources will do, time does not       *)
(* matter to them.                                                         *)
(***************************************************************************)
EXTENDS Integers, SequencesExt

CONSTANTS
  Resources,
  MaxTime     \* MAX_TIME

ASSUME MaxTimeAssumption == MaxTime \in Nat

Slot == [next : Nat, b : Nat, e : Nat, itvs : SUBSET Resources]

(* SlotSet((itvs, b)) and SlotSet(Slot(1, 0, 0, itvs, b, e)) *)
OneSlot(itvs, b, e) == <<[next |-> 0, b |-> b, e |-> e, itvs |-> itvs]>>

End(job) == job.start + job.walltime

-----------------------------------------------------------------------------
(* To split slots *)

(* The slot takes a new id, a copy of it keeps the old one *)
SlotBeforeJob(slots, sid, job) ==
  Append([slots EXCEPT ![sid].next = Len(slots) + 1, ![sid].e = job.start - 1], slots[sid])

SlotAfterJob(slots, sid, job) ==
  Append([slots EXCEPT ![sid].next = Len(slots) + 1], [slots[sid] EXCEPT !.b = End(job)])

(* sub_slot_during_job, or add_slot_during_job *)
SlotDuringJob(slots, sid, job, sub) ==
  [slots EXCEPT ![sid].b = Max({@, job.start}),
                ![sid].e = Min({@, End(job) - 1}),
                ![sid].itvs = IF sub THEN @ \ job.res ELSE @ \cup job.res]

(* One turn of the loop of split_slots: A, B and C. The slot object is B:  *)
(* a reference to it follows it to its new id.                             *)
SplitSlot(st, sid, job, sub) ==
  LET before == job.start > st.slots[sid].b
      after  == End(job) <= st.slots[sid].e
      bid    == IF before THEN Len(st.slots) + 1 ELSE sid
      cut    == IF before THEN SlotBeforeJob(st.slots, sid, job) ELSE st.slots
  IN  [st EXCEPT !.slots = SlotDuringJob(IF after THEN SlotAfterJob(cut, bid, job) ELSE cut,
                                         bid, job, sub),
                 !.at = IF @ = sid THEN bid ELSE @]

(* The ids from one to the other, or to the end of the list *)
Path(slots, left, right) ==
  LET path[i \in DOMAIN slots] ==
        IF i = right \/ slots[i].next = 0 THEN <<i>> ELSE <<i>> \o path[slots[i].next]
  IN  path[left]

(* The first of these ids from an id on, 0 if there is none *)
Follow(slots, from, ids) ==
  LET follow[i \in 0..Len(slots)] ==
        IF i = 0 \/ i \in ids THEN i ELSE follow[slots[i].next]
  IN  follow[from]

(* split_slots; slots and the slot that the caller holds *)
SplitSlots(st, left, right, job, sub) ==
  LET path == Path(st.slots, left, right)
      turn[n \in 0..Len(path)] ==
        IF n = 0 THEN st ELSE SplitSlot(turn[n - 1], path[n], job, sub)
  IN  turn[Len(path)]

(* Mutant of Split: it goes on to the end of the list *)
SplitToTheEnd(slots, left, right, job) ==
  SplitSlots([slots |-> slots, at |-> left], left, 0, job, TRUE).slots

Split(slots, left, right, job) ==
  SplitSlots([slots |-> slots, at |-> left], left, right, job, TRUE).slots

(* One job of split_slots_jobs: neither the slot (at) nor left go back to  *)
(* the beginning, and left is not renewed when the slot has a new id. The  *)
(* end of the list is not expected: slots[0] ends the program.             *)
SplitForJob(st, job, sub) ==
  LET ids   == DOMAIN st.slots
      at    == Follow(st.slots, st.at,
                      {i \in ids : st.slots[i].b > job.start \/ job.start <= st.slots[i].e})
      left  == IF at = st.at THEN st.left ELSE at
      last  == Follow(st.slots, at, {i \in ids : st.slots[i].e >= End(job)})
      right == IF last = at THEN left ELSE last
  IN  IF st.broken \/ last = 0 \/ Follow(st.slots, left, {right}) = 0
      THEN [st EXCEPT !.broken = TRUE]
      ELSE SplitSlots([st EXCEPT !.at = last, !.left = left], left, right, job, sub)

SplitSlotsJobs(slots, jobs, sub) ==
  LET list == IF sub THEN jobs ELSE Reverse(jobs)
      state[n \in 0..Len(jobs)] ==
        IF n = 0 THEN [slots |-> slots, at |-> 1, left |-> 1, broken |-> FALSE]
        ELSE SplitForJob(state[n - 1], list[n], sub)
  IN  state[Len(jobs)]

-----------------------------------------------------------------------------
(* To find slots *)

(* Mutant of Available: the slots in the middle are not looked at *)
AvailableEnds(slots, left, right) == slots[left].itvs \cap slots[right].itvs

(* intersec_itvs_slots *)
Available(slots, left, right) ==
  {r \in Resources : \A i \in Range(Path(slots, left, right)) : r \in slots[i].itvs}

(* The sets of resources that are a solution *)
Solutions(itvs, rqt) == {s \in SUBSET (itvs \cap rqt.from) : Cardinality(s) = rqt.nb}

(* The loop of find_first_suitable_contiguous_slots from a slot on: left   *)
(* and right, or <<0, 0>>. Right never goes back.                          *)
FindFrom(slots, sid, rqt) ==
  LET Long(l) == {i \in DOMAIN slots : slots[i].e - slots[l].b + 1 >= rqt.walltime}
      find[at \in (0..Len(slots)) \X (0..Len(slots))] ==
        IF at[1] = 0 THEN <<0, 0>>
        ELSE LET right == Follow(slots, at[2], Long(at[1]))
             IN  IF right = 0 THEN <<0, 0>>
                 ELSE IF Solutions(Available(slots, at[1], right), rqt) # {} THEN <<at[1], right>>
                 ELSE find[<<slots[at[1]].next, right>>]
  IN  find[<<sid, sid>>]

-----------------------------------------------------------------------------
(* What the list stands for: what is free at each time *)
FreeAt(slots, t) ==
  UNION {slots[i].itvs : i \in {k \in DOMAIN slots : slots[k].b <= t /\ t <= slots[k].e}}

(* The list goes through all slots, each of them once, and time goes on    *)
(* along it without gap nor overlap; a slot may be empty.                  *)
InOrder(slots, order, b, e) ==
  /\ order \in [DOMAIN slots -> DOMAIN slots]
  /\ order[1] = 1 /\ slots[1].b = b
  /\ \A m, n \in DOMAIN slots : order[m] = order[n] => m = n
  /\ \A i \in DOMAIN slots : \E n \in DOMAIN slots : order[n] = i
  /\ \A n \in DOMAIN slots :
       /\ slots[order[n]].b <= slots[order[n]].e + 1
       /\ IF n = Len(slots)
          THEN slots[order[n]].next = 0 /\ slots[order[n]].e = e
          ELSE /\ slots[order[n]].next = order[n + 1]
               /\ slots[order[n + 1]].b = slots[order[n]].e + 1

(* An empty slot between two others takes nothing from a job that uses both *)
NoObstacle(slots) ==
  \A i \in DOMAIN slots : slots[i].b = slots[i].e + 1 =>
    FreeAt(slots, slots[i].b - 1) \cap FreeAt(slots, slots[i].b) \subseteq slots[i].itvs

IsPartition(slots, b, e) == InOrder(slots, Path(slots, 1, 0), b, e)

=============================================================================
