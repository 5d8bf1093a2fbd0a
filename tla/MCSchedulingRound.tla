-------------------------- MODULE MCSchedulingRound --------------------------
(* Instances of SchedulingRound for TLC. *)
EXTENDS SchedulingRound

CONSTANTS booked1, booked2, container1, j1, j2, j3

(* A job that is there already *)
Booking(id, start, walltime, res, container, inner) ==
  [id |-> id, start |-> start, walltime |-> walltime, res |-> res,
   container |-> container, inner |-> inner]

Leaving(start, res) == [start |-> start, walltime |-> MaxTime - start, res |-> res]

Nothing == [leaving |-> <<>>, booked |-> <<>>]

(* Loads in order: resources that leave, jobs that run or are planned one  *)
(* after the other, a container to come and an inner job of it.            *)
LoadsInOrder ==
  {Nothing,
   [leaving |-> <<Leaving(5, {1})>>, booked |-> <<>>],
   [leaving |-> <<>>, booked |-> <<Booking(booked1, 1, 3, {1}, FALSE, "default")>>],
   [leaving |-> <<Leaving(5, {1})>>, booked |-> <<Booking(booked1, 3, 2, {2}, FALSE, "default")>>],
   [leaving |-> <<>>, booked |-> <<Booking(container1, 3, 4, {1, 2}, TRUE, "default"),
                                   Booking(booked1, 4, 2, {2}, FALSE, container1)>>]}

ASSUME OrderAssumption == \A load \in LoadsInOrder : IsInOrder(load)

(* A job that begins during another one: the code treats this load well,   *)
(* and not every one of the kind.                                          *)
OverlappingLoad ==
  [leaving |-> <<>>, booked |-> <<Booking(booked1, 1, 4, {1}, FALSE, "default"),
                                  Booking(booked2, 3, 3, {2}, FALSE, "default")>>]

SoundLoads == LoadsInOrder \cup {OverlappingLoad}

Request(n, from, walltime) == [nb |-> n, from |-> from, walltime |-> walltime]

SomeRequests ==
  {<<Request(1, {1, 2}, 2)>>, <<Request(1, {1}, 3)>>, <<Request(2, {1, 2}, 2)>>,
   <<Request(1, {2}, 4)>>, <<Request(2, {1, 2}, 2), Request(1, {2}, 3)>>}

JobsAreAlike == Permutations(Jobs)

=============================================================================
