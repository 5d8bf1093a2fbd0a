------------------------ MODULE SchedulingRoundProofs ------------------------
(***************************************************************************)
(* A round of scheduling does what its table promises, for every number of *)
(* jobs, resources and dates. From the bottom up:                          *)
(*   - a list of slots is a sequence of ids in the order of time (Linked), *)
(*     and Path, Follow, Available and FindFrom say what they do on it;    *)
(*   - Split keeps the list sound, and takes what the job has and no more; *)
(*   - FindFrom ends on the first date where a request fits, if it begins  *)
(*     early enough (StartsEarly), as it does from the cache and from the  *)
(*     end of the jobs that are waited for;                                *)
(*   - the table keeps its promise (PromiseKept);                          *)
(*   - the invariant of a round (RoundInv) holds, and each step is one of  *)
(*     the table;                                                          *)
(*   - a load in order is sound, as the round wants it to be: split_slots_ *)
(*     jobs puts each job where its walk has come to (Loading).            *)
(* What the recursive functions of the lists do is proved by induction on  *)
(* the position in the list, with SetInduction and Backwards.              *)
(***************************************************************************)
EXTENDS SchedulingRound, FiniteSetTheorems, SequenceTheorems, NaturalsInduction,
        WellFoundedInduction, TLAPS

(* A list of slots, with the ids in the order of time *)
Linked(slots, order, b, e) ==
  slots \in Seq(Slot) /\ slots # <<>> /\ InOrder(slots, order, b, e)

-----------------------------------------------------------------------------
(* Induction over the natural numbers, for a set *)
LEMMA SetInduction ==
  ASSUME NEW S, 0 \in S, \A n \in Nat : n \in S => n + 1 \in S
  PROVE  Nat \subseteq S
<1> SUFFICES ASSUME Nat \ S # {}
             PROVE  FALSE
  OBVIOUS
<1>1. PICK n \in Nat \ S : \A m \in Nat \ S : ~ (<<m, n>> \in OpToRel(<, Nat))
  BY NatLessThanWellFounded, WFMin, Zenon
<1>a. n \in Nat /\ n \notin S /\ n # 0
  BY <1>1
<1>b. n - 1 \in Nat /\ (n - 1) + 1 = n
  BY <1>a
<1>2. n - 1 \in Nat /\ n - 1 \notin S
  BY <1>a, <1>b
<1>3. <<n - 1, n>> \in OpToRel(<, Nat)
  BY <1>1, <1>2 DEF OpToRel
<1> QED
  BY <1>1, <1>2, <1>3

(* The same from the last of the numbers from 1 down to the first *)
LEMMA Backwards ==
  ASSUME NEW last \in Nat, NEW S,
         \A n \in 1..last : (n = last \/ n + 1 \in S) => n \in S
  PROVE  1..last \subseteq S
<1> DEFINE T == {d \in Nat : last - d \in 1..last => last - d \in S}
<1>1. 0 \in T
  BY last - 0 = last
<1>2. ASSUME NEW d \in Nat, d \in T
      PROVE  d + 1 \in T
  <2> SUFFICES ASSUME last - (d + 1) \in 1..last
               PROVE  last - (d + 1) \in S
    OBVIOUS
  <2>1. (last - (d + 1)) + 1 = last - d /\ last - d \in 1..last
    OBVIOUS
  <2> QED
    BY <1>2, <2>1
<1>3. Nat \subseteq T
  <2> HIDE DEF T
  <2> QED
    BY <1>1, <1>2, SetInduction
<1>4. \A n \in 1..last : last - n \in Nat /\ last - (last - n) = n
  OBVIOUS
<1> QED
  BY <1>3, <1>4

(* The first of the positions of a set from one on *)
LEMMA FirstFrom ==
  ASSUME NEW P \in SUBSET Nat, P # {}
  PROVE  \E n \in P : \A k \in P : n <= k
<1>1. PICK n \in P : \A m \in P : ~ (<<m, n>> \in OpToRel(<, Nat))
  BY NatLessThanWellFounded, WFMin, Zenon
<1>2. ASSUME NEW k \in P, k < n
      PROVE  FALSE
  BY <1>1, <1>2 DEF OpToRel
<1>3. n \in Nat /\ \A k \in P : k \in Nat
  OBVIOUS
<1> QED
  BY <1>2, <1>3

(* What a list of slots is made of *)
LEMMA SlotTypes ==
  ASSUME NEW slots \in Seq(Slot)
  PROVE  /\ Len(slots) \in Nat /\ DOMAIN slots = 1..Len(slots)
         /\ \A i \in DOMAIN slots :
              /\ slots[i] \in Slot
              /\ slots[i].b \in Nat /\ slots[i].e \in Nat /\ slots[i].next \in Nat
              /\ slots[i].itvs \subseteq Resources
<1>1. \A i \in DOMAIN slots : slots[i] \in Slot
  OBVIOUS
<1> QED
  BY <1>1 DEF Slot

(* The same by position *)
LEMMA OrderTypes ==
  ASSUME NEW slots, NEW order, NEW b, NEW e, Linked(slots, order, b, e)
  PROVE  /\ slots \in Seq(Slot) /\ Len(slots) \in Nat \ {0} /\ DOMAIN slots = 1..Len(slots)
         /\ b \in Nat /\ e \in Nat
         /\ \A n \in DOMAIN slots :
              /\ order[n] \in DOMAIN slots
              /\ slots[order[n]].b \in Nat /\ slots[order[n]].e \in Nat
              /\ slots[order[n]].itvs \subseteq Resources
<1>1. slots \in Seq(Slot) /\ slots # <<>>
  BY DEF Linked, InOrder
<1>2. Len(slots) \in Nat \ {0} /\ DOMAIN slots = 1..Len(slots)
  BY <1>1
<1>3. \A n \in DOMAIN slots : order[n] \in DOMAIN slots
  BY DEF Linked, InOrder
<1>4. 1 \in DOMAIN slots /\ Len(slots) \in DOMAIN slots
  BY <1>2
<1>5. b = slots[1].b
  BY DEF Linked, InOrder
<1>6. e = slots[order[Len(slots)]].e
  BY <1>4 DEF Linked, InOrder
<1>7. \A i \in DOMAIN slots : /\ slots[i].b \in Nat /\ slots[i].e \in Nat
                             /\ slots[i].itvs \subseteq Resources
  BY <1>1, SlotTypes
<1> QED
  BY <1>1, <1>2, <1>3, <1>4, <1>5, <1>6, <1>7

(* What a step along the list does *)
LEMMA NextInOrder ==
  ASSUME NEW slots, NEW order, NEW b, NEW e, Linked(slots, order, b, e),
         NEW n \in DOMAIN slots
  PROVE  /\ slots[order[n]].b <= slots[order[n]].e + 1
         /\ n = Len(slots) => slots[order[n]].next = 0 /\ slots[order[n]].e = e
         /\ n # Len(slots) => /\ n + 1 \in DOMAIN slots
                             /\ slots[order[n]].next = order[n + 1]
                             /\ slots[order[n + 1]].b = slots[order[n]].e + 1
<1>1. Len(slots) \in Nat /\ DOMAIN slots = 1..Len(slots)
  BY OrderTypes
<1>2. n # Len(slots) => n + 1 \in DOMAIN slots
  BY <1>1
<1> QED
  BY <1>2 DEF Linked, InOrder

(* Time goes on along the list *)
LEMMA TimeGoesOn ==
  ASSUME NEW slots, NEW order, NEW b, NEW e, Linked(slots, order, b, e),
         NEW m \in DOMAIN slots, NEW n \in DOMAIN slots, m <= n
  PROVE  /\ slots[order[m]].b <= slots[order[n]].b
         /\ slots[order[m]].e <= slots[order[n]].e
         /\ m < n => slots[order[m]].e < slots[order[n]].b
<1> DEFINE P == {d \in Nat : m + d \in DOMAIN slots =>
                   /\ slots[order[m]].b <= slots[order[m + d]].b
                   /\ slots[order[m]].e <= slots[order[m + d]].e
                   /\ d > 0 => slots[order[m]].e < slots[order[m + d]].b}
<1>1. \A k \in DOMAIN slots : slots[order[k]].b \in Nat /\ slots[order[k]].e \in Nat
  BY OrderTypes
<1>2. DOMAIN slots = 1..Len(slots) /\ Len(slots) \in Nat
  BY OrderTypes
<1>3. 0 \in P
  BY <1>1, <1>2
<1>4. ASSUME NEW d \in Nat, d \in P
      PROVE  d + 1 \in P
  <2> SUFFICES ASSUME m + (d + 1) \in DOMAIN slots
               PROVE  /\ slots[order[m]].b <= slots[order[m + (d + 1)]].b
                      /\ slots[order[m]].e <= slots[order[m + (d + 1)]].e
                      /\ slots[order[m]].e < slots[order[m + (d + 1)]].b
    OBVIOUS
  <2>1. m + d \in DOMAIN slots /\ m + d # Len(slots) /\ (m + d) + 1 = m + (d + 1)
    BY <1>2
  <2>2. /\ slots[order[m + (d + 1)]].b = slots[order[m + d]].e + 1
        /\ slots[order[m + d]].b <= slots[order[m + d]].e + 1
        /\ slots[order[m + (d + 1)]].b <= slots[order[m + (d + 1)]].e + 1
    BY <2>1, NextInOrder
  <2>3. /\ slots[order[m]].b <= slots[order[m + d]].b
        /\ slots[order[m]].e <= slots[order[m + d]].e
    BY <1>4, <2>1
  <2> HIDE DEF P
  <2> QED
    BY <1>1, <2>1, <2>2, <2>3, SMTT(30)
<1>5. Nat \subseteq P
  <2> HIDE DEF P
  <2> QED
    BY <1>3, <1>4, SetInduction
<1>6. m + (n - m) = n /\ n - m \in Nat /\ (m < n => n - m > 0)
  BY <1>2
<1>7. n - m \in P
  BY <1>5, <1>6
<1> QED
  BY <1>6, <1>7
(* The place of an id in the list *)
Pos(slots, order, i) == CHOOSE n \in DOMAIN slots : order[n] = i

(* An id has one place, and the place has this id *)
LEMMA PosOfId ==
  ASSUME NEW slots, NEW order, NEW b, NEW e, Linked(slots, order, b, e)
  PROVE  /\ \A n \in DOMAIN slots : Pos(slots, order, order[n]) = n
         /\ \A i \in DOMAIN slots : /\ Pos(slots, order, i) \in DOMAIN slots
                                    /\ order[Pos(slots, order, i)] = i
<1>1. \A i \in DOMAIN slots : \E n \in DOMAIN slots : order[n] = i
  BY DEF Linked, InOrder
<1>2. \A m, n \in DOMAIN slots : order[m] = order[n] => m = n
  BY DEF Linked, InOrder
<1>3. \A n \in DOMAIN slots : order[n] \in DOMAIN slots
  BY OrderTypes
<1>4. \A i \in DOMAIN slots : /\ Pos(slots, order, i) \in DOMAIN slots
                              /\ order[Pos(slots, order, i)] = i
  BY <1>1, Zenon DEF Pos
<1> QED
  BY <1>2, <1>3, <1>4

(* The first position of a set from n on *)
Ahead(slots, order, ids, n) == {k \in DOMAIN slots : n <= k /\ order[k] \in ids}
Least(S) == CHOOSE n \in S : \A k \in S : n <= k

(* The first position ahead is found step by step, as Follow does it *)
LEMMA LeastAhead ==
  ASSUME NEW slots, NEW order, NEW b, NEW e, Linked(slots, order, b, e),
         NEW ids, NEW n \in DOMAIN slots
  PROVE  LET S == Ahead(slots, order, ids, n)
         IN  /\ S # {} => Least(S) \in S /\ \A k \in S : Least(S) <= k
             /\ order[n] \in ids => Least(S) = n /\ S # {}
             /\ n = Len(slots) /\ order[n] \notin ids => S = {}
             /\ n # Len(slots) /\ order[n] \notin ids => S = Ahead(slots, order, ids, n + 1)
<1> DEFINE S == Ahead(slots, order, ids, n)
<1>1. Len(slots) \in Nat /\ DOMAIN slots = 1..Len(slots)
  BY OrderTypes
<1>2. S \in SUBSET Nat
  BY <1>1 DEF Ahead
<1>3. S # {} => \E x \in S : \A k \in S : x <= k
  BY <1>2, FirstFrom
<1>4. S # {} => Least(S) \in S /\ \A k \in S : Least(S) <= k
  BY <1>3, Zenon DEF Least
<1>5. ASSUME order[n] \in ids
      PROVE  Least(S) = n /\ S # {}
  <2>1. n \in S /\ \A k \in S : n <= k
    BY <1>1, <1>5 DEF Ahead
  <2>2. Least(S) \in S /\ Least(S) <= n /\ n <= Least(S)
    BY <1>4, <2>1
  <2> QED
    BY <1>2, <2>1, <2>2
<1>6. ASSUME n = Len(slots), order[n] \notin ids
      PROVE  S = {}
  BY <1>1, <1>6 DEF Ahead
<1>7. ASSUME order[n] \notin ids
      PROVE  S = Ahead(slots, order, ids, n + 1)
  <2>1. \A k \in DOMAIN slots : n <= k <=> (k = n \/ n + 1 <= k)
    BY <1>1
  <2> QED
    BY <1>7, <2>1 DEF Ahead
<1> QED
  BY <1>4, <1>5, <1>6, <1>7

(* Follow finds the first slot of a set *)
LEMMA FollowFinds ==
  ASSUME NEW slots, NEW order, NEW b, NEW e, Linked(slots, order, b, e),
         NEW ids, NEW m \in DOMAIN slots
  PROVE  /\ Follow(slots, 0, ids) = 0
         /\ \/ /\ Follow(slots, order[m], ids) = 0
               /\ \A n \in DOMAIN slots : m <= n => order[n] \notin ids
            \/ \E n \in DOMAIN slots :
                 /\ m <= n /\ Follow(slots, order[m], ids) = order[n] /\ order[n] \in ids
                 /\ \A k \in DOMAIN slots : m <= k /\ k < n => order[k] \notin ids
<1> DEFINE A(n) == Ahead(slots, order, ids, n)
           P(i) == Pos(slots, order, i)
           G == [i \in 0..Len(slots) |->
                   IF i = 0 \/ A(P(i)) = {} THEN 0 ELSE order[Least(A(P(i)))]]
           F == CHOOSE f : f = [i \in 0..Len(slots) |->
                                  IF i = 0 \/ i \in ids THEN i ELSE f[slots[i].next]]
<1>1. Len(slots) \in Nat /\ DOMAIN slots = 1..Len(slots)
  BY OrderTypes
<1>2. \A i \in 0..Len(slots) : i # 0 => i \in DOMAIN slots
  BY <1>1
<1>3. ASSUME NEW i \in 0..Len(slots)
      PROVE  G[i] = IF i = 0 \/ i \in ids THEN i ELSE G[slots[i].next]
  <2>1. CASE i = 0
    BY <2>1
  <2>2. CASE i \in DOMAIN slots
    <3> DEFINE n == P(i)
    <3>1. n \in DOMAIN slots /\ order[n] = i
      BY <2>2, PosOfId
    <3>2. /\ i \in ids => Least(A(n)) = n /\ A(n) # {}
          /\ n = Len(slots) /\ i \notin ids => A(n) = {}
          /\ n # Len(slots) /\ i \notin ids => A(n) = A(n + 1)
      BY <3>1, LeastAhead
    <3>3. G[i] = IF A(n) = {} THEN 0 ELSE order[Least(A(n))]
      BY <1>1, <2>2
    <3>4. CASE i \in ids
      BY <3>1, <3>2, <3>3, <3>4
    <3>5. CASE i \notin ids /\ n = Len(slots)
      <4>1. slots[i].next = 0 /\ i # 0 /\ G[0] = 0
        BY <1>1, <2>2, <3>1, <3>5, NextInOrder
      <4> QED
        BY <3>2, <3>3, <3>5, <4>1
    <3>6. CASE i \notin ids /\ n # Len(slots)
      <4>1. n + 1 \in DOMAIN slots /\ slots[i].next = order[n + 1]
        BY <3>1, <3>6, NextInOrder
      <4>2. P(order[n + 1]) = n + 1 /\ order[n + 1] \in DOMAIN slots
        BY <4>1, PosOfId, OrderTypes
      <4>3. G[order[n + 1]] = IF A(n + 1) = {} THEN 0 ELSE order[Least(A(n + 1))]
        BY <1>1, <4>2
      <4> QED
        BY <1>1, <2>2, <3>2, <3>3, <3>6, <4>1, <4>3
    <3> QED
      BY <3>4, <3>5, <3>6
  <2> QED
    BY <1>2, <2>1, <2>2
<1>4. G = [i \in 0..Len(slots) |-> IF i = 0 \/ i \in ids THEN i ELSE G[slots[i].next]]
  <2>1. DOMAIN G = 0..Len(slots) /\ G = [i \in 0..Len(slots) |-> G[i]]
    OBVIOUS
  <2> HIDE DEF G
  <2> QED
    BY <1>3, <2>1
<1>5. F = [i \in 0..Len(slots) |-> IF i = 0 \/ i \in ids THEN i ELSE F[slots[i].next]]
  <2> HIDE DEF G
  <2> QED
    BY <1>4
<1>6. \A i : Follow(slots, i, ids) = F[i]
  BY DEF Follow
<1> HIDE DEF F, G
<1>7. F[0] = 0
  BY <1>1, <1>5
<1> DEFINE Finds(n) ==
      \/ /\ F[order[n]] = 0
         /\ \A k \in DOMAIN slots : n <= k => order[k] \notin ids
      \/ \E p \in DOMAIN slots :
           /\ n <= p /\ F[order[n]] = order[p] /\ order[p] \in ids
           /\ \A k \in DOMAIN slots : n <= k /\ k < p => order[k] \notin ids
<1>8. ASSUME NEW n \in DOMAIN slots, n # Len(slots) => Finds(n + 1)
      PROVE  Finds(n)
  <2>1. order[n] \in 0..Len(slots) /\ order[n] # 0
    BY <1>1, OrderTypes
  <2>2. F[order[n]] = IF order[n] \in ids THEN order[n] ELSE F[slots[order[n]].next]
    BY <1>5, <2>1
  <2>3. CASE order[n] \in ids
    BY <1>1, <2>2, <2>3
  <2>4. CASE order[n] \notin ids /\ n = Len(slots)
    BY <1>1, <1>7, <2>2, <2>4, NextInOrder
  <2>5. CASE order[n] \notin ids /\ n # Len(slots)
    <3>1. n + 1 \in DOMAIN slots /\ F[order[n]] = F[order[n + 1]]
      BY <2>2, <2>5, NextInOrder
    <3>2. \A k \in DOMAIN slots : n <= k <=> (k = n \/ n + 1 <= k)
      BY <1>1
    <3>3. Finds(n + 1)
      BY <1>8, <2>5
    <3> QED
      BY <2>5, <3>1, <3>2, <3>3
  <2> QED
    BY <2>3, <2>4, <2>5
<1> DEFINE S == {n \in DOMAIN slots : Finds(n)}
<1>9. ASSUME NEW n \in 1..Len(slots), n = Len(slots) \/ n + 1 \in S
       PROVE  n \in S
  <2> HIDE DEF Finds
  <2> QED
    BY <1>1, <1>8, <1>9
<1>10. DOMAIN slots \subseteq S
  <2> HIDE DEF S
  <2> QED
    BY <1>1, <1>9, Backwards
<1>11. Finds(m)
  BY <1>10
<1> QED
  BY <1>6, <1>7, <1>11 DEF Finds

(* The ids from position m to position n *)
Ids(order, m, n) == [k \in 1..(n - m + 1) |-> order[m + k - 1]]

(* The ids from a position on are its id and those from the next one on *)
LEMMA IdsStep ==
  ASSUME NEW slots, NEW order, NEW b, NEW e, Linked(slots, order, b, e),
         NEW m \in DOMAIN slots, NEW n \in DOMAIN slots, m <= n
  PROVE  /\ Ids(order, m, n) \in Seq(DOMAIN slots) /\ Len(Ids(order, m, n)) = n - m + 1
         /\ m = n => Ids(order, m, n) = <<order[m]>>
         /\ m < n => Ids(order, m, n) = <<order[m]>> \o Ids(order, m + 1, n)
<1>1. /\ Len(slots) \in Nat /\ DOMAIN slots = 1..Len(slots)
      /\ \A k \in DOMAIN slots : order[k] \in DOMAIN slots
  BY OrderTypes
<1>2. ASSUME NEW p \in DOMAIN slots, p <= n
      PROVE  /\ Ids(order, p, n) \in Seq(DOMAIN slots)
             /\ Len(Ids(order, p, n)) = n - p + 1
             /\ \A k \in 1..(n - p + 1) : Ids(order, p, n)[k] = order[p + k - 1]
  <2>1. \A k \in 1..(n - p + 1) : p + k - 1 \in DOMAIN slots
    BY <1>1, <1>2
  <2> QED
    BY <1>1, <1>2, <2>1 DEF Ids
<1>3. <<order[m]>> \in Seq(DOMAIN slots) /\ Len(<<order[m]>>) = 1 /\ <<order[m]>>[1] = order[m]
  BY <1>1
<1>4. ASSUME m = n
      PROVE  Ids(order, m, n) = <<order[m]>>
  <2>1. n - m + 1 = 1 /\ m + 1 - 1 = m
    BY <1>1, <1>4
  <2>2. Ids(order, m, n) = [k \in 1..1 |-> order[m + k - 1]]
    BY <2>1 DEF Ids
  <2>3. \A k \in 1..1 : m + k - 1 = m
    BY <1>1
  <2>4. [k \in 1..1 |-> order[m + k - 1]] = [k \in 1..1 |-> order[m]]
    BY <2>3
  <2>5. [k \in 1..1 |-> order[m]] = <<order[m]>>
    OBVIOUS
  <2> QED
    BY <2>2, <2>4, <2>5
<1>5. ASSUME m < n
      PROVE  Ids(order, m, n) = <<order[m]>> \o Ids(order, m + 1, n)
  <2> DEFINE t == <<order[m]>> \o Ids(order, m + 1, n)
  <2>1. m + 1 \in DOMAIN slots /\ m + 1 <= n /\ n - (m + 1) + 1 = n - m
    BY <1>1, <1>5
  <2>2. /\ t \in Seq(DOMAIN slots) /\ Len(t) = 1 + (n - m)
        /\ \A k \in 1..(1 + (n - m)) :
             t[k] = IF k <= 1 THEN order[m] ELSE Ids(order, m + 1, n)[k - 1]
    BY <1>2, <1>3, <2>1, ConcatProperties
  <2>3. ASSUME NEW k \in 1..(n - m + 1)
        PROVE  Ids(order, m, n)[k] = t[k]
    <3>1. CASE k = 1
      BY <1>1, <1>2, <2>2, <3>1, m + 1 - 1 = m, 1 \in 1..(1 + (n - m))
    <3>2. CASE k # 1
      <4>1. k - 1 \in 1..(n - m) /\ (m + 1) + (k - 1) - 1 = m + k - 1 /\ ~ (k <= 1)
        BY <1>1, <3>2
      <4>2. Ids(order, m + 1, n)[k - 1] = order[m + k - 1]
        BY <1>2, <2>1, <4>1
      <4> QED
        BY <1>1, <1>2, <2>2, <4>1, <4>2
    <3> QED
      BY <3>1, <3>2
  <2>4. n - m + 1 = 1 + (n - m)
    BY <1>1
  <2> HIDE DEF t
  <2>5. Ids(order, m, n) = t
    BY <1>2, <2>2, <2>3, <2>4, SeqEqual
  <2> QED
    BY <2>5 DEF t
<1> QED
  BY <1>2, <1>4, <1>5

(* Path goes through the list from one id to another, or to the end *)
LEMMA PathInOrder ==
  ASSUME NEW slots, NEW order, NEW b, NEW e, Linked(slots, order, b, e),
         NEW m \in DOMAIN slots, NEW n \in DOMAIN slots, m <= n, NEW right,
         right = order[n] \/ (right = 0 /\ n = Len(slots))
  PROVE  Path(slots, order[m], right) = Ids(order, m, n)
<1> DEFINE P(i) == Pos(slots, order, i)
           Stop(p) == IF p <= n THEN n ELSE Len(slots)
           G == [i \in DOMAIN slots |-> Ids(order, P(i), Stop(P(i)))]
           F == CHOOSE f : f = [i \in DOMAIN slots |->
                                  IF i = right \/ slots[i].next = 0 THEN <<i>>
                                  ELSE <<i>> \o f[slots[i].next]]
<1>1. /\ Len(slots) \in Nat /\ DOMAIN slots = 1..Len(slots)
      /\ \A k \in DOMAIN slots : order[k] \in DOMAIN slots
  BY OrderTypes
<1>2. ASSUME NEW p \in DOMAIN slots
      PROVE  /\ P(order[p]) = p
             /\ Stop(p) \in DOMAIN slots /\ p <= Stop(p)
             /\ p = Stop(p) <=> (order[p] = right \/ slots[order[p]].next = 0)
             /\ p # Stop(p) => /\ p + 1 \in DOMAIN slots /\ slots[order[p]].next = order[p + 1]
                               /\ Stop(p + 1) = Stop(p)
  <2>1. P(order[p]) = p
    BY PosOfId
  <2>2. Stop(p) \in DOMAIN slots /\ p <= Stop(p)
    BY <1>1
  <2>3. order[p] = right <=> (p = n /\ right = order[n])
    <3>1. \A k, l \in DOMAIN slots : order[k] = order[l] => k = l
      BY DEF Linked, InOrder
    <3>2. order[p] # 0
      BY <1>1
    <3> QED
      BY <3>1, <3>2
  <2>4. p # Len(slots) => p + 1 \in DOMAIN slots /\ slots[order[p]].next = order[p + 1]
    BY NextInOrder
  <2>5. slots[order[p]].next = 0 <=> p = Len(slots)
    <3>1. p = Len(slots) => slots[order[p]].next = 0
      BY NextInOrder
    <3>2. p # Len(slots) => order[p + 1] # 0
      BY <1>1, <2>4
    <3> QED
      BY <2>4, <3>1, <3>2
  <2>6. p = Stop(p) <=> (order[p] = right \/ slots[order[p]].next = 0)
    BY <1>1, <2>3, <2>5
  <2>7. p # Stop(p) => p # Len(slots) /\ Stop(p + 1) = Stop(p)
    BY <1>1
  <2> QED
    <3> HIDE DEF Stop
    <3> QED
      BY <2>1, <2>2, <2>4, <2>6, <2>7
<1>3. ASSUME NEW p \in DOMAIN slots
      PROVE  Ids(order, p, Stop(p)) =
               IF order[p] = right \/ slots[order[p]].next = 0 THEN <<order[p]>>
               ELSE <<order[p]>> \o Ids(order, p + 1, Stop(p + 1))
  <2>1. p < Stop(p) \/ p = Stop(p)
    BY <1>1, <1>2
  <2> HIDE DEF Stop
  <2> QED
    BY <1>2, <2>1, IdsStep
<1>4. ASSUME NEW i \in DOMAIN slots
      PROVE  G[i] = IF i = right \/ slots[i].next = 0 THEN <<i>> ELSE <<i>> \o G[slots[i].next]
  <2> DEFINE p == P(i)
  <2>1. p \in DOMAIN slots /\ order[p] = i
    BY PosOfId
  <2>2. G[i] = Ids(order, p, Stop(p))
    OBVIOUS
  <2>a. i = right \/ slots[i].next = 0 <=> p = Stop(p)
    BY <1>2, <2>1
  <2>b. Ids(order, p, Stop(p)) = IF i = right \/ slots[i].next = 0 THEN <<i>>
                                 ELSE <<i>> \o Ids(order, p + 1, Stop(p + 1))
    BY <1>3, <2>1
  <2> HIDE DEF Stop
  <2>3. CASE p = Stop(p)
    <3>1. i = right \/ slots[i].next = 0
      BY <2>a, <2>3
    <3> HIDE DEF G, p
    <3> QED
      BY <2>2, <2>b, <3>1
  <2>4. CASE p # Stop(p)
    <3>1. /\ p + 1 \in DOMAIN slots /\ slots[i].next = order[p + 1]
          /\ ~ (i = right \/ slots[i].next = 0)
      BY <1>2, <2>1, <2>4
    <3>2. P(order[p + 1]) = p + 1 /\ order[p + 1] \in DOMAIN slots
      BY <1>1, <1>2, <3>1
    <3>3. G[order[p + 1]] = Ids(order, p + 1, Stop(p + 1))
      BY <3>2
    <3> QED
      BY <2>2, <2>b, <3>1, <3>3
  <2> QED
    BY <2>3, <2>4
<1>5. G = [i \in DOMAIN slots |-> IF i = right \/ slots[i].next = 0 THEN <<i>>
                                  ELSE <<i>> \o G[slots[i].next]]
  <2>1. DOMAIN G = DOMAIN slots /\ G = [i \in DOMAIN slots |-> G[i]]
    BY SMTT(30)
  <2> HIDE DEF G
  <2> QED
    BY <1>4, <2>1
<1>6. F = [i \in DOMAIN slots |-> IF i = right \/ slots[i].next = 0 THEN <<i>>
                                  ELSE <<i>> \o F[slots[i].next]]
  <2> HIDE DEF G
  <2> QED
    BY <1>5, ZenonT(30)
<1>7. \A i : Path(slots, i, right) = F[i]
  BY DEF Path
<1> HIDE DEF F, G
<1> DEFINE S == {p \in DOMAIN slots : F[order[p]] = Ids(order, p, Stop(p))}
<1>8. ASSUME NEW p \in 1..Len(slots), p = Len(slots) \/ p + 1 \in S
      PROVE  p \in S
  <2>1. F[order[p]] = IF order[p] = right \/ slots[order[p]].next = 0 THEN <<order[p]>>
                      ELSE <<order[p]>> \o F[slots[order[p]].next]
    BY <1>1, <1>6
  <2>2. CASE p = Stop(p)
    BY <1>1, <1>2, <1>3, <2>1, <2>2
  <2>3. CASE p # Stop(p)
    <3>0. p \in DOMAIN slots /\ p # Len(slots)
      <4>1. p \in DOMAIN slots
        BY <1>1
      <4>2. Stop(p) \in DOMAIN slots /\ p <= Stop(p)
        BY <1>2, <4>1
      <4> HIDE DEF Stop
      <4> QED
        BY <1>1, <2>3, <4>1, <4>2
    <3>1. slots[order[p]].next = order[p + 1] /\ p + 1 \in S
      BY <1>2, <1>8, <2>3, <3>0
    <3>2. F[order[p + 1]] = Ids(order, p + 1, Stop(p + 1))
      BY <3>1
    <3>3. ~ (order[p] = right \/ slots[order[p]].next = 0)
      BY <1>2, <2>3, <3>0
    <3>4. F[order[p]] = Ids(order, p, Stop(p))
      BY <1>3, <2>1, <3>0, <3>1, <3>2, <3>3
    <3> QED
      BY <3>0, <3>4
  <2> QED
    BY <2>2, <2>3
<1>9. DOMAIN slots \subseteq S
  <2> HIDE DEF S
  <2> QED
    BY <1>1, <1>8, Backwards
<1>10. F[order[m]] = Ids(order, m, Stop(m)) /\ Stop(m) = n
  BY <1>9
<1> QED
  BY <1>7, <1>10


-----------------------------------------------------------------------------
(* What is free, slot by slot *)

(* Each time of the list is in a slot *)
LEMMA SlotAtTime ==
  ASSUME NEW slots, NEW order, NEW b, NEW e, Linked(slots, order, b, e),
         NEW t \in Int, b <= t, t <= e
  PROVE  \E n \in DOMAIN slots : slots[order[n]].b <= t /\ t <= slots[order[n]].e
<1> DEFINE P == {n \in DOMAIN slots : t <= slots[order[n]].e}
<1>1. /\ Len(slots) \in Nat \ {0} /\ DOMAIN slots = 1..Len(slots)
      /\ \A n \in DOMAIN slots : slots[order[n]].b \in Nat /\ slots[order[n]].e \in Nat
  BY OrderTypes
<1>2. Len(slots) \in P
  <2>1. Len(slots) \in DOMAIN slots
    BY <1>1
  <2>2. slots[order[Len(slots)]].e = e
    BY <2>1, NextInOrder
  <2> QED
    BY <2>1, <2>2
<1>3. P \in SUBSET Nat /\ P # {}
  BY <1>1, <1>2
<1>4. PICK n \in P : \A k \in P : n <= k
  <2> HIDE DEF P
  <2> QED
    BY <1>3, FirstFrom
<1>5. CASE n = 1
  <2>1. slots[order[1]].b = b
    BY DEF Linked, InOrder
  <2> QED
    BY <1>4, <1>5, <2>1
<1>6. CASE n # 1
  <2>1. n - 1 \in DOMAIN slots /\ n - 1 # Len(slots) /\ (n - 1) + 1 = n /\ ~ (n <= n - 1)
    BY <1>1, <1>6
  <2>2. slots[order[n]].b = slots[order[n - 1]].e + 1
    BY <2>1, NextInOrder
  <2>3. ~ (t <= slots[order[n - 1]].e)
    BY <1>4, <2>1
  <2> QED
    BY <1>1, <1>4, <2>1, <2>2, <2>3
<1> QED
  BY <1>5, <1>6

(* The slots are between the first time and the last one *)
LEMMA SlotsWithin ==
  ASSUME NEW slots, NEW order, NEW b, NEW e, Linked(slots, order, b, e),
         NEW n \in DOMAIN slots
  PROVE  b <= slots[order[n]].b /\ slots[order[n]].e <= e /\ slots[order[n]].b <= e + 1
<1>1. /\ Len(slots) \in Nat \ {0} /\ DOMAIN slots = 1..Len(slots)
      /\ slots[order[n]].b \in Nat /\ slots[order[n]].e \in Nat /\ e \in Nat
  BY OrderTypes
<1>2. 1 \in DOMAIN slots /\ Len(slots) \in DOMAIN slots /\ 1 <= n /\ n <= Len(slots)
  BY <1>1
<1>3. slots[order[1]].b = b
  BY DEF Linked, InOrder
<1>4. slots[order[Len(slots)]].e = e
  BY <1>2, NextInOrder
<1>5. slots[order[1]].b <= slots[order[n]].b
  BY <1>2, TimeGoesOn
<1>6. slots[order[n]].e <= slots[order[Len(slots)]].e
  BY <1>2, TimeGoesOn
<1>7. slots[order[n]].b <= slots[order[n]].e + 1
  BY NextInOrder
<1> QED
  BY <1>1, <1>3, <1>4, <1>5, <1>6, <1>7

(* Two slots are not there at the same time *)
LEMMA OneSlotAtATime ==
  ASSUME NEW slots, NEW order, NEW b, NEW e, Linked(slots, order, b, e),
         NEW m \in DOMAIN slots, NEW n \in DOMAIN slots, NEW t \in Int,
         slots[order[m]].b <= t, t <= slots[order[n]].e
  PROVE  m <= n
<1>1. /\ Len(slots) \in Nat \ {0} /\ DOMAIN slots = 1..Len(slots)
      /\ \A k \in DOMAIN slots : slots[order[k]].b \in Nat /\ slots[order[k]].e \in Nat
  BY OrderTypes
<1>2. ASSUME n < m
      PROVE  FALSE
  <2>1. slots[order[n]].e < slots[order[m]].b
    BY <1>1, <1>2, TimeGoesOn
  <2> QED
    BY <1>1, <2>1
<1> QED
  BY <1>1, <1>2

(* What is free at a time of a slot is what the slot has *)
LEMMA FreeInSlot ==
  ASSUME NEW slots, NEW order, NEW b, NEW e, Linked(slots, order, b, e),
         NEW n \in DOMAIN slots, NEW t \in Int,
         slots[order[n]].b <= t, t <= slots[order[n]].e
  PROVE  FreeAt(slots, t) = slots[order[n]].itvs
<1> DEFINE K == {k \in DOMAIN slots : slots[k].b <= t /\ t <= slots[k].e}
<1>1. order[n] \in K
  BY OrderTypes
<1>2. ASSUME NEW k \in K
      PROVE  k = order[n]
  <2>1. PICK m \in DOMAIN slots : order[m] = k
    BY <1>2 DEF Linked, InOrder
  <2>2. m <= n /\ n <= m
    BY <1>2, <2>1, OneSlotAtATime
  <2>3. m = n
    BY <2>2, OrderTypes
  <2> QED
    BY <2>1, <2>3
<1>3. K = {order[n]}
  BY <1>1, <1>2
<1> QED
  BY <1>3 DEF FreeAt

(* Nothing is free before the first time of the list, or after the last *)
LEMMA FreeOutside ==
  ASSUME NEW slots, NEW order, NEW b, NEW e, Linked(slots, order, b, e),
         NEW t \in Int, ~ (b <= t /\ t <= e)
  PROVE  FreeAt(slots, t) = {}
<1>1. /\ b \in Nat /\ e \in Nat
      /\ \A k \in DOMAIN slots : slots[order[k]].b \in Nat /\ slots[order[k]].e \in Nat
  BY OrderTypes
<1>2. ASSUME NEW k \in DOMAIN slots, slots[k].b <= t, t <= slots[k].e
      PROVE  FALSE
  <2>1. PICK m \in DOMAIN slots : order[m] = k
    BY DEF Linked, InOrder
  <2>2. b <= slots[order[m]].b /\ slots[order[m]].e <= e
    BY SlotsWithin
  <2> QED
    BY <1>1, <1>2, <2>1, <2>2
<1> QED
  BY <1>2 DEF FreeAt

(* What is free is made of resources *)
LEMMA FreeTypes ==
  ASSUME NEW slots \in Seq(Slot), NEW t
  PROVE  FreeAt(slots, t) \subseteq Resources
  BY SlotTypes DEF FreeAt

(* intersec_itvs_slots: what all slots from one position to another have *)
LEMMA AvailableIs ==
  ASSUME NEW slots, NEW order, NEW b, NEW e, Linked(slots, order, b, e),
         NEW m \in DOMAIN slots, NEW n \in DOMAIN slots, m <= n
  PROVE  Available(slots, order[m], order[n]) =
           {r \in Resources : \A k \in m..n : r \in slots[order[k]].itvs}
<1>1. Len(slots) \in Nat /\ DOMAIN slots = 1..Len(slots)
  BY OrderTypes
<1>2. Path(slots, order[m], order[n]) = Ids(order, m, n)
  BY PathInOrder
<1>3. \A k \in 1..(n - m + 1) : Ids(order, m, n)[k] = order[m + k - 1] /\ m + k - 1 \in m..n
  BY <1>1 DEF Ids
<1>4. DOMAIN Ids(order, m, n) = 1..(n - m + 1)
  BY DEF Ids
<1>5. \A k \in m..n : k - m + 1 \in 1..(n - m + 1) /\ m + (k - m + 1) - 1 = k
  BY <1>1
<1>6. Range(Ids(order, m, n)) = {order[k] : k \in m..n}
  <2>1. ASSUME NEW i \in Range(Ids(order, m, n))
        PROVE  i \in {order[k] : k \in m..n}
    BY <1>3, <1>4, <2>1 DEF Range
  <2>2. ASSUME NEW k \in m..n
        PROVE  order[k] \in Range(Ids(order, m, n))
    <3>1. Ids(order, m, n)[k - m + 1] = order[k]
      BY <1>3, <1>5
    <3> QED
      BY <1>4, <1>5, <3>1 DEF Range
  <2> QED
    BY <2>1, <2>2
<1> QED
  BY <1>2, <1>6 DEF Available

-----------------------------------------------------------------------------
(* What a request finds *)

(* A number of resources of a set, for some time *)
IsRequest(rqt) == rqt \in [nb : Nat \ {0}, from : SUBSET Resources, walltime : Nat \ {0}]

(* What is free all along, for a request *)
FreeAlong(slots, t, rqt) ==
  {r \in rqt.from : \A u \in t..t + rqt.walltime - 1 : r \in FreeAt(slots, u)}

(* The last slot of a request that begins at position m *)
Reaches(slots, order, m, n, rqt) ==
  /\ m <= n
  /\ slots[order[n]].b <= slots[order[m]].b + rqt.walltime - 1
  /\ slots[order[m]].b + rqt.walltime - 1 <= slots[order[n]].e

(* What the slots of a request all have is free all along *)
LEMMA AvailableIsFree ==
  ASSUME NEW slots, NEW order, NEW b, NEW e, Linked(slots, order, b, e),
         NEW m \in DOMAIN slots, NEW n \in DOMAIN slots, NEW rqt, IsRequest(rqt),
         Reaches(slots, order, m, n, rqt)
  PROVE  Available(slots, order[m], order[n]) \cap rqt.from
           \subseteq FreeAlong(slots, slots[order[m]].b, rqt)
<1> DEFINE t == slots[order[m]].b
<1>1. /\ DOMAIN slots = 1..Len(slots) /\ Len(slots) \in Nat /\ t \in Nat /\ e \in Nat /\ b \in Nat
      /\ slots[order[n]].e \in Nat /\ rqt.walltime \in Nat \ {0} /\ m <= n
  BY OrderTypes DEF IsRequest, Reaches
<1>2. ASSUME NEW r \in Available(slots, order[m], order[n]), NEW u \in t..t + rqt.walltime - 1
      PROVE  r \in FreeAt(slots, u)
  <2>1. b <= t /\ slots[order[n]].e <= e
    BY SlotsWithin
  <2>2. u \in Int /\ t <= u /\ u <= slots[order[n]].e /\ b <= u /\ u <= e
    BY <1>1, <2>1 DEF Reaches
  <2>3. PICK k \in DOMAIN slots : slots[order[k]].b <= u /\ u <= slots[order[k]].e
    BY <2>2, SlotAtTime
  <2>4. m <= k
    BY <2>2, <2>3, OneSlotAtATime
  <2>5. k <= n
    BY <2>2, <2>3, OneSlotAtATime
  <2>6. k \in m..n
    BY <1>1, <2>4, <2>5
  <2>7. r \in slots[order[k]].itvs
    <3>1. Available(slots, order[m], order[n]) =
            {x \in Resources : \A i \in m..n : x \in slots[order[i]].itvs}
      <4>1. m <= n
        BY DEF Reaches
      <4> QED
        BY <4>1, AvailableIs
    <3> QED
      BY <1>2, <2>6, <3>1
  <2>8. FreeAt(slots, u) = slots[order[k]].itvs
    BY <2>2, <2>3, FreeInSlot
  <2> QED
    BY <2>7, <2>8
<1> QED
  BY <1>2 DEF FreeAlong

(* What is free all along all slots of the request have; an empty slot is
   no obstacle *)
LEMMA FreeIsAvailable ==
  ASSUME NEW slots, NEW order, NEW b, NEW e, Linked(slots, order, b, e), NoObstacle(slots),
         NEW m \in DOMAIN slots, NEW n \in DOMAIN slots, NEW rqt, IsRequest(rqt),
         Reaches(slots, order, m, n, rqt), slots[order[m]].b <= slots[order[m]].e
  PROVE  FreeAlong(slots, slots[order[m]].b, rqt)
           \subseteq Available(slots, order[m], order[n]) \cap rqt.from
<1> DEFINE t == slots[order[m]].b
<1>1. /\ DOMAIN slots = 1..Len(slots) /\ Len(slots) \in Nat /\ t \in Nat /\ e \in Nat /\ b \in Nat
      /\ slots[order[n]].e \in Nat /\ rqt.walltime \in Nat \ {0} /\ m <= n
      /\ rqt.from \subseteq Resources
      /\ \A k \in DOMAIN slots : slots[order[k]].b \in Nat /\ slots[order[k]].e \in Nat
  BY OrderTypes DEF IsRequest, Reaches
<1>2. ASSUME NEW r \in FreeAlong(slots, t, rqt), NEW k \in m..n
      PROVE  r \in slots[order[k]].itvs
  <2>1. \A u \in t..t + rqt.walltime - 1 : r \in FreeAt(slots, u)
    BY <1>2 DEF FreeAlong
  <2> DEFINE u == slots[order[k]].b
  <2>2. k \in DOMAIN slots /\ m <= k /\ k <= n
    BY <1>1
  <2>3. t <= u /\ u <= slots[order[n]].b
    BY <2>2, TimeGoesOn
  <2>a. u \in Nat /\ slots[order[k]].e \in Nat /\ k \in Nat /\ slots[order[n]].b \in Nat
    BY <1>1, <2>2, SMTT(30)
  <2>b. slots[order[n]].b <= t + rqt.walltime - 1
    BY DEF Reaches
  <2> HIDE DEF u, t
  <2>4. u \in t..t + rqt.walltime - 1
    BY <1>1, <2>a, <2>b, <2>3, SMTT(30)
  <2>5. CASE u <= slots[order[k]].e
    <3>1. FreeAt(slots, u) = slots[order[k]].itvs
      BY <2>a, <2>2, <2>5, FreeInSlot DEF u
    <3> QED
      BY <2>1, <2>4, <3>1
  <2>6. CASE ~ (u <= slots[order[k]].e)
    <3>1. u = slots[order[k]].e + 1 /\ k # m
      <4>1. u <= slots[order[k]].e + 1
        BY <2>2, NextInOrder DEF u
      <4>2. k # m
        BY <2>6 DEF u
      <4> QED
        BY <2>a, <2>6, <4>1, <4>2
    <3>2. slots[order[m]].e < u
      <4>1. m < k
        BY <1>1, <2>2, <3>1
      <4> QED
        BY <2>2, <4>1, TimeGoesOn DEF u
    <3>3. u - 1 \in t..t + rqt.walltime - 1
      <4>1. slots[order[m]].e \in Nat /\ t <= slots[order[m]].e
        BY <1>1 DEF t
      <4>2. t \in Nat /\ rqt.walltime \in Nat /\ t + rqt.walltime - 1 \in Int /\ u \in Nat
        BY <1>1, <2>a, SMTT(30) DEF t
      <4>3. t < u /\ u <= t + rqt.walltime - 1
        BY <2>4, <3>2, <4>1, <4>2
      <4> QED
        BY <4>2, <4>3
    <3>4. order[k] \in DOMAIN slots
      BY <2>2, OrderTypes
    <3>5. FreeAt(slots, u - 1) \cap FreeAt(slots, u) \subseteq slots[order[k]].itvs
      BY <3>1, <3>4 DEF NoObstacle, u
    <3> QED
      BY <2>1, <2>4, <3>3, <3>5
  <2> QED
    BY <2>5, <2>6
<1> QED
  BY <1>1, <1>2, AvailableIs DEF FreeAlong

-----------------------------------------------------------------------------
(* How many resources there are *)

(* A finite set has subsets of each smaller size *)
LEMMA SmallerSubset ==
  ASSUME NEW S, IsFiniteSet(S), NEW n \in Nat, n <= Cardinality(S)
  PROVE  \E T \in SUBSET S : Cardinality(T) = n
<1> DEFINE c == Cardinality(S)
<1>1. c \in Nat /\ \E f : f \in Bijection(1..c, S)
  BY FS_CardinalityType DEF ExistsBijection
<1>2. PICK f : f \in Bijection(1..c, S)
  BY <1>1
<1> DEFINE T == {f[i] : i \in 1..n}
           g == [i \in 1..n |-> f[i]]
<1>3. 1..n \subseteq 1..c
  BY <1>1
<1>4. f \in [1..c -> S] /\ \A i, k \in 1..c : f[i] = f[k] => i = k
  BY <1>2 DEF Bijection, Injection, IsInjective
<1>5. T \subseteq S
  BY <1>3, <1>4
<1>6. g \in Bijection(1..n, T)
  BY <1>3, <1>4 DEF Bijection, Injection, Surjection, IsInjective
<1>7. Cardinality(T) = n
  BY <1>6, FS_CountingElements DEF ExistsBijection
<1> QED
  BY <1>5, <1>7

(* There is a solution when there are enough resources *)
LEMMA SolutionsExist ==
  ASSUME IsFiniteSet(Resources), NEW rqt, IsRequest(rqt), NEW itvs
  PROVE  Solutions(itvs, rqt) # {} <=> Cardinality(itvs \cap rqt.from) >= rqt.nb
<1>1. rqt.from \subseteq Resources /\ rqt.nb \in Nat
  BY DEF IsRequest
<1>2. IsFiniteSet(itvs \cap rqt.from)
  BY <1>1, FS_Subset
<1>3. Cardinality(itvs \cap rqt.from) \in Nat
  BY <1>2, FS_CardinalityType
<1>4. ASSUME NEW s \in Solutions(itvs, rqt)
      PROVE  Cardinality(itvs \cap rqt.from) >= rqt.nb
  <2>1. s \in SUBSET (itvs \cap rqt.from) /\ Cardinality(s) = rqt.nb
    BY DEF Solutions
  <2>2. Cardinality(s) <= Cardinality(itvs \cap rqt.from)
    BY <1>2, <2>1, FS_Subset
  <2> QED
    BY <1>1, <1>3, <2>1, <2>2
<1>5. ASSUME Cardinality(itvs \cap rqt.from) >= rqt.nb
      PROVE  Solutions(itvs, rqt) # {}
  <2>1. \E s \in SUBSET (itvs \cap rqt.from) : Cardinality(s) = rqt.nb
    BY <1>1, <1>2, <1>3, <1>5, SmallerSubset
  <2> QED
    BY <2>1 DEF Solutions
<1> QED
  BY <1>4, <1>5

(* Fewer resources are not more *)
LEMMA FewerResources ==
  ASSUME IsFiniteSet(Resources), NEW S \in SUBSET Resources, NEW T \in SUBSET S
  PROVE  Cardinality(T) \in Nat /\ Cardinality(S) \in Nat /\ Cardinality(T) <= Cardinality(S)
<1>1. IsFiniteSet(S)
  BY FS_Subset
<1>2. IsFiniteSet(T)
  BY <1>1, FS_Subset
<1> QED
  BY <1>1, <1>2, FS_Subset, FS_CardinalityType

-----------------------------------------------------------------------------
(* The search for the first suitable slots *)

(* A request finds enough from position m on *)
Fits(slots, order, m, rqt) ==
  \E n \in DOMAIN slots :
    /\ Reaches(slots, order, m, n, rqt)
    /\ Solutions(Available(slots, order[m], order[n]), rqt) # {}

(* The slots that end late enough for a job that begins with the slot l *)
LongEnough(slots, l, rqt) ==
  {i \in DOMAIN slots : slots[i].e - slots[l].b + 1 >= rqt.walltime}

(* What is found is free all along *)
LEMMA FitsIsFree ==
  ASSUME IsFiniteSet(Resources),
         NEW slots, NEW order, NEW b, NEW e, Linked(slots, order, b, e),
         NEW m \in DOMAIN slots, NEW rqt, IsRequest(rqt), Fits(slots, order, m, rqt)
  PROVE  /\ slots[order[m]].b + rqt.walltime - 1 <= e
         /\ Cardinality(FreeAlong(slots, slots[order[m]].b, rqt)) >= rqt.nb
<1> DEFINE t == slots[order[m]].b
<1>1. PICK n \in DOMAIN slots :
        /\ Reaches(slots, order, m, n, rqt)
        /\ Solutions(Available(slots, order[m], order[n]), rqt) # {}
  BY DEF Fits
<1>2. /\ t \in Nat /\ slots[order[n]].e \in Nat /\ e \in Nat
      /\ rqt.walltime \in Nat /\ rqt.nb \in Nat
  BY OrderTypes DEF IsRequest
<1>3. slots[order[n]].e <= e
  BY SlotsWithin
<1>4. t + rqt.walltime - 1 <= slots[order[n]].e
  BY <1>1 DEF Reaches
<1> DEFINE A == Available(slots, order[m], order[n]) \cap rqt.from
           F == FreeAlong(slots, t, rqt)
<1>5. Cardinality(A) >= rqt.nb
  BY <1>1, SolutionsExist
<1>6. A \subseteq F
  BY <1>1, AvailableIsFree
<1>7. F \subseteq Resources
  BY DEF FreeAlong, IsRequest
<1>8. Cardinality(A) \in Nat /\ Cardinality(F) \in Nat /\ Cardinality(A) <= Cardinality(F)
  BY <1>6, <1>7, FewerResources
<1> HIDE DEF t, A, F
<1>9. t + rqt.walltime - 1 <= e
  BY <1>2, <1>3, <1>4
<1>10. Cardinality(F) >= rqt.nb
  BY <1>2, <1>5, <1>8
<1> QED
  BY <1>9, <1>10 DEF t, F

(* What is free all along from a time is found in the slot of this time *)
LEMMA FreeFits ==
  ASSUME IsFiniteSet(Resources),
         NEW slots, NEW order, NEW b, NEW e, Linked(slots, order, b, e), NoObstacle(slots),
         NEW rqt, IsRequest(rqt), NEW t \in Nat,
         Cardinality(FreeAlong(slots, t, rqt)) >= rqt.nb
  PROVE  \E m \in DOMAIN slots :
           /\ slots[order[m]].b <= t /\ t <= slots[order[m]].e
           /\ Fits(slots, order, m, rqt)
<1>1. /\ b \in Nat /\ e \in Nat /\ rqt.walltime \in Nat \ {0} /\ rqt.nb \in Nat \ {0}
      /\ rqt.from \subseteq Resources
      /\ DOMAIN slots = 1..Len(slots) /\ Len(slots) \in Nat
      /\ \A n \in DOMAIN slots : slots[order[n]].b \in Nat /\ slots[order[n]].e \in Nat
  BY OrderTypes DEF IsRequest
<1>2. \A u \in Nat : FreeAlong(slots, u, rqt) \subseteq Resources
  BY <1>1 DEF FreeAlong
<1>3. FreeAlong(slots, t, rqt) # {}
  <2> SUFFICES ASSUME FreeAlong(slots, t, rqt) = {}
               PROVE  FALSE
    OBVIOUS
  <2>1. Cardinality(FreeAlong(slots, t, rqt)) = 0
    BY FS_EmptySet
  <2> QED
    BY <1>1, <2>1
<1>4. PICK r \in FreeAlong(slots, t, rqt) : TRUE
  BY <1>3
<1>5. \A u \in t..t + rqt.walltime - 1 : r \in FreeAt(slots, u)
  BY <1>4 DEF FreeAlong
<1>6. t \in t..t + rqt.walltime - 1 /\ t + rqt.walltime - 1 \in t..t + rqt.walltime - 1
  BY <1>1
<1>7. b <= t /\ t <= e /\ t + rqt.walltime - 1 <= e
  <2>1. r \in FreeAt(slots, t) /\ r \in FreeAt(slots, t + rqt.walltime - 1)
    BY <1>5, <1>6
  <2>2. t \in Int /\ t + rqt.walltime - 1 \in Int
    BY <1>1
  <2> QED
    BY <2>1, <2>2, FreeOutside
<1>8. PICK m \in DOMAIN slots : slots[order[m]].b <= t /\ t <= slots[order[m]].e
  BY <1>7, SlotAtTime
<1> DEFINE s == slots[order[m]].b
<1>9. s \in Nat /\ slots[order[m]].e \in Nat /\ s <= t /\ b <= s
  BY <1>1, <1>8, SlotsWithin
<1>10. PICK n \in DOMAIN slots : /\ slots[order[n]].b <= s + rqt.walltime - 1
                                 /\ s + rqt.walltime - 1 <= slots[order[n]].e
  <2>1. s + rqt.walltime - 1 \in Int /\ b <= s + rqt.walltime - 1 /\ s + rqt.walltime - 1 <= e
    <3>1. t + rqt.walltime - 1 <= e /\ s \in Nat /\ s <= t /\ b <= s
      BY <1>7, <1>9
    <3> HIDE DEF s
    <3> QED
      BY <1>1, <3>1
  <2> QED
    BY <2>1, SlotAtTime
<1>11. m <= n
  <2>1. s <= slots[order[n]].e
    BY <1>1, <1>9, <1>10, SMTT(30)
  <2> QED
    BY <1>9, <2>1, OneSlotAtATime
<1>12. Reaches(slots, order, m, n, rqt)
  BY <1>10, <1>11 DEF Reaches
<1>13. FreeAlong(slots, t, rqt) \subseteq FreeAlong(slots, s, rqt)
  <2>1. ASSUME NEW x \in FreeAlong(slots, t, rqt), NEW u \in s..s + rqt.walltime - 1
        PROVE  x \in FreeAt(slots, u)
    <3>1. \A v \in t..t + rqt.walltime - 1 : x \in FreeAt(slots, v)
      BY <2>1 DEF FreeAlong
    <3> HIDE DEF s
    <3>a. u \in Int /\ s <= u /\ u <= s + rqt.walltime - 1
      BY <1>1, <1>9
    <3>2. CASE u <= t
      <4>1. FreeAt(slots, t) = slots[order[m]].itvs
        BY <1>8, FreeInSlot
      <4>2. u \in Int /\ s <= u /\ u <= slots[order[m]].e
        BY <1>1, <1>8, <1>9, <3>2, <3>a
      <4>3. FreeAt(slots, u) = slots[order[m]].itvs
        BY <4>2, FreeInSlot DEF s
      <4> QED
        BY <1>6, <3>1, <4>1, <4>3
    <3>3. CASE ~ (u <= t)
      <4>1. u \in t..t + rqt.walltime - 1
        BY <1>1, <1>9, <3>3, <3>a
      <4> QED
        BY <3>1, <4>1
    <3> QED
      BY <3>2, <3>3
  <2> QED
    BY <2>1 DEF FreeAlong
<1>14. FreeAlong(slots, s, rqt) \subseteq Available(slots, order[m], order[n]) \cap rqt.from
  <2>1. slots[order[m]].b <= slots[order[m]].e
    BY <1>1, <1>8
  <2> QED
    BY <1>12, <2>1, FreeIsAvailable
<1>15. Cardinality(Available(slots, order[m], order[n]) \cap rqt.from) >= rqt.nb
  <2> DEFINE T == FreeAlong(slots, t, rqt)
             S == Available(slots, order[m], order[n]) \cap rqt.from
  <2>1. T \in SUBSET S /\ S \in SUBSET Resources
    BY <1>1, <1>13, <1>14
  <2>2. Cardinality(T) \in Nat /\ Cardinality(S) \in Nat /\ Cardinality(T) <= Cardinality(S)
    BY <2>1, FewerResources
  <2>3. Cardinality(T) >= rqt.nb
    OBVIOUS
  <2> HIDE DEF T, S
  <2>4. Cardinality(S) >= rqt.nb
    BY <1>1, <2>2, <2>3
  <2> QED
    BY <2>4 DEF S
<1>16. Fits(slots, order, m, rqt)
  BY <1>12, <1>15, SolutionsExist DEF Fits
<1> QED
  BY <1>8, <1>16

(* The last slot of a request is the only one *)
LEMMA ReachesOnce ==
  ASSUME NEW slots, NEW order, NEW b, NEW e, Linked(slots, order, b, e), NEW rqt, IsRequest(rqt),
         NEW m \in DOMAIN slots, NEW n \in DOMAIN slots, NEW k \in DOMAIN slots,
         Reaches(slots, order, m, n, rqt), Reaches(slots, order, m, k, rqt)
  PROVE  n = k
<1>1. slots[order[m]].b \in Nat /\ rqt.walltime \in Nat
  BY OrderTypes DEF IsRequest
<1> DEFINE t == slots[order[m]].b + rqt.walltime - 1
<1>2. t \in Int
  BY <1>1
<1>3. /\ slots[order[n]].b <= t /\ t <= slots[order[n]].e
      /\ slots[order[k]].b <= t /\ t <= slots[order[k]].e
  BY DEF Reaches
<1>4. n <= k /\ k <= n
  <2> HIDE DEF t
  <2> QED
    BY <1>2, <1>3, OneSlotAtATime
<1> QED
  BY <1>4, OrderTypes

(* Where the slots are long enough *)
LEMMA LongFinds ==
  ASSUME NEW slots, NEW order, NEW b, NEW e, Linked(slots, order, b, e), NEW rqt, IsRequest(rqt),
         NEW p \in DOMAIN slots, NEW m \in DOMAIN slots, p <= m
  PROVE  LET right == Follow(slots, order[p], LongEnough(slots, order[m], rqt))
         IN  \/ right = 0 /\ \A n \in DOMAIN slots : ~ Reaches(slots, order, m, n, rqt)
             \/ \E n \in DOMAIN slots : right = order[n] /\ Reaches(slots, order, m, n, rqt)
<1> DEFINE ids == LongEnough(slots, order[m], rqt)
           right == Follow(slots, order[p], ids)
           t == slots[order[m]].b + rqt.walltime - 1
<1>1. /\ DOMAIN slots = 1..Len(slots) /\ Len(slots) \in Nat
      /\ \A n \in DOMAIN slots : /\ slots[order[n]].b \in Nat /\ slots[order[n]].e \in Nat
                                 /\ order[n] \in DOMAIN slots
      /\ rqt.walltime \in Nat \ {0}
  BY OrderTypes DEF IsRequest
<1>2. ASSUME NEW n \in DOMAIN slots
      PROVE  order[n] \in ids <=> t <= slots[order[n]].e
  <2> DEFINE x == slots[order[m]].b
             y == slots[order[n]].e
  <2>1. x \in Nat /\ y \in Nat /\ order[n] \in DOMAIN slots /\ rqt.walltime \in Nat
    BY <1>1
  <2>2. order[n] \in ids <=> y - x + 1 >= rqt.walltime
    BY <2>1 DEF LongEnough
  <2> HIDE DEF x, y
  <2>3. y - x + 1 >= rqt.walltime <=> x + rqt.walltime - 1 <= y
    BY <2>1
  <2> QED
    BY <2>2, <2>3 DEF x, y
<1>a. t \in Nat /\ slots[order[m]].b <= t
  BY <1>1
<1>3. CASE right = 0 /\ \A n \in DOMAIN slots : p <= n => order[n] \notin ids
  <2>1. ASSUME NEW n \in DOMAIN slots, Reaches(slots, order, m, n, rqt)
        PROVE  FALSE
    <3>1. p <= n /\ t <= slots[order[n]].e
      BY <1>1, <2>1 DEF Reaches
    <3> QED
      BY <1>2, <1>3, <3>1
  <2> QED
    BY <1>3, <2>1
<1>4. ASSUME NEW n \in DOMAIN slots,
             p <= n, right = order[n], order[n] \in ids,
             \A k \in DOMAIN slots : p <= k /\ k < n => order[k] \notin ids
      PROVE  Reaches(slots, order, m, n, rqt)
  <2>1. t <= slots[order[n]].e
    BY <1>2, <1>4
  <2>2. m <= n
    <3>1. slots[order[m]].b <= slots[order[n]].e
      BY <1>1, <1>a, <2>1
    <3> QED
      BY <1>1, <3>1, OneSlotAtATime
  <2>3. slots[order[n]].b <= t
    <3>1. CASE n = p
      <4>1. n = m
        BY <1>1, <2>2, <3>1
      <4> QED
        BY <1>a, <4>1
    <3>2. CASE n # p
      <4>1. /\ n - 1 \in DOMAIN slots /\ p <= n - 1 /\ n - 1 < n
            /\ n - 1 # Len(slots) /\ (n - 1) + 1 = n
        BY <1>1, <1>4, <3>2
      <4>2. ~ (t <= slots[order[n - 1]].e)
        BY <1>2, <1>4, <4>1
      <4>3. slots[order[n]].b = slots[order[n - 1]].e + 1
        BY <4>1, NextInOrder
      <4> HIDE DEF t
      <4> QED
        BY <1>1, <1>a, <4>1, <4>2, <4>3
    <3> QED
      BY <3>1, <3>2
  <2> QED
    BY <2>1, <2>2, <2>3 DEF Reaches
<1>5. \/ right = 0 /\ \A n \in DOMAIN slots : p <= n => order[n] \notin ids
      \/ \E n \in DOMAIN slots :
           /\ p <= n /\ right = order[n] /\ order[n] \in ids
           /\ \A k \in DOMAIN slots : p <= k /\ k < n => order[k] \notin ids
  <2> HIDE DEF ids
  <2> QED
    BY FollowFinds DEF right
<1> QED
  BY <1>3, <1>4, <1>5

(* To look for a set and then for a smaller one is to look for the second *)
LEMMA FollowTwice ==
  ASSUME NEW slots, NEW order, NEW b, NEW e, Linked(slots, order, b, e),
         NEW p \in DOMAIN slots, NEW ids, NEW fewer, fewer \subseteq ids
  PROVE  Follow(slots, Follow(slots, order[p], ids), fewer) = Follow(slots, order[p], fewer)
<1> DEFINE x == Follow(slots, order[p], ids)
           y == Follow(slots, order[p], fewer)
<1>a. DOMAIN slots = 1..Len(slots) /\ Len(slots) \in Nat
  BY OrderTypes
<1>1. \/ y = 0 /\ \A n \in DOMAIN slots : p <= n => order[n] \notin fewer
      \/ \E n \in DOMAIN slots :
           /\ p <= n /\ y = order[n] /\ order[n] \in fewer
           /\ \A k \in DOMAIN slots : p <= k /\ k < n => order[k] \notin fewer
  BY FollowFinds
<1>2. \/ x = 0 /\ \A n \in DOMAIN slots : p <= n => order[n] \notin ids
      \/ \E n \in DOMAIN slots :
           /\ p <= n /\ x = order[n] /\ order[n] \in ids
           /\ \A k \in DOMAIN slots : p <= k /\ k < n => order[k] \notin ids
  BY FollowFinds
<1>3. Follow(slots, 0, fewer) = 0
  BY FollowFinds
<1> HIDE DEF x, y
<1>4. CASE x = 0 /\ \A n \in DOMAIN slots : p <= n => order[n] \notin ids
  <2>1. y = 0
    BY <1>1, <1>4
  <2> QED
    BY <1>3, <1>4, <2>1 DEF x, y
<1>5. ASSUME NEW n \in DOMAIN slots, p <= n, x = order[n],
             \A k \in DOMAIN slots : p <= k /\ k < n => order[k] \notin ids
      PROVE  Follow(slots, x, fewer) = y
  <2> DEFINE z == Follow(slots, order[n], fewer)
  <2>1. \/ z = 0 /\ \A k \in DOMAIN slots : n <= k => order[k] \notin fewer
        \/ \E q \in DOMAIN slots :
             /\ n <= q /\ z = order[q] /\ order[q] \in fewer
             /\ \A k \in DOMAIN slots : n <= k /\ k < q => order[k] \notin fewer
    BY FollowFinds
  <2>2. \A k \in DOMAIN slots : p <= k /\ order[k] \in fewer => n <= k
    BY <1>a, <1>5
  <2> HIDE DEF z
  <2>3. CASE z = 0 /\ \A k \in DOMAIN slots : n <= k => order[k] \notin fewer
    BY <1>1, <1>5, <2>2, <2>3 DEF z
  <2>4. ASSUME NEW q \in DOMAIN slots, n <= q, z = order[q], order[q] \in fewer,
               \A k \in DOMAIN slots : n <= k /\ k < q => order[k] \notin fewer
        PROVE  z = y
    <3>1. p <= q
      BY <1>a, <1>5, <2>4
    <3>2. PICK l \in DOMAIN slots :
            /\ p <= l /\ y = order[l] /\ order[l] \in fewer
            /\ \A k \in DOMAIN slots : p <= k /\ k < l => order[k] \notin fewer
      BY <1>1, <2>4, <3>1
    <3>3. n <= l
      BY <2>2, <3>2
    <3>4. ~ (l < q) /\ ~ (q < l)
      BY <2>4, <3>1, <3>2, <3>3
    <3>5. l = q
      BY <1>a, <3>4
    <3> QED
      BY <2>4, <3>2, <3>5
  <2> QED
    BY <1>5, <2>1, <2>3, <2>4 DEF z
<1> QED
  BY <1>2, <1>4, <1>5 DEF x, y

(* A request that goes far enough from a position does from those before *)
LEMMA ReachesBefore ==
  ASSUME NEW slots, NEW order, NEW b, NEW e, Linked(slots, order, b, e), NEW rqt, IsRequest(rqt),
         NEW k \in DOMAIN slots, NEW m \in DOMAIN slots, k <= m, NEW n \in DOMAIN slots,
         Reaches(slots, order, m, n, rqt)
  PROVE  \E l \in DOMAIN slots : Reaches(slots, order, k, l, rqt)
<1> DEFINE x == slots[order[k]].b
           y == slots[order[m]].b
           z == slots[order[n]].e
           w == rqt.walltime
<1>1. x \in Nat /\ y \in Nat /\ z \in Nat /\ b \in Nat /\ e \in Nat /\ w \in Nat \ {0}
  BY OrderTypes DEF IsRequest
<1>2. b <= x /\ x <= y /\ y + w - 1 <= z /\ z <= e
  BY SlotsWithin, TimeGoesOn DEF Reaches
<1>3. x + w - 1 \in Int /\ b <= x + w - 1 /\ x + w - 1 <= e /\ x <= x + w - 1
  <2> HIDE DEF x, y, z, w
  <2> QED
    BY <1>1, <1>2
<1>4. PICK l \in DOMAIN slots : slots[order[l]].b <= x + w - 1 /\ x + w - 1 <= slots[order[l]].e
  <2> HIDE DEF x, w
  <2> QED
    BY <1>3, SlotAtTime
<1>5. k <= l
  <2>1. x <= x + w - 1
    BY <1>3
  <2>2. x + w - 1 \in Int
    BY <1>3
  <2>3. slots[order[l]].e \in Nat
    BY OrderTypes
  <2>4. x <= slots[order[l]].e
    <3> HIDE DEF x, w
    <3> QED
      BY <1>1, <1>3, <1>4, <2>3
  <2> QED
    BY <1>1, <2>4, OneSlotAtATime
<1> QED
  BY <1>4, <1>5 DEF Reaches

(* The search ends on an id of the list, or on 0 *)
LEMMA FollowTypes ==
  ASSUME NEW slots, NEW order, NEW b, NEW e, Linked(slots, order, b, e),
         NEW ids, NEW i \in 0..Len(slots)
  PROVE  Follow(slots, i, ids) \in 0..Len(slots)
<1>1. /\ DOMAIN slots = 1..Len(slots) /\ Len(slots) \in Nat
      /\ \A n \in DOMAIN slots : order[n] \in 0..Len(slots)
  <2>1. /\ DOMAIN slots = 1..Len(slots) /\ Len(slots) \in Nat
        /\ \A n \in DOMAIN slots : order[n] \in DOMAIN slots
    BY OrderTypes
  <2> QED
    BY <2>1
<1>2. CASE i = 0
  <2>1. Follow(slots, 0, ids) = 0
    <3>1. 1 \in DOMAIN slots
      BY OrderTypes
    <3> QED
      BY <3>1, FollowFinds
  <2> QED
    BY <1>1, <1>2, <2>1
<1>3. CASE i # 0
  <2>1. PICK q \in DOMAIN slots : order[q] = i
    <3>1. i \in DOMAIN slots
      BY <1>1, <1>3
    <3> QED
      BY <3>1, PosOfId
  <2>2. q \in DOMAIN slots
    BY <2>1
  <2> DEFINE x == Follow(slots, order[q], ids)
  <2>3. \/ x = 0 /\ \A n \in DOMAIN slots : q <= n => order[n] \notin ids
        \/ \E n \in DOMAIN slots :
             /\ q <= n /\ x = order[n] /\ order[n] \in ids
             /\ \A k \in DOMAIN slots : q <= k /\ k < n => order[k] \notin ids
    BY <2>2, FollowFinds
  <2> HIDE DEF x
  <2>4. x \in 0..Len(slots)
    BY <1>1, <2>3
  <2> QED
    BY <2>1, <2>4 DEF x
<1> QED
  BY <1>2, <1>3

(* The part of a set of positions from n on *)
From(S, n) == {k \in S : n <= k}

(* The first number of a set from n on is n, or the first from n + 1 on *)
LEMMA LeastFrom ==
  ASSUME NEW S \in SUBSET Nat, NEW n \in Nat
  PROVE  /\ From(S, n) # {} => /\ Least(From(S, n)) \in From(S, n)
                               /\ \A k \in From(S, n) : Least(From(S, n)) <= k
         /\ n \in S => Least(From(S, n)) = n /\ From(S, n) # {}
         /\ n \notin S => From(S, n) = From(S, n + 1)
<1> DEFINE T == From(S, n)
<1>1. T \in SUBSET Nat
  BY DEF From
<1>2. T # {} => \E x \in T : \A k \in T : x <= k
  BY <1>1, FirstFrom
<1>3. T # {} => Least(T) \in T /\ \A k \in T : Least(T) <= k
  BY <1>2, Zenon DEF Least
<1>4. ASSUME n \in S
      PROVE  Least(T) = n /\ T # {}
  <2>1. n \in T /\ \A k \in T : n <= k
    BY <1>4 DEF From
  <2> QED
    BY <1>1, <1>3, <2>1
<1>5. ASSUME n \notin S
      PROVE  From(S, n) = From(S, n + 1)
  <2>1. \A k \in S : k \in Nat /\ k # n
    BY <1>5
  <2>2. \A k \in S : n <= k <=> n + 1 <= k
    BY <2>1
  <2> QED
    BY <2>2 DEF From
<1> QED
  BY <1>3, <1>4, <1>5

(* The first position where a request fits is found *)
LEMMA FindFirst ==
  ASSUME NEW slots, NEW order, NEW b, NEW e, Linked(slots, order, b, e), NEW rqt, IsRequest(rqt),
         NEW p \in DOMAIN slots
  PROVE  /\ FindFrom(slots, 0, rqt) = <<0, 0>>
         /\ \/ /\ FindFrom(slots, order[p], rqt) = <<0, 0>>
               /\ \A k \in DOMAIN slots : p <= k => ~ Fits(slots, order, k, rqt)
            \/ \E m, n \in DOMAIN slots :
                 /\ FindFrom(slots, order[p], rqt) = <<order[m], order[n]>>
                 /\ p <= m /\ Reaches(slots, order, m, n, rqt)
                 /\ Solutions(Available(slots, order[m], order[n]), rqt) # {}
                 /\ \A k \in DOMAIN slots : p <= k /\ k < m => ~ Fits(slots, order, k, rqt)
<1> DEFINE I == 0..Len(slots)
           P(i) == Pos(slots, order, i)
           Right(m, r) == Follow(slots, r, LongEnough(slots, order[m], rqt))
           Enough(m, r) == Solutions(Available(slots, order[m], r), rqt) # {}
           Stops(r) == {m \in DOMAIN slots : Right(m, r) = 0 \/ Enough(m, Right(m, r))}
           Found(m, r) == LET W == From(Stops(r), m)
                          IN  IF W = {} THEN <<0, 0>>
                              ELSE IF Right(Least(W), r) = 0 THEN <<0, 0>>
                              ELSE <<order[Least(W)], Right(Least(W), r)>>
           G == [at \in I \X I |-> IF at[1] = 0 THEN <<0, 0>> ELSE Found(P(at[1]), at[2])]
           F == CHOOSE f : f = [at \in I \X I |->
                  IF at[1] = 0 THEN <<0, 0>>
                  ELSE LET right == Follow(slots, at[2], LongEnough(slots, at[1], rqt))
                       IN  IF right = 0 THEN <<0, 0>>
                           ELSE IF Solutions(Available(slots, at[1], right), rqt) # {}
                                THEN <<at[1], right>>
                           ELSE f[<<slots[at[1]].next, right>>]]
<1>1. /\ DOMAIN slots = 1..Len(slots) /\ Len(slots) \in Nat
      /\ \A m \in DOMAIN slots :
           order[m] \in DOMAIN slots /\ order[m] \in I /\ order[m] # 0 /\ m \in Nat
      /\ \A i \in I : i # 0 => i \in DOMAIN slots
  <2>1. /\ DOMAIN slots = 1..Len(slots) /\ Len(slots) \in Nat
        /\ \A m \in DOMAIN slots : order[m] \in DOMAIN slots
    BY OrderTypes
  <2>2. \A i \in DOMAIN slots : i \in I /\ i # 0 /\ i \in Nat
    BY <2>1
  <2>3. \A i \in I : i # 0 => i \in DOMAIN slots
    BY <2>1
  <2> QED
    BY <2>1, <2>2, <2>3
<1>2. \A i : Follow(slots, 0, i) = 0
  BY FollowFinds
<1>3. \A i, ids : i \in I => Follow(slots, i, ids) \in I
  BY FollowTypes
<1>4. ASSUME NEW m \in DOMAIN slots, NEW k \in DOMAIN slots, m <= k, NEW r \in I
      PROVE  Right(k, Right(m, r)) = Right(k, r)
  <2>1. LongEnough(slots, order[k], rqt) \subseteq LongEnough(slots, order[m], rqt)
    <3>1. /\ slots[order[m]].b \in Nat /\ slots[order[k]].b \in Nat
          /\ \A i \in DOMAIN slots : slots[i].e \in Nat
      BY OrderTypes, SlotTypes DEF Linked
    <3>2. slots[order[m]].b <= slots[order[k]].b
      BY <1>4, TimeGoesOn
    <3>3. rqt.walltime \in Nat
      BY DEF IsRequest
    <3> SUFFICES ASSUME NEW i \in DOMAIN slots, slots[i].e - slots[order[k]].b + 1 >= rqt.walltime
                 PROVE  slots[i].e - slots[order[m]].b + 1 >= rqt.walltime
      BY DEF LongEnough
    <3> DEFINE end == slots[i].e
               later == slots[order[k]].b
               earlier == slots[order[m]].b
               asked == rqt.walltime
    <3>4. /\ end \in Nat /\ later \in Nat /\ earlier \in Nat /\ asked \in Nat
          /\ earlier <= later /\ end - later + 1 >= asked
      BY <3>1, <3>2, <3>3
    <3> HIDE DEF end, later, earlier, asked
    <3>5. end - earlier + 1 >= asked
      BY <3>4
    <3> QED
      BY <3>5 DEF end, earlier, asked
  <2>2. CASE r = 0
    BY <1>2, <2>2
  <2>3. CASE r # 0
    <3>1. P(r) \in DOMAIN slots /\ order[P(r)] = r
      BY <1>1, <2>3, PosOfId
    <3>2. PICK q \in DOMAIN slots : order[q] = r
      BY <3>1
    <3>3. Follow(slots, Follow(slots, order[q], LongEnough(slots, order[m], rqt)),
                 LongEnough(slots, order[k], rqt))
            = Follow(slots, order[q], LongEnough(slots, order[k], rqt))
      <4>1. q \in DOMAIN slots
        BY <3>2
      <4> QED
        BY <2>1, <4>1, FollowTwice
    <3> QED
      BY <3>2, <3>3
  <2> QED
    BY <2>2, <2>3
<1>5. \A r : Stops(r) \in SUBSET Nat
  BY <1>1
<1>6. ASSUME NEW m \in DOMAIN slots, NEW r \in I
      PROVE  Found(m, r) = IF Right(m, r) = 0 THEN <<0, 0>>
                           ELSE IF Enough(m, Right(m, r)) THEN <<order[m], Right(m, r)>>
                           ELSE IF m = Len(slots) THEN <<0, 0>>
                           ELSE Found(m + 1, Right(m, r))
  <2>1. CASE m \in Stops(r)
    <3>1. Least(From(Stops(r), m)) = m /\ From(Stops(r), m) # {}
      <4>1. m \in Nat
        BY <1>1
      <4> HIDE DEF Stops
      <4> QED
        BY <1>5, <2>1, <4>1, LeastFrom
    <3> QED
      BY <2>1, <3>1
  <2>2. CASE m \notin Stops(r)
    <3>1. From(Stops(r), m) = From(Stops(r), m + 1)
      <4>1. m \in Nat
        BY <1>1
      <4> HIDE DEF Stops
      <4> QED
        BY <1>5, <2>2, <4>1, LeastFrom
    <3>2. Right(m, r) # 0 /\ ~ Enough(m, Right(m, r))
      BY <2>2
    <3>3. CASE m = Len(slots)
      <4>1. From(Stops(r), m + 1) = {}
        BY <1>1, <3>3 DEF From
      <4> QED
        BY <3>1, <3>2, <3>3, <4>1
    <3>4. CASE m # Len(slots)
      <4>1. \A k \in DOMAIN slots : m + 1 <= k => Right(k, Right(m, r)) = Right(k, r)
        <5>1. \A k \in DOMAIN slots : m + 1 <= k => m <= k
          BY <1>1
        <5> HIDE DEF Right
        <5> QED
          BY <1>4, <5>1
      <4>2. From(Stops(r), m + 1) = From(Stops(Right(m, r)), m + 1)
        BY <4>1 DEF From
      <4>3. ASSUME From(Stops(r), m + 1) # {}
            PROVE  Right(Least(From(Stops(r), m + 1)), r)
                     = Right(Least(From(Stops(r), m + 1)), Right(m, r))
        <5> DEFINE k == Least(From(Stops(r), m + 1))
        <5>1. k \in From(Stops(r), m + 1)
          <6>1. m + 1 \in Nat
            BY <1>1
          <6> HIDE DEF Stops
          <6> QED
            BY <1>5, <4>3, <6>1, LeastFrom
        <5>2. k \in DOMAIN slots /\ m + 1 <= k
          BY <5>1 DEF From
        <5> QED
          BY <4>1, <5>2
      <4>4. Found(m + 1, r) = Found(m + 1, Right(m, r))
        <5> HIDE DEF Right, Stops
        <5> QED
          BY <4>2, <4>3
      <4>5. Found(m, r) = Found(m + 1, r)
        BY <3>1
      <4> HIDE DEF Found, Right, Enough, Stops
      <4> QED
        BY <3>2, <3>4, <4>4, <4>5
    <3> QED
      BY <3>3, <3>4
  <2> QED
    BY <2>1, <2>2
<1>7. ASSUME NEW at \in I \X I
      PROVE  G[at] = IF at[1] = 0 THEN <<0, 0>>
                     ELSE LET right == Follow(slots, at[2], LongEnough(slots, at[1], rqt))
                          IN  IF right = 0 THEN <<0, 0>>
                              ELSE IF Solutions(Available(slots, at[1], right), rqt) # {}
                                   THEN <<at[1], right>>
                              ELSE G[<<slots[at[1]].next, right>>]
  <2> DEFINE l == at[1]
             r == at[2]
             m == P(l)
  <2>1. l \in I /\ r \in I
    OBVIOUS
  <2>2. CASE l = 0
    BY <2>2
  <2>3. CASE l # 0
    <3>1. m \in DOMAIN slots /\ order[m] = l
      BY <1>1, <2>1, <2>3, PosOfId
    <3>2. Right(m, r) = Follow(slots, r, LongEnough(slots, l, rqt)) /\ Right(m, r) \in I
      BY <1>3, <2>1, <3>1
    <3>3. Enough(m, Right(m, r)) <=> Solutions(Available(slots, l, Right(m, r)), rqt) # {}
      BY <3>1
    <3>4. Found(m, r) = IF Right(m, r) = 0 THEN <<0, 0>>
                        ELSE IF Enough(m, Right(m, r)) THEN <<l, Right(m, r)>>
                        ELSE IF m = Len(slots) THEN <<0, 0>>
                        ELSE Found(m + 1, Right(m, r))
      <4> HIDE DEF Found, Right, Enough
      <4> QED
        BY <1>6, <2>1, <3>1
    <3>5. G[at] = Found(m, r)
      BY <2>3
    <3>6. (IF m = Len(slots) THEN <<0, 0>> ELSE Found(m + 1, Right(m, r)))
            = G[<<slots[l].next, Right(m, r)>>]
      <4>1. CASE m = Len(slots)
        <5>1. slots[l].next = 0
          BY <3>1, <4>1, NextInOrder
        <5>2. <<0, Right(m, r)>> \in I \X I
          BY <1>1, <3>2
        <5>3. G[<<0, Right(m, r)>>] = <<0, 0>>
          BY <5>2, SMTT(30)
        <5> QED
          BY <4>1, <5>1, <5>3, ZenonT(30)
      <4>2. CASE m # Len(slots)
        <5>1. m + 1 \in DOMAIN slots /\ slots[l].next = order[m + 1]
          BY <3>1, <4>2, NextInOrder
        <5>2. P(order[m + 1]) = m + 1
          BY <5>1, PosOfId
        <5>3. <<order[m + 1], Right(m, r)>> \in I \X I /\ order[m + 1] # 0
          BY <1>1, <3>2, <5>1
        <5>4. G[<<order[m + 1], Right(m, r)>>] = Found(m + 1, Right(m, r))
          <6> HIDE DEF P, Found, Right
          <6> QED
            BY <5>2, <5>3
        <5> QED
          BY <4>2, <5>1, <5>4, ZenonT(30)
      <4> QED
        BY <4>1, <4>2, ZenonT(30)
    <3> HIDE DEF G, Found, Right, Enough, m
    <3> QED
      BY <2>3, <3>2, <3>3, <3>4, <3>5, <3>6
  <2> QED
    BY <2>2, <2>3
<1>8. G = [at \in I \X I |->
             IF at[1] = 0 THEN <<0, 0>>
             ELSE LET right == Follow(slots, at[2], LongEnough(slots, at[1], rqt))
                  IN  IF right = 0 THEN <<0, 0>>
                      ELSE IF Solutions(Available(slots, at[1], right), rqt) # {}
                           THEN <<at[1], right>>
                      ELSE G[<<slots[at[1]].next, right>>]]
  <2>1. DOMAIN G = I \X I /\ G = [at \in I \X I |-> G[at]]
    OBVIOUS
  <2> HIDE DEF G
  <2> QED
    BY <1>7, <2>1
<1>9. F = [at \in I \X I |->
             IF at[1] = 0 THEN <<0, 0>>
             ELSE LET right == Follow(slots, at[2], LongEnough(slots, at[1], rqt))
                  IN  IF right = 0 THEN <<0, 0>>
                      ELSE IF Solutions(Available(slots, at[1], right), rqt) # {}
                           THEN <<at[1], right>>
                      ELSE F[<<slots[at[1]].next, right>>]]
  <2> HIDE DEF G
  <2> QED
    BY <1>8
<1>10. \A i : FindFrom(slots, i, rqt) = F[<<i, i>>]
  BY DEF FindFrom, LongEnough
<1> HIDE DEF F, G
<1>11. \A r \in I : F[<<0, r>>] = <<0, 0>>
  <2> SUFFICES ASSUME NEW r \in I
               PROVE  F[<<0, r>>] = <<0, 0>>
    OBVIOUS
  <2>1. <<0, r>> \in I \X I /\ <<0, r>>[1] = 0
    BY <1>1
  <2> QED
    BY <1>9, <2>1
<1> DEFINE S == {m \in DOMAIN slots : \A r \in I : F[<<order[m], r>>] = Found(m, r)}
<1>12. ASSUME NEW m \in 1..Len(slots), m = Len(slots) \/ m + 1 \in S
       PROVE  m \in S
  <2> SUFFICES ASSUME NEW r \in I
               PROVE  F[<<order[m], r>>] = Found(m, r)
    BY <1>1
  <2>1. m \in DOMAIN slots /\ order[m] \in I /\ order[m] # 0
    BY <1>1
  <2>2. Right(m, r) \in I
    BY <1>3
  <2>3. F[<<order[m], r>>] = IF Right(m, r) = 0 THEN <<0, 0>>
                             ELSE IF Enough(m, Right(m, r)) THEN <<order[m], Right(m, r)>>
                             ELSE F[<<slots[order[m]].next, Right(m, r)>>]
    <3>1. <<order[m], r>> \in I \X I /\ <<order[m], r>>[1] = order[m] /\ <<order[m], r>>[2] = r
      BY <2>1
    <3> QED
      BY <1>9, <2>1, <3>1
  <2>4. Found(m, r) = IF Right(m, r) = 0 THEN <<0, 0>>
                      ELSE IF Enough(m, Right(m, r)) THEN <<order[m], Right(m, r)>>
                      ELSE IF m = Len(slots) THEN <<0, 0>>
                      ELSE Found(m + 1, Right(m, r))
    <3> HIDE DEF Found, Right, Enough
    <3> QED
      BY <1>6, <2>1
  <2>5. CASE m = Len(slots)
    <3>1. slots[order[m]].next = 0
      BY <2>1, <2>5, NextInOrder
    <3> HIDE DEF Found, Right, Enough
    <3> QED
      BY <1>11, <2>2, <2>3, <2>4, <2>5, <3>1
  <2>6. CASE m # Len(slots)
    <3>1. slots[order[m]].next = order[m + 1]
      BY <2>1, <2>6, NextInOrder
    <3>2. F[<<order[m + 1], Right(m, r)>>] = Found(m + 1, Right(m, r))
      <4> HIDE DEF Found, Right
      <4> QED
        BY <1>12, <2>2, <2>6
    <3> HIDE DEF Found, Right, Enough
    <3> QED
      BY <2>3, <2>4, <2>6, <3>1, <3>2
  <2> QED
    BY <2>5, <2>6
<1>13. DOMAIN slots \subseteq S
  <2> HIDE DEF S
  <2> QED
    BY <1>1, <1>12, Backwards
<1>14. FindFrom(slots, 0, rqt) = <<0, 0>>
  <2>1. 0 \in I
    BY <1>1
  <2>2. F[<<0, 0>>] = <<0, 0>>
    BY <1>11, <2>1
  <2> QED
    BY <1>10, <2>2
<1> DEFINE r == order[p]
<1>15. r \in I /\ p \in Nat
  BY <1>1
<1>16. FindFrom(slots, order[p], rqt) = Found(p, r)
  <2> HIDE DEF Found
  <2> QED
    BY <1>10, <1>13, <1>15
<1>17. ASSUME NEW k \in DOMAIN slots, p <= k
       PROVE  \/ Right(k, r) = 0 /\ \A n \in DOMAIN slots : ~ Reaches(slots, order, k, n, rqt)
              \/ \E n \in DOMAIN slots :
                   Right(k, r) = order[n] /\ Reaches(slots, order, k, n, rqt)
  BY <1>17, LongFinds
<1>18. ASSUME NEW k \in DOMAIN slots, p <= k, k \notin Stops(r)
       PROVE  ~ Fits(slots, order, k, rqt)
  <2>1. Right(k, r) # 0 /\ ~ Enough(k, Right(k, r))
    BY <1>18
  <2>2. PICK n \in DOMAIN slots : Right(k, r) = order[n] /\ Reaches(slots, order, k, n, rqt)
    BY <1>17, <1>18, <2>1
  <2>3. \A l \in DOMAIN slots : Reaches(slots, order, k, l, rqt) => l = n
    BY <2>2, ReachesOnce
  <2> QED
    BY <2>1, <2>2, <2>3 DEF Fits
<1> DEFINE W == From(Stops(r), p)
<1>19. CASE W = {}
  <2>1. \A k \in DOMAIN slots : p <= k => k \notin Stops(r)
    BY <1>19 DEF From
  <2>2. FindFrom(slots, order[p], rqt) = <<0, 0>>
    BY <1>16, <1>19
  <2> HIDE DEF Stops
  <2> QED
    BY <1>14, <1>18, <2>1, <2>2
<1>20. ASSUME W # {}
       PROVE  /\ Least(W) \in DOMAIN slots /\ p <= Least(W) /\ Least(W) \in Stops(r)
              /\ \A k \in DOMAIN slots : p <= k /\ k < Least(W) => ~ Fits(slots, order, k, rqt)
  <2>1. Least(W) \in W /\ \A k \in W : Least(W) <= k
    <3> HIDE DEF Stops
    <3> QED
      BY <1>5, <1>15, <1>20, LeastFrom
  <2>2. Least(W) \in DOMAIN slots /\ p <= Least(W) /\ Least(W) \in Stops(r)
    BY <2>1 DEF From
  <2>3. ASSUME NEW k \in DOMAIN slots, p <= k, k < Least(W)
        PROVE  k \notin Stops(r)
    <3>1. k \in W => Least(W) <= k
      BY <2>1
    <3>2. k \in Nat /\ Least(W) \in Nat
      BY <1>1, <2>2
    <3>3. k \notin W
      BY <2>3, <3>1, <3>2
    <3> QED
      BY <2>3, <3>3 DEF From
  <2> HIDE DEF Stops, W
  <2> QED
    BY <1>18, <2>2, <2>3
<1>21. CASE W # {} /\ Right(Least(W), r) = 0
  <2>1. \A n \in DOMAIN slots : ~ Reaches(slots, order, Least(W), n, rqt)
    <3>1. \A n \in DOMAIN slots : order[n] # 0
      BY <1>1
    <3> HIDE DEF W, Right
    <3> QED
      BY <1>17, <1>20, <1>21, <3>1
  <2>2. ASSUME NEW k \in DOMAIN slots, Least(W) <= k
        PROVE  ~ Fits(slots, order, k, rqt)
    <3>1. \A n \in DOMAIN slots : ~ Reaches(slots, order, k, n, rqt)
      <4> HIDE DEF W
      <4> QED
        BY <1>20, <1>21, <2>1, <2>2, ReachesBefore
    <3> QED
      BY <3>1 DEF Fits
  <2>3. FindFrom(slots, order[p], rqt) = <<0, 0>>
    BY <1>16, <1>21
  <2>4. \A k \in DOMAIN slots : p <= k => ~ Fits(slots, order, k, rqt)
    <3>1. \A k \in DOMAIN slots : k < Least(W) \/ Least(W) <= k
      <4>1. Least(W) \in Nat
        BY <1>1, <1>20, <1>21
      <4> HIDE DEF W
      <4> QED
        BY <1>1, <4>1
    <3> HIDE DEF W
    <3> QED
      BY <1>20, <1>21, <2>2, <3>1
  <2> QED
    BY <1>14, <2>3, <2>4
<1>22. CASE W # {} /\ Right(Least(W), r) # 0
  <2> DEFINE m == Least(W)
  <2>1. m \in DOMAIN slots /\ p <= m /\ m \in Stops(r)
    BY <1>20, <1>22
  <2>2. PICK n \in DOMAIN slots : Right(m, r) = order[n] /\ Reaches(slots, order, m, n, rqt)
    BY <1>17, <1>22, <2>1
  <2>3. FindFrom(slots, order[p], rqt) = <<order[m], order[n]>>
    BY <1>16, <1>22, <2>2
  <2>4. Solutions(Available(slots, order[m], order[n]), rqt) # {}
    BY <1>22, <2>1, <2>2
  <2> HIDE DEF W
  <2> QED
    BY <1>14, <1>20, <1>22, <2>1, <2>2, <2>3, <2>4
<1> QED
  BY <1>19, <1>21, <1>22

-----------------------------------------------------------------------------
(* The split of the slots that a job takes *)

(* max and min of two dates *)
LEMMA MaxOfTwo ==
  ASSUME NEW x \in Int, NEW y \in Int
  PROVE  Max({x, y}) = IF x >= y THEN x ELSE y
  BY DEF Max

(* The second of them *)
LEMMA MinOfTwo ==
  ASSUME NEW x \in Int, NEW y \in Int
  PROVE  Min({x, y}) = IF x <= y THEN x ELSE y
  BY DEF Min

(* What split_slots works on *)
State(cur, at) == [slots |-> cur, at |-> at]

(* The slots of it *)
LEMMA StateParts ==
  ASSUME NEW cur, NEW at
  PROVE  State(cur, at).slots = cur
  BY DEF State

(* A slot loses resources, or is cut at the end of a job *)
Taken(cur, sid, res) == [cur EXCEPT ![sid].itvs = @ \ res]

(* C of split_slots, and B before it with the old id *)
CutAfter(cur, sid, job) ==
  [i \in 1..(Len(cur) + 1) |->
     IF i = Len(cur) + 1 THEN [cur[sid] EXCEPT !.b = End(job)]
     ELSE IF i = sid
     THEN [next |-> Len(cur) + 1, b |-> cur[sid].b, e |-> End(job) - 1,
           itvs |-> cur[sid].itvs \ job.res]
     ELSE cur[i]]

(* A slot that is in the time of the job loses its resources *)
LEMMA SlotIsTaken ==
  ASSUME NEW cur \in Seq(Slot), NEW sid \in DOMAIN cur, NEW job, NEW at,
         job.start \in Nat, job.walltime \in Nat,
         job.start <= cur[sid].b, cur[sid].e < End(job)
  PROVE  SplitSlot(State(cur, at), sid, job, TRUE)
           = State(Taken(cur, sid, job.res), at)
<1>1. cur[sid] \in Slot /\ cur[sid].b \in Nat /\ cur[sid].e \in Nat
  BY SlotTypes
<1>2. End(job) \in Nat
  BY DEF End
<1>3. ~ (job.start > cur[sid].b) /\ ~ (End(job) <= cur[sid].e)
  BY <1>1, <1>2
<1>4. Max({cur[sid].b, job.start}) = cur[sid].b
  BY <1>1, MaxOfTwo
<1>5. Min({cur[sid].e, End(job) - 1}) = cur[sid].e
  BY <1>1, <1>2, MinOfTwo
<1>6. SlotDuringJob(cur, sid, job, TRUE)
        = [cur EXCEPT ![sid].itvs = @ \ job.res]
  <2> DEFINE d == [cur EXCEPT ![sid].b = Max({@, job.start}),
                              ![sid].e = Min({@, End(job) - 1}),
                              ![sid].itvs = @ \ job.res]
             f == [cur EXCEPT ![sid].itvs = @ \ job.res]
  <2>1. d[sid] = [next |-> cur[sid].next, b |-> cur[sid].b, e |-> cur[sid].e,
                  itvs |-> cur[sid].itvs \ job.res]
    BY <1>1, <1>4, <1>5 DEF Slot
  <2>2. f[sid] = [next |-> cur[sid].next, b |-> cur[sid].b, e |-> cur[sid].e,
                  itvs |-> cur[sid].itvs \ job.res]
    BY <1>1 DEF Slot
  <2>3. d = f
    BY <2>1, <2>2
  <2> QED
    BY <2>3 DEF SlotDuringJob
<1> DEFINE st == [slots |-> cur, at |-> at]
<1>7. st = [slots |-> cur, at |-> at] /\ st.slots = cur
  OBVIOUS
<1> DEFINE x == [cur EXCEPT ![sid].itvs = @ \ job.res]
<1>a. SlotDuringJob(cur, sid, job, TRUE) = x
  BY <1>6
<1> HIDE DEF st, x
<1>8. SplitSlot(st, sid, job, TRUE)
        = [st EXCEPT !.slots = SlotDuringJob(cur, sid, job, TRUE),
                     !.at = IF @ = sid THEN sid ELSE @]
  BY <1>3, <1>7 DEF SplitSlot
<1>9. SplitSlot(st, sid, job, TRUE) = [slots |-> x, at |-> at]
  BY <1>7, <1>8, <1>a
<1> QED
  BY <1>9 DEF st, x, Taken, State

(* A slot that lasts longer than the job is cut *)
LEMMA SlotIsCut ==
  ASSUME NEW cur \in Seq(Slot), NEW sid \in DOMAIN cur, NEW job, NEW at,
         job.start \in Nat, job.walltime \in Nat \ {0},
         job.start <= cur[sid].b, End(job) <= cur[sid].e
  PROVE  SplitSlot(State(cur, at), sid, job, TRUE)
           = State(CutAfter(cur, sid, job), at)
<1>1. cur[sid] \in Slot /\ cur[sid].b \in Nat /\ cur[sid].e \in Nat
  BY SlotTypes
<1>2. End(job) \in Nat
  BY DEF End
<1>a. Len(cur) \in Nat /\ DOMAIN cur = 1..Len(cur)
  OBVIOUS
<1>3. ~ (job.start > cur[sid].b)
  BY <1>1
<1>4. Max({cur[sid].b, job.start}) = cur[sid].b
  BY <1>1, MaxOfTwo
<1>5. Min({cur[sid].e, End(job) - 1}) = End(job) - 1
  BY <1>1, <1>2, MinOfTwo
<1> DEFINE N == Len(cur) + 1
           c == [cur EXCEPT ![sid].next = N]
           x == [cur[sid] EXCEPT !.b = End(job)]
           a == Append(c, x)
           f == [i \in 1..N |-> IF i = N THEN x
                                ELSE IF i = sid
                                THEN [next |-> N, b |-> cur[sid].b, e |-> End(job) - 1,
                                      itvs |-> cur[sid].itvs \ job.res]
                                ELSE cur[i]]
           d == [a EXCEPT ![sid].b = Max({@, job.start}),
                          ![sid].e = Min({@, End(job) - 1}),
                          ![sid].itvs = @ \ job.res]
<1>6. SlotAfterJob(cur, sid, job) = a
  BY DEF SlotAfterJob
<1>7. /\ c[sid] = [next |-> N, b |-> cur[sid].b, e |-> cur[sid].e, itvs |-> cur[sid].itvs]
      /\ c \in Seq(Slot) /\ Len(c) = Len(cur) /\ DOMAIN c = DOMAIN cur
      /\ \A i \in DOMAIN cur : i # sid => c[i] = cur[i]
  <2> DEFINE y == [cur[sid] EXCEPT !.next = N]
  <2>1. y = [next |-> N, b |-> cur[sid].b, e |-> cur[sid].e, itvs |-> cur[sid].itvs] /\ y \in Slot
    <3>1. N \in Nat
      BY <1>a
    <3>2. /\ cur[sid].b \in Nat /\ cur[sid].e \in Nat /\ cur[sid].itvs \subseteq Resources
          /\ cur[sid] = [next |-> cur[sid].next, b |-> cur[sid].b, e |-> cur[sid].e,
                          itvs |-> cur[sid].itvs]
      BY <1>1 DEF Slot
    <3> HIDE DEF N
    <3>3. y = [next |-> N, b |-> cur[sid].b, e |-> cur[sid].e, itvs |-> cur[sid].itvs]
      BY <3>2
    <3>4. [next |-> N, b |-> cur[sid].b, e |-> cur[sid].e, itvs |-> cur[sid].itvs] \in Slot
      BY <3>1, <3>2 DEF Slot
    <3> QED
      BY <3>3, <3>4
  <2>2. c = [cur EXCEPT ![sid] = y]
    OBVIOUS
  <2> HIDE DEF y
  <2>3. c[sid] = y /\ DOMAIN c = DOMAIN cur /\ \A i \in DOMAIN cur : i # sid => c[i] = cur[i]
    BY <2>2
  <2>4. c \in Seq(Slot) /\ Len(c) = Len(cur)
    BY <2>1, <2>2
  <2> HIDE DEF c
  <2> QED
    BY <2>1, <2>3, <2>4
<1>8. DOMAIN a = 1..N /\ a[N] = x /\ \A i \in DOMAIN cur : a[i] = c[i]
  <2>1. c \in Seq(Slot) /\ Len(c) = Len(cur)
    BY <1>7
  <2> HIDE DEF c, x
  <2>2. DOMAIN Append(c, x) = 1..(Len(c) + 1) /\ Append(c, x)[Len(c) + 1] = x
        /\ \A i \in 1..Len(c) : Append(c, x)[i] = c[i]
    BY <2>1, AppendProperties, SeqMonotonic
  <2> QED
    BY <2>1, <2>2, <1>a
<1>9. sid \in 1..N /\ sid # N /\ \A i \in 1..N : i # N => i \in DOMAIN cur
  BY <1>a
<1>10. a[sid] = [next |-> N, b |-> cur[sid].b, e |-> cur[sid].e, itvs |-> cur[sid].itvs]
  BY <1>7, <1>8
<1>11. d[sid] = [next |-> N, b |-> cur[sid].b, e |-> End(job) - 1,
                 itvs |-> cur[sid].itvs \ job.res]
  <2> HIDE DEF a
  <2> QED
    BY <1>4, <1>5, <1>8, <1>9, <1>10, ZenonT(30)
<1>12. DOMAIN d = 1..N /\ \A i \in 1..N : i # sid => d[i] = a[i]
  <2> HIDE DEF a
  <2> QED
    BY <1>8
<1>13. d = f
  <2>1. d = [i \in 1..N |-> d[i]]
    <3>1. DOMAIN d = 1..N /\ d = [i \in DOMAIN d |-> d[i]]
      BY <1>12
    <3> HIDE DEF d
    <3> QED
      BY <3>1
  <2>2. ASSUME NEW i \in 1..N
        PROVE  d[i] = f[i]
    <3>1. CASE i = N
      <4>1. d[N] = x
        <5> HIDE DEF d, a, x, N
        <5> QED
          BY <1>8, <1>9, <1>12, <3>1
      <4> QED
        BY <3>1, <4>1
    <3>2. CASE i = sid
      <4> HIDE DEF d
      <4> QED
        BY <1>9, <1>11, <3>2
    <3>3. CASE i # N /\ i # sid
      <4>1. d[i] = cur[i]
        <5> HIDE DEF d, a, c
        <5> QED
          BY <1>7, <1>8, <1>9, <1>12, <3>3
      <4> HIDE DEF d
      <4> QED
        BY <3>3, <4>1
    <3> QED
      BY <3>1, <3>2, <3>3
  <2> HIDE DEF d
  <2>3. f = [i \in 1..N |-> f[i]]
    OBVIOUS
  <2> HIDE DEF f
  <2> QED
    BY <2>1, <2>2, <2>3
<1>14. SlotDuringJob(a, sid, job, TRUE) = d
  BY DEF SlotDuringJob
<1>15. SplitSlot(State(cur, at), sid, job, TRUE) = State(d, at)
  <2> DEFINE st == [slots |-> cur, at |-> at]
  <2>1. st = [slots |-> cur, at |-> at] /\ st.slots = cur
    OBVIOUS
  <2> HIDE DEF a, d, st
  <2>2. SplitSlot(st, sid, job, TRUE)
          = [st EXCEPT !.slots = SlotDuringJob(SlotAfterJob(cur, sid, job), sid, job, TRUE),
                       !.at = IF @ = sid THEN sid ELSE @]
    BY <1>3, <2>1 DEF SplitSlot
  <2>3. SlotDuringJob(SlotAfterJob(cur, sid, job), sid, job, TRUE) = d
    BY <1>6, <1>14
  <2>4. SplitSlot(st, sid, job, TRUE) = [slots |-> d, at |-> at]
    BY <2>1, <2>2, <2>3
  <2> QED
    BY <2>4 DEF st, State
<1>16. f = CutAfter(cur, sid, job)
  BY DEF CutAfter
<1> HIDE DEF d, f
<1> QED
  BY <1>13, <1>15, <1>16

(* The slots when those from position m to position n have lost resources *)
Lost(slots, order, m, n, res) ==
  [i \in DOMAIN slots |->
     IF \E k \in m..n : order[k] = i THEN [slots[i] EXCEPT !.itvs = @ \ res] ELSE slots[i]]

(* The list stays as it is, but for the resources *)
LEMMA LostTypes ==
  ASSUME NEW slots, NEW order, NEW b, NEW e, Linked(slots, order, b, e), NEW m, NEW n, NEW res
  PROVE  /\ Lost(slots, order, m, n, res) \in Seq(Slot)
         /\ Len(Lost(slots, order, m, n, res)) = Len(slots)
         /\ DOMAIN Lost(slots, order, m, n, res) = DOMAIN slots
         /\ \A i \in DOMAIN slots :
              /\ Lost(slots, order, m, n, res)[i].next = slots[i].next
              /\ Lost(slots, order, m, n, res)[i].b = slots[i].b
              /\ Lost(slots, order, m, n, res)[i].e = slots[i].e
              /\ (\E k \in m..n : order[k] = i)
                   => Lost(slots, order, m, n, res)[i].itvs = slots[i].itvs \ res
              /\ ~ (\E k \in m..n : order[k] = i)
                   => Lost(slots, order, m, n, res)[i] = slots[i]
<1> DEFINE L == Lost(slots, order, m, n, res)
<1>1. slots \in Seq(Slot) /\ Len(slots) \in Nat /\ DOMAIN slots = 1..Len(slots)
  BY DEF Linked
<1>2. ASSUME NEW i \in DOMAIN slots
      PROVE  /\ slots[i] \in Slot
             /\ [slots[i] EXCEPT !.itvs = @ \ res]
                  = [next |-> slots[i].next, b |-> slots[i].b, e |-> slots[i].e,
                     itvs |-> slots[i].itvs \ res]
             /\ [slots[i] EXCEPT !.itvs = @ \ res] \in Slot
  <2>1. slots[i] \in Slot
    BY <1>1
  <2> QED
    BY <2>1 DEF Slot
<1>3. \A i \in DOMAIN slots :
        L[i] = IF \E k \in m..n : order[k] = i THEN [slots[i] EXCEPT !.itvs = @ \ res]
               ELSE slots[i]
  BY DEF Lost
<1>4. DOMAIN L = 1..Len(slots)
  BY <1>1 DEF Lost
<1> HIDE DEF L
<1>5. \A i \in 1..Len(slots) : L[i] \in Slot
  BY <1>1, <1>2, <1>3
<1>6. L = [i \in 1..Len(slots) |-> L[i]]
  <2>1. L = [i \in DOMAIN slots |-> L[i]]
    BY DEF L, Lost
  <2> QED
    BY <1>1, <2>1
<1>7. L \in Seq(Slot) /\ Len(L) = Len(slots)
  BY <1>1, <1>5, <1>6, SeqDef, LenProperties
<1>8. \A i \in DOMAIN slots :
        /\ L[i].next = slots[i].next
        /\ L[i].b = slots[i].b
        /\ L[i].e = slots[i].e
        /\ (\E k \in m..n : order[k] = i) => L[i].itvs = slots[i].itvs \ res
        /\ ~ (\E k \in m..n : order[k] = i) => L[i] = slots[i]
  <2> SUFFICES ASSUME NEW i \in DOMAIN slots
               PROVE  /\ L[i].next = slots[i].next
                      /\ L[i].b = slots[i].b
                      /\ L[i].e = slots[i].e
                      /\ (\E k \in m..n : order[k] = i) => L[i].itvs = slots[i].itvs \ res
                      /\ ~ (\E k \in m..n : order[k] = i) => L[i] = slots[i]
    OBVIOUS
  <2>1. CASE \E k \in m..n : order[k] = i
    <3>1. L[i] = [next |-> slots[i].next, b |-> slots[i].b, e |-> slots[i].e,
                  itvs |-> slots[i].itvs \ res]
      BY <1>2, <1>3, <2>1
    <3> QED
      BY <2>1, <3>1
  <2>2. CASE ~ \E k \in m..n : order[k] = i
    BY <1>3, <2>2
  <2> QED
    BY <2>1, <2>2
<1> QED
  BY <1>1, <1>4, <1>7, <1>8 DEF L

(* One more slot loses the resources *)
LEMMA LostStep ==
  ASSUME NEW slots, NEW order, NEW b, NEW e, Linked(slots, order, b, e), NEW res,
         NEW m \in DOMAIN slots, NEW n \in DOMAIN slots, m <= n, NEW before, before = n - 1
  PROVE  /\ Lost(slots, order, m, before, res)[order[n]] = slots[order[n]]
         /\ Taken(Lost(slots, order, m, before, res), order[n], res) = Lost(slots, order, m, n, res)
         /\ m = n => Lost(slots, order, m, before, res) = slots
<1>1. /\ DOMAIN slots = 1..Len(slots) /\ Len(slots) \in Nat
      /\ \A k \in DOMAIN slots : order[k] \in DOMAIN slots
  BY OrderTypes
<1>2. \A k, l \in DOMAIN slots : order[k] = order[l] => k = l
  BY DEF Linked, InOrder
<1>3. ~ \E k \in m..(n - 1) : order[k] = order[n]
  <2>1. ASSUME NEW k \in m..(n - 1)
        PROVE  k \in DOMAIN slots /\ k # n
    BY <1>1
  <2> QED
    BY <1>2, <2>1
<1>4. Lost(slots, order, m, n - 1, res)[order[n]] = slots[order[n]]
  BY <1>1, <1>3, LostTypes
<1>5. ASSUME NEW i \in DOMAIN slots
      PROVE  (\E k \in m..n : order[k] = i)
               <=> (i = order[n] \/ \E k \in m..(n - 1) : order[k] = i)
  <2>1. \A k : k \in m..n <=> (k = n \/ k \in m..(n - 1))
    BY <1>1
  <2> QED
    BY <2>1
<1>6. [Lost(slots, order, m, n - 1, res) EXCEPT ![order[n]].itvs = @ \ res]
        = Lost(slots, order, m, n, res)
  <2> DEFINE L == Lost(slots, order, m, n - 1, res)
             M == [L EXCEPT ![order[n]].itvs = @ \ res]
  <2>1. DOMAIN L = DOMAIN slots /\ L[order[n]] = slots[order[n]]
    BY <1>4, LostTypes
  <2>2. \A i \in DOMAIN slots :
          L[i] = IF \E k \in m..(n - 1) : order[k] = i THEN [slots[i] EXCEPT !.itvs = @ \ res]
                 ELSE slots[i]
    BY DEF Lost
  <2> HIDE DEF L
  <2>3. DOMAIN M = DOMAIN slots /\ \A i \in DOMAIN slots :
          M[i] = IF i = order[n] THEN [slots[i] EXCEPT !.itvs = @ \ res] ELSE L[i]
    BY <2>1
  <2>4. M = [i \in DOMAIN slots |-> M[i]]
    <3>1. M = [i \in DOMAIN M |-> M[i]]
      BY <2>1
    <3> HIDE DEF M
    <3> QED
      BY <2>3, <3>1
  <2> HIDE DEF M
  <2>5. \A i \in DOMAIN slots :
          M[i] = IF \E k \in m..n : order[k] = i THEN [slots[i] EXCEPT !.itvs = @ \ res]
                 ELSE slots[i]
    BY <1>5, <2>2, <2>3
  <2>6. M = Lost(slots, order, m, n, res)
    BY <2>4, <2>5 DEF Lost
  <2> QED
    BY <2>6 DEF M, L
<1>7. ASSUME m = n
      PROVE  Lost(slots, order, m, before, res) = slots
  <2>1. \A k \in m..before : FALSE
    BY <1>1, <1>7
  <2>2. Lost(slots, order, m, before, res) = [i \in DOMAIN slots |-> slots[i]]
    BY <2>1 DEF Lost
  <2>3. slots = [i \in DOMAIN slots |-> slots[i]]
    BY DEF Linked
  <2> QED
    BY <2>2, <2>3
<1> QED
  BY <1>4, <1>6, <1>7 DEF Taken

(* The slots when the last of those that the job takes is cut after it *)
Cut(slots, order, m, n, job) ==
  [i \in 1..(Len(slots) + 1) |->
     IF i = Len(slots) + 1 THEN [slots[order[n]] EXCEPT !.b = End(job)]
     ELSE IF i = order[n]
     THEN [next |-> Len(slots) + 1, b |-> slots[i].b, e |-> End(job) - 1,
           itvs |-> slots[i].itvs \ job.res]
     ELSE Lost(slots, order, m, n - 1, job.res)[i]]

(* A job that begins with the slot at position m and ends in the one at n *)
IsJobAt(slots, order, m, n, job) ==
  /\ m <= n
  /\ job.start = slots[order[m]].b /\ job.walltime \in Nat \ {0}
  /\ slots[order[n]].b <= End(job)
  /\ End(job) - 1 <= slots[order[n]].e

(* What split_slots makes of the list *)
(* What the list is after a job *)
Remains(slots, order, m, n, job) ==
  IF End(job) <= slots[order[n]].e THEN Cut(slots, order, m, n, job)
  ELSE Lost(slots, order, m, n, job.res)

(* What split_slots does to the slots and to the slot that is held *)
SplitsTo(slots, at, left, right, job, new, held) ==
  SplitSlots(State(slots, at), left, right, job, TRUE) = State(new, held)

(* The turns of its loop *)
Turns(turn, st, path, job) ==
  turn[0] = st /\ \A k \in 1..Len(path) : turn[k] = SplitSlot(turn[k - 1], path[k], job, TRUE)

(* Those that begin with a list, and what they come to *)
Splitting(turn, slots, at, path, job, new, held) ==
  /\ Turns(turn, State(slots, at), path, job)
  /\ \A k \in 0..Len(path) : \E cur, a : turn[k] = State(cur, a)
  /\ turn[Len(path)] = State(new, held)

(* These turns are those of split_slots *)
LEMMA SplitSlotsIs ==
  ASSUME NEW st, NEW left, NEW right, NEW job, Len(Path(st.slots, left, right)) \in Nat,
         NEW turn, Turns(turn, st, Path(st.slots, left, right), job)
  PROVE  SplitSlots(st, left, right, job, TRUE) = turn[Len(Path(st.slots, left, right))]
<1> DEFINE path == Path(st.slots, left, right)
           c == Len(path)
           G == [k \in 0..c |-> turn[k]]
           F == CHOOSE f : f = [k \in 0..Len(path) |->
                  IF k = 0 THEN st ELSE SplitSlot(f[k - 1], path[k], job, TRUE)]
<1>1. c \in Nat /\ c = Len(path)
  OBVIOUS
<1>2. SplitSlots(st, left, right, job, TRUE) = F[Len(path)]
  BY DEF SplitSlots
<1>3. Turns(turn, st, path, job)
  OBVIOUS
<1> HIDE DEF c, path
<1>4. ASSUME NEW k \in 0..c
      PROVE  G[k] = IF k = 0 THEN st ELSE SplitSlot(G[k - 1], path[k], job, TRUE)
  <2>1. CASE k = 0
    BY <1>1, <1>3, <2>1 DEF Turns
  <2>2. CASE k # 0
    <3>1. k \in 1..Len(path) /\ k - 1 \in 0..c
      BY <1>1, <2>2
    <3>2. turn[k] = SplitSlot(turn[k - 1], path[k], job, TRUE)
      BY <1>3, <3>1 DEF Turns
    <3>3. G[k] = turn[k] /\ G[k - 1] = turn[k - 1]
      BY <3>1
    <3> QED
      BY <2>2, <3>2, <3>3
  <2> QED
    BY <2>1, <2>2
<1>5. G = [k \in 0..Len(path) |-> IF k = 0 THEN st ELSE SplitSlot(G[k - 1], path[k], job, TRUE)]
  <2>1. DOMAIN G = 0..c /\ G = [k \in 0..c |-> G[k]]
    OBVIOUS
  <2> HIDE DEF G
  <2> QED
    BY <1>1, <1>4, <2>1
<1>6. F = [k \in 0..Len(path) |-> IF k = 0 THEN st ELSE SplitSlot(F[k - 1], path[k], job, TRUE)]
  <2> HIDE DEF G
  <2> QED
    BY <1>5
<1> HIDE DEF F, G
<1> DEFINE T == {k \in Nat : k <= c => F[k] = G[k]}
<1>7. 0 \in T
  <2>1. 0 \in 0..c
    BY <1>1
  <2> QED
    BY <1>1, <1>4, <1>6, <2>1
<1>8. ASSUME NEW k \in Nat, k \in T
      PROVE  k + 1 \in T
  <2> SUFFICES ASSUME k + 1 <= c
               PROVE  F[k + 1] = G[k + 1]
    OBVIOUS
  <2>1. k + 1 \in 0..c /\ k <= c /\ (k + 1) - 1 = k /\ k + 1 # 0
    BY <1>1
  <2>2. F[k] = G[k]
    BY <1>8, <2>1
  <2>3. G[k + 1] = SplitSlot(G[k], path[k + 1], job, TRUE)
    BY <1>4, <2>1
  <2>4. F[k + 1] = SplitSlot(F[k], path[k + 1], job, TRUE)
    BY <1>1, <1>6, <2>1
  <2> QED
    BY <2>2, <2>3, <2>4
<1>9. F[c] = G[c]
  <2>1. Nat \subseteq T
    <3> HIDE DEF T
    <3> QED
      BY <1>7, <1>8, SetInduction
  <2> QED
    BY <1>1, <2>1
<1>10. G[c] = turn[c]
  <2>1. c \in 0..c
    BY <1>1
  <2> QED
    BY <2>1 DEF G
<1>11. SplitSlots(st, left, right, job, TRUE) = turn[Len(path)]
  BY <1>1, <1>2, <1>9, <1>10
<1> QED
  BY <1>11 DEF path

(* A job that is given may have begun before the list *)
AsGiven(job, given) ==
  /\ given.start \in Nat /\ given.start <= job.start /\ given.walltime \in Nat \ {0}
  /\ End(given) = End(job) /\ given.res = job.res

(* The turns for a job at its place *)
LEMMA TurnsFor ==
  ASSUME NEW slots, NEW order, NEW b, NEW e, Linked(slots, order, b, e),
         NEW m \in DOMAIN slots, NEW n \in DOMAIN slots, NEW job,
         IsJobAt(slots, order, m, n, job), NEW given, AsGiven(job, given), NEW at
  PROVE  \E turn : Splitting(turn, slots, at, Ids(order, m, n), given,
                             Remains(slots, order, m, n, job), at)
<1> DEFINE c == n - m + 1
           st == State(slots, at)
           path == Ids(order, m, n)
           S(k) == State(Lost(slots, order, m, m + k - 1, job.res), at)
           End2 == SplitSlot(S(n - m), order[n], given, TRUE)
           G == [k \in 0..c |-> IF k = c THEN End2 ELSE S(k)]
<1>a. m <= n
  BY DEF IsJobAt
<1>b. slots[order[m]].b <= slots[order[n]].b
  BY <1>a, TimeGoesOn
<1>1. /\ DOMAIN slots = 1..Len(slots) /\ Len(slots) \in Nat /\ m <= n
      /\ \A k \in DOMAIN slots : /\ order[k] \in DOMAIN slots
                                 /\ slots[order[k]].b \in Nat /\ slots[order[k]].e \in Nat
      /\ job.start \in Nat /\ job.start = slots[order[m]].b /\ job.walltime \in Nat \ {0}
      /\ End(job) \in Nat
      /\ slots[order[n]].b <= End(job) /\ End(job) - 1 <= slots[order[n]].e
  <2>1. /\ DOMAIN slots = 1..Len(slots) /\ Len(slots) \in Nat
        /\ \A k \in DOMAIN slots : /\ order[k] \in DOMAIN slots
                                   /\ slots[order[k]].b \in Nat /\ slots[order[k]].e \in Nat
    BY OrderTypes
  <2>2. job.start \in Nat /\ job.start = slots[order[m]].b /\ job.walltime \in Nat \ {0}
    BY <2>1 DEF IsJobAt
  <2>3. End(job) \in Nat
    BY <2>2 DEF End
  <2>4. slots[order[n]].b <= End(job) /\ End(job) - 1 <= slots[order[n]].e
    BY DEF IsJobAt
  <2> QED
    BY <1>a, <2>1, <2>2, <2>3, <2>4
<1>c. /\ given.start \in Nat /\ given.start <= job.start /\ given.walltime \in Nat \ {0}
      /\ End(given) = End(job) /\ given.res = job.res
  BY DEF AsGiven
<1>2. Len(path) = c /\ \A k \in 1..c : path[k] = order[m + k - 1]
  <2>1. Len(Ids(order, m, n)) = c
    BY <1>a, IdsStep
  <2> QED
    BY <2>1 DEF Ids
<1>3. c \in Nat /\ c # 0 /\ c - 1 = n - m /\ m + c - 1 = n /\ n - m \in 0..c
  BY <1>1, SMTT(30)
<1>4. \A k \in 1..(n - m) : m + k - 1 \in DOMAIN slots /\ m + k - 1 < n /\ m <= m + k - 1
  BY <1>1, SMTT(30)
<1>5. ASSUME NEW k \in 1..(n - m)
      PROVE  SplitSlot(S(k - 1), order[m + k - 1], given, TRUE) = S(k)
  <2> DEFINE l == m + k - 1
             cur == Lost(slots, order, m, l - 1, job.res)
  <2>1. l \in DOMAIN slots /\ l < n /\ m <= l
    BY <1>4
  <2>2. cur \in Seq(Slot) /\ DOMAIN cur = DOMAIN slots /\ cur[order[l]] = slots[order[l]]
    <3> HIDE DEF l
    <3> QED
      <4>1. cur \in Seq(Slot) /\ DOMAIN cur = DOMAIN slots
        BY LostTypes
      <4> DEFINE before == l - 1
      <4>3. before = l - 1
        OBVIOUS
      <4> HIDE DEF before, l
      <4>4. Lost(slots, order, m, before, job.res)[order[l]] = slots[order[l]]
        BY <2>1, <4>3, LostStep
      <4>2. cur[order[l]] = slots[order[l]]
        BY <4>4 DEF before
      <4> QED
        BY <4>1, <4>2
  <2>3. given.start <= slots[order[l]].b /\ slots[order[l]].e < End(given)
    <3>1. slots[order[m]].b <= slots[order[l]].b
      BY <2>1, TimeGoesOn
    <3>2. slots[order[l]].e < slots[order[n]].b
      <4>1. l <= n
        BY <1>1, <2>1
      <4> HIDE DEF l
      <4> QED
        BY <2>1, <4>1, TimeGoesOn
    <3> HIDE DEF l
    <3> QED
      <4>1. /\ slots[order[l]].b \in Nat /\ slots[order[l]].e \in Nat
            /\ slots[order[m]].b \in Nat /\ slots[order[n]].b \in Nat
        BY <1>1, <2>1
      <4>2. /\ given.start \in Nat /\ given.start <= slots[order[m]].b
            /\ slots[order[n]].b <= End(given) /\ End(given) \in Nat
        BY <1>1, <1>c
      <4> QED
        BY <3>1, <3>2, <4>1, <4>2
  <2>4. SplitSlot(State(cur, at), order[l], given, TRUE)
          = State(Taken(cur, order[l], job.res), at)
    <3>1. given.start \in Nat /\ given.walltime \in Nat /\ order[l] \in DOMAIN slots
      BY <1>1, <1>c, <2>1
    <3>2. given.start <= cur[order[l]].b /\ cur[order[l]].e < End(given)
      BY <2>2, <2>3
    <3>3. cur \in Seq(Slot) /\ order[l] \in DOMAIN cur
      BY <2>2, <3>1
    <3> HIDE DEF l, cur
    <3> QED
      <4>1. SplitSlot(State(cur, at), order[l], given, TRUE)
              = State(Taken(cur, order[l], given.res), at)
        BY <3>1, <3>2, <3>3, SlotIsTaken
      <4> QED
        BY <1>c, <4>1
  <2>5. Taken(cur, order[l], job.res) = Lost(slots, order, m, l, job.res)
    <3> DEFINE before == l - 1
    <3>1. before = l - 1
      OBVIOUS
    <3> HIDE DEF before, l
    <3>2. Taken(Lost(slots, order, m, before, job.res), order[l], job.res)
            = Lost(slots, order, m, l, job.res)
      BY <2>1, <3>1, LostStep
    <3> QED
      BY <3>2 DEF before
  <2>6. m + (k - 1) - 1 = l - 1
    BY <1>1
  <2>7. S(k - 1) = State(cur, at)
    BY <2>6
  <2>8. S(k) = State(Lost(slots, order, m, l, job.res), at)
    OBVIOUS
  <2> HIDE DEF l, cur, S
  <2>9. SplitSlot(S(k - 1), order[l], given, TRUE) = S(k)
    BY <2>4, <2>5, <2>7, <2>8
  <2> QED
    BY <2>9 DEF l
<1>6. S(0) = st
  <2>1. m + 0 - 1 = m - 1
    BY <1>1
  <2>2. Lost(slots, order, m, m - 1, job.res) = slots
    <3> DEFINE before == m - 1
    <3>1. before = m - 1 /\ m <= m
      BY <1>1
    <3> HIDE DEF before
    <3>2. Lost(slots, order, m, before, job.res) = slots
      BY <3>1, LostStep
    <3> QED
      BY <3>2 DEF before
  <2> QED
    BY <2>1, <2>2
<1>7. ASSUME NEW k \in 0..c
      PROVE  G[k] = IF k = 0 THEN st ELSE SplitSlot(G[k - 1], path[k], given, TRUE)
  <2>1. CASE k = 0
    <3>1. G[0] = S(0)
      <4>1. 0 \in 0..c /\ 0 # c
        BY <1>3
      <4> HIDE DEF S, c, End2
      <4> QED
        BY <4>1
    <3> QED
      BY <1>6, <2>1, <3>1
  <2>2. CASE k = c
    <3>1. G[k - 1] = S(n - m) /\ k # 0
      <4>1. k - 1 = n - m /\ n - m \in 0..c /\ n - m # c
        BY <1>1, <1>3, <2>2
      <4> HIDE DEF S, End2, c
      <4> QED
        BY <1>3, <2>2, <4>1
    <3>2. path[k] = order[n] /\ G[k] = End2
      <4>1. k \in 1..c /\ m + k - 1 = n
        BY <1>1, <1>3, <2>2
      <4>2. path[k] = order[m + k - 1]
        <5> HIDE DEF path, c
        <5> QED
          BY <1>2, <4>1
      <4>3. path[k] = order[n]
        <5> HIDE DEF path, c, End2, G
        <5> QED
          BY <4>1, <4>2
      <4>4. c \in 0..c /\ k \in 0..c
        BY <1>1, <1>3
      <4>5. G[k] = End2
        <5> HIDE DEF path, c, End2
        <5> QED
          BY <2>2, <4>4
      <4> HIDE DEF path, c, End2, G
      <4> QED
        BY <4>3, <4>5
    <3> HIDE DEF G, S, path
    <3> QED
      BY <3>1, <3>2
  <2>3. CASE k # 0 /\ k # c
    <3>1. k \in 1..(n - m) /\ k - 1 \in 0..c /\ k - 1 # c /\ k \in 1..c
      BY <1>1, <1>3, <2>3, SMTT(30)
    <3>2. G[k] = S(k) /\ G[k - 1] = S(k - 1)
      <4> HIDE DEF S, c, End2
      <4> QED
        BY <2>3, <3>1
    <3>3. path[k] = order[m + k - 1]
      <4> HIDE DEF path, c
      <4> QED
        BY <1>2, <3>1
    <3>4. SplitSlot(S(k - 1), order[m + k - 1], given, TRUE) = S(k)
      BY <1>5, <3>1
    <3> HIDE DEF G, S, path
    <3> QED
      BY <2>3, <3>2, <3>3, <3>4
  <2> QED
    BY <2>1, <2>2, <2>3
<1>14. G[c] = End2
  <2>1. c \in 0..c
    BY <1>3
  <2> HIDE DEF c, End2, S
  <2> QED
    BY <2>1 DEF G
<1> DEFINE cur == Lost(slots, order, m, n - 1, job.res)
<1>15. cur \in Seq(Slot) /\ DOMAIN cur = DOMAIN slots /\ cur[order[n]] = slots[order[n]]
       /\ Len(cur) = Len(slots)
  <2>1. cur \in Seq(Slot) /\ DOMAIN cur = DOMAIN slots /\ Len(cur) = Len(slots)
    BY LostTypes
  <2> DEFINE before == n - 1
  <2>3. before = n - 1
    OBVIOUS
  <2> HIDE DEF before
  <2>4. Lost(slots, order, m, before, job.res)[order[n]] = slots[order[n]]
    BY <1>a, <2>3, LostStep
  <2>2. cur[order[n]] = slots[order[n]]
    BY <2>4 DEF before
  <2> QED
    BY <2>1, <2>2
<1>16. S(n - m) = State(cur, at)
  <2>1. m + (n - m) - 1 = n - 1
    BY <1>1
  <2> QED
    BY <2>1
<1>17. /\ cur \in Seq(Slot) /\ order[n] \in DOMAIN cur
       /\ given.start \in Nat /\ given.walltime \in Nat \ {0}
       /\ given.start <= cur[order[n]].b
  BY <1>1, <1>b, <1>c, <1>15, SMTT(30)
<1>d. \A f : CutAfter(f, order[n], given) = CutAfter(f, order[n], job)
  BY <1>c DEF CutAfter
<1>19. ASSUME End(job) <= slots[order[n]].e
       PROVE  End2 = State(Remains(slots, order, m, n, job), at)
  <2>1. SplitSlot(State(cur, at), order[n], given, TRUE)
          = State(CutAfter(cur, order[n], given), at)
    <3>1. End(given) <= cur[order[n]].e
      BY <1>c, <1>15, <1>19
    <3> HIDE DEF cur
    <3> QED
      BY <1>17, <3>1, SlotIsCut
  <2>2. End2 = State(CutAfter(cur, order[n], job), at)
    <3>1. SplitSlot(S(n - m), order[n], given, TRUE)
            = SplitSlot(State(cur, at), order[n], given, TRUE)
      BY <1>16
    <3> HIDE DEF cur, S
    <3> QED
      BY <1>d, <2>1, <3>1
  <2>3. CutAfter(cur, order[n], job) = Cut(slots, order, m, n, job)
    BY <1>15 DEF Cut, CutAfter
  <2> HIDE DEF End2, cur
  <2> QED
    BY <1>19, <2>2, <2>3 DEF Remains
<1>20. ASSUME ~ (End(job) <= slots[order[n]].e)
       PROVE  End2 = State(Remains(slots, order, m, n, job), at)
  <2>1. SplitSlot(State(cur, at), order[n], given, TRUE)
          = State(Taken(cur, order[n], given.res), at)
    <3>1. cur[order[n]].e < End(given) /\ given.walltime \in Nat
      BY <1>1, <1>c, <1>15, <1>20
    <3> HIDE DEF cur
    <3> QED
      BY <1>17, <3>1, SlotIsTaken
  <2>2. Taken(cur, order[n], job.res) = Lost(slots, order, m, n, job.res)
    <3> DEFINE before == n - 1
    <3>1. before = n - 1
      OBVIOUS
    <3> HIDE DEF before
    <3>2. Taken(Lost(slots, order, m, before, job.res), order[n], job.res)
            = Lost(slots, order, m, n, job.res)
      BY <1>a, <3>1, LostStep
    <3> QED
      BY <3>2 DEF before
  <2>3. End2 = State(Lost(slots, order, m, n, job.res), at)
    <3>1. SplitSlot(S(n - m), order[n], given, TRUE)
            = SplitSlot(State(cur, at), order[n], given, TRUE)
      BY <1>16
    <3> HIDE DEF cur, S
    <3> QED
      BY <1>c, <2>1, <2>2, <3>1
  <2> HIDE DEF End2, cur
  <2> QED
    BY <1>20, <2>3 DEF Remains
<1>21. ASSUME NEW k \in 0..c
       PROVE  \E x, a : G[k] = State(x, a)
  <2>1. CASE k = c
    <3>1. G[k] = End2
      BY <1>14, <2>1
    <3> HIDE DEF G, End2, c
    <3> QED
      BY <1>19, <1>20, <3>1
  <2>2. CASE k # c
    <3> HIDE DEF c, End2
    <3> QED
      BY <2>2
  <2> QED
    BY <2>1, <2>2
<1> HIDE DEF G, End2, path, st
<1>22. Turns(G, st, path, given)
  <2>1. \A k \in 1..c : k \in 0..c /\ k # 0
    BY <1>3
  <2>2. 0 \in 0..c
    BY <1>3
  <2> HIDE DEF c
  <2> QED
    BY <1>2, <1>7, <2>1, <2>2 DEF Turns
<1>23. G[Len(path)] = State(Remains(slots, order, m, n, job), at)
  BY <1>2, <1>14, <1>19, <1>20
<1>24. \A k \in 0..Len(path) : \E x, a : G[k] = State(x, a)
  BY <1>2, <1>21
<1>25. Splitting(G, slots, at, path, given, Remains(slots, order, m, n, job), at)
  BY <1>22, <1>23, <1>24 DEF Splitting, st
<1> QED
  BY <1>25 DEF path

(* The turns of split_slots for a job at its place, with what they come to *)
LEMMA TurnsAre ==
  ASSUME NEW slots, NEW order, NEW b, NEW e, Linked(slots, order, b, e),
         NEW m \in DOMAIN slots, NEW n \in DOMAIN slots, NEW job,
         IsJobAt(slots, order, m, n, job), NEW given, AsGiven(job, given), NEW at
  PROVE  SplitsTo(slots, at, order[m], order[n], given, Remains(slots, order, m, n, job), at)
<1>1. m <= n
  BY DEF IsJobAt
<1>2. PICK turn : Splitting(turn, slots, at, Ids(order, m, n), given,
                            Remains(slots, order, m, n, job), at)
  BY TurnsFor
<1>3. Path(slots, order[m], order[n]) = Ids(order, m, n)
  BY <1>1, PathInOrder
<1>4. Len(Ids(order, m, n)) \in Nat
  <2>1. Len(Ids(order, m, n)) = n - m + 1
    BY <1>1, IdsStep
  <2>2. m \in Nat /\ n \in Nat
    BY OrderTypes
  <2> QED
    BY <1>1, <2>1, <2>2
<1> DEFINE st == State(slots, at)
<1>5. st.slots = slots
  BY StateParts
<1>6. Turns(turn, st, Path(st.slots, order[m], order[n]), given)
  BY <1>2, <1>3, <1>5 DEF Splitting
<1>7. Len(Path(st.slots, order[m], order[n])) \in Nat
  BY <1>3, <1>4, <1>5
<1> HIDE DEF st
<1>8. SplitSlots(st, order[m], order[n], given, TRUE) = turn[Len(Ids(order, m, n))]
  BY <1>3, <1>5, <1>6, <1>7, SplitSlotsIs
<1> QED
  BY <1>2, <1>8 DEF Splitting, SplitsTo, st


(* What Split returns for such a job *)
LEMMA SplitIs ==
  ASSUME NEW slots, NEW order, NEW b, NEW e, Linked(slots, order, b, e),
         NEW m \in DOMAIN slots, NEW n \in DOMAIN slots, NEW job,
         IsJobAt(slots, order, m, n, job)
  PROVE  Split(slots, order[m], order[n], job)
           = IF End(job) <= slots[order[n]].e THEN Cut(slots, order, m, n, job)
             ELSE Lost(slots, order, m, n, job.res)
<1>1. AsGiven(job, job)
  <2>1. slots[order[m]].b \in Nat
    BY OrderTypes
  <2> QED
    BY <2>1 DEF AsGiven, IsJobAt
<1>2. SplitsTo(slots, order[m], order[m], order[n], job, Remains(slots, order, m, n, job), order[m])
  BY <1>1, TurnsAre
<1> QED
  BY <1>2, StateParts DEF SplitsTo, Split, State, Remains

(* What a list becomes whose slots from position m to position n lose the  *)
(* resources of a job; the last of them may have been cut after the job.   *)
Loses(slots, new, order, m, n, job) ==
  /\ DOMAIN slots \subseteq DOMAIN new
  /\ \A i \in DOMAIN slots :
       /\ new[i].b = slots[i].b
       /\ new[i].b = new[i].e + 1 =>
            slots[i].b = slots[i].e + 1 \/ (new[i].b = End(job) /\ End(job) <= slots[i].e)
       /\ (\E k \in m..n : order[k] = i) => new[i].itvs = slots[i].itvs \ job.res
       /\ ~ (\E k \in m..n : order[k] = i) => new[i].itvs = slots[i].itvs
  /\ \A i \in DOMAIN new \ DOMAIN slots :
       new[i].b = new[i].e + 1 => /\ new[i].b = End(job) /\ slots[order[n]].b <= End(job) - 1
                                  /\ new[i].itvs = slots[order[n]].itvs

(* What is free then: the resources are not, while the job is there *)
FreeBut(slots, new, job) ==
  \A u \in Int : FreeAt(new, u) = IF u \in job.start..End(job) - 1
                                  THEN FreeAt(slots, u) \ job.res ELSE FreeAt(slots, u)

(* FreeInSlot, with the id of the slot *)
LEMMA FreeInSlotOf ==
  ASSUME NEW slots, NEW order, NEW b, NEW e, Linked(slots, order, b, e),
         NEW i \in DOMAIN slots, NEW t \in Int, slots[i].b <= t, t <= slots[i].e
  PROVE  FreeAt(slots, t) = slots[i].itvs
<1>1. PICK n \in DOMAIN slots : order[n] = i
  BY DEF Linked, InOrder
<1> QED
  BY <1>1, FreeInSlot

(* The facts about a job at its place that the proofs below use *)
LEMMA JobTypes ==
  ASSUME NEW slots, NEW order, NEW b, NEW e, Linked(slots, order, b, e),
         NEW m \in DOMAIN slots, NEW n \in DOMAIN slots, NEW job,
         IsJobAt(slots, order, m, n, job)
  PROVE  /\ m <= n /\ job.start \in Nat /\ job.walltime \in Nat \ {0} /\ End(job) \in Nat
         /\ End(job) = job.start + job.walltime
         /\ job.start = slots[order[m]].b
         /\ slots[order[n]].b <= End(job) /\ End(job) - 1 <= slots[order[n]].e
         /\ b <= job.start /\ End(job) - 1 <= e
<1>1. slots[order[m]].b \in Nat /\ slots[order[n]].e \in Nat /\ e \in Nat /\ b \in Nat
  BY OrderTypes
<1>2. job.start \in Nat /\ job.walltime \in Nat \ {0} /\ job.start = slots[order[m]].b
  BY <1>1 DEF IsJobAt
<1>3. End(job) \in Nat /\ End(job) = job.start + job.walltime
  BY <1>2 DEF End
<1>4. b <= slots[order[m]].b /\ slots[order[n]].e <= e
  BY SlotsWithin
<1>5. slots[order[n]].b <= End(job) /\ End(job) - 1 <= slots[order[n]].e /\ m <= n
  BY DEF IsJobAt
<1> QED
  BY <1>1, <1>2, <1>3, <1>4, <1>5

(* The job is there exactly in the slots that it takes *)
LEMMA DuringIsBetween ==
  ASSUME NEW slots, NEW order, NEW b, NEW e, Linked(slots, order, b, e),
         NEW m \in DOMAIN slots, NEW n \in DOMAIN slots, NEW job,
         IsJobAt(slots, order, m, n, job),
         NEW k \in DOMAIN slots, NEW u \in Int, slots[order[k]].b <= u, u <= slots[order[k]].e
  PROVE  /\ u \in job.start..End(job) - 1 => k \in m..n
         /\ k \in m..n /\ (k # n \/ u <= End(job) - 1) => u \in job.start..End(job) - 1
<1>1. /\ DOMAIN slots = 1..Len(slots) /\ Len(slots) \in Nat
      /\ \A l \in DOMAIN slots : slots[order[l]].b \in Nat /\ slots[order[l]].e \in Nat
  BY OrderTypes
<1>2. /\ m <= n /\ job.start \in Nat /\ End(job) \in Nat /\ job.start = slots[order[m]].b
      /\ slots[order[n]].b <= End(job) /\ End(job) - 1 <= slots[order[n]].e
  BY JobTypes
<1>3. ASSUME u \in job.start..End(job) - 1
      PROVE  k \in m..n
  <2>1. slots[order[m]].b <= u /\ u <= slots[order[n]].e
    BY <1>1, <1>2, <1>3
  <2>2. m <= k
    BY <2>1, OneSlotAtATime
  <2>3. k <= n
    BY <2>1, OneSlotAtATime
  <2> QED
    BY <1>1, <2>2, <2>3
<1>4. ASSUME k \in m..n
      PROVE  job.start <= u
  <2>1. m <= k
    BY <1>4
  <2>2. slots[order[m]].b <= slots[order[k]].b
    BY <2>1, TimeGoesOn
  <2> QED
    BY <1>1, <1>2, <2>2
<1>5. ASSUME k \in m..n, k # n
      PROVE  u <= End(job) - 1
  <2>1. k <= n /\ k < n
    BY <1>1, <1>5
  <2>2. slots[order[k]].e < slots[order[n]].b
    BY <2>1, TimeGoesOn
  <2> QED
    BY <1>1, <1>2, <2>2
<1> QED
  BY <1>1, <1>2, <1>3, <1>4, <1>5

(* No obstacle comes with the job *)
LEMMA NoNewObstacle ==
  ASSUME NEW slots, NEW order, NEW b, NEW e, Linked(slots, order, b, e), NoObstacle(slots),
         NEW m \in DOMAIN slots, NEW n \in DOMAIN slots, NEW job,
         IsJobAt(slots, order, m, n, job),
         NEW new, Loses(slots, new, order, m, n, job),
         FreeBut(slots, new, job)
  PROVE  NoObstacle(new)
<1> SUFFICES ASSUME NEW i \in DOMAIN new, new[i].b = new[i].e + 1,
                    NEW r \in FreeAt(new, new[i].b - 1) \cap FreeAt(new, new[i].b)
             PROVE  r \in new[i].itvs
  BY DEF NoObstacle
<1>1. /\ DOMAIN slots = 1..Len(slots) /\ Len(slots) \in Nat
      /\ \A l \in DOMAIN slots : slots[order[l]].b \in Nat /\ slots[order[l]].e \in Nat
      /\ slots \in Seq(Slot)
  BY OrderTypes
<1>a. \A l \in DOMAIN slots : slots[l].b \in Nat /\ slots[l].e \in Nat
  BY <1>1, SlotTypes
<1>2. /\ job.start \in Nat /\ End(job) \in Nat /\ job.start <= End(job) - 1
      /\ job.start = slots[order[m]].b
      /\ slots[order[n]].b <= End(job) /\ End(job) - 1 <= slots[order[n]].e
      /\ m <= n
  <2>1. job.walltime \in Nat \ {0} /\ End(job) = job.start + job.walltime /\ job.start \in Nat
    BY JobTypes
  <2>2. job.start <= End(job) - 1
    BY <2>1
  <2> QED
    BY <2>2, JobTypes
<1>3. new[i].b = End(job) => r \in FreeAt(slots, End(job) - 1) /\ r \in FreeAt(slots, End(job))
                             /\ r \notin job.res
  <2>1. End(job) - 1 \in Int /\ End(job) \in Int /\ End(job) - 1 \in job.start..End(job) - 1
        /\ End(job) \notin job.start..End(job) - 1
    BY <1>2
  <2> QED
    BY <2>1 DEF FreeBut
<1>4. CASE i \notin DOMAIN slots
  <2>1. /\ new[i].b = End(job) /\ slots[order[n]].b <= End(job) - 1
        /\ new[i].itvs = slots[order[n]].itvs
    BY <1>4 DEF Loses
  <2>2. FreeAt(slots, End(job) - 1) = slots[order[n]].itvs
    <3>1. End(job) - 1 \in Int
      BY <1>2
    <3> QED
      BY <1>2, <2>1, <3>1, FreeInSlot
  <2> QED
    BY <1>3, <2>1, <2>2
<1>5. CASE i \in DOMAIN slots /\ slots[i].b # slots[i].e + 1
  <2>1. /\ new[i].b = slots[i].b /\ new[i].b = End(job) /\ End(job) <= slots[i].e
        /\ new[i].itvs = slots[i].itvs \ job.res \/ new[i].itvs = slots[i].itvs
    BY <1>5 DEF Loses
  <2>2. FreeAt(slots, End(job)) = slots[i].itvs
    <3>1. End(job) \in Int /\ slots[i].b <= End(job)
      BY <1>2, <2>1
    <3> QED
      BY <1>5, <2>1, <3>1, FreeInSlotOf
  <2> QED
    BY <1>3, <2>1, <2>2
<1>6. CASE i \in DOMAIN slots /\ slots[i].b = slots[i].e + 1
  <2>1. new[i].b = slots[i].b
    BY <1>6 DEF Loses
  <2>2. new[i].b \in Int /\ new[i].b - 1 \in Int
    BY <1>6, <1>a, <2>1
  <2>3. r \in FreeAt(slots, new[i].b - 1) /\ r \in FreeAt(slots, new[i].b)
    BY <2>2 DEF FreeBut
  <2>4. r \in slots[i].itvs
    BY <1>6, <2>1, <2>3 DEF NoObstacle
  <2>5. CASE ~ \E k \in m..n : order[k] = i
    BY <1>6, <2>4, <2>5 DEF Loses
  <2>6. CASE \E k \in m..n : order[k] = i
    <3>1. PICK k \in m..n : order[k] = i
      BY <2>6
    <3>2. k \in DOMAIN slots /\ m <= k /\ k <= n
      BY <1>1, <3>1
    <3>3. slots[order[m]].b <= slots[order[k]].b
      BY <3>2, TimeGoesOn
    <3>4. slots[order[k]].b <= slots[order[n]].b
      BY <3>2, TimeGoesOn
    <3>5. slots[i].b \in job.start..End(job) - 1 \/ slots[i].b = End(job)
      BY <1>1, <1>2, <3>1, <3>2, <3>3, <3>4
    <3>6. r \notin job.res
      BY <1>3, <2>1, <2>2, <3>5 DEF FreeBut
    <3>7. new[i].itvs = slots[i].itvs \ job.res
      BY <1>6, <2>6 DEF Loses
    <3> QED
      BY <2>4, <3>6, <3>7
  <2> QED
    BY <2>5, <2>6
<1> QED
  BY <1>4, <1>5, <1>6

-----------------------------------------------------------------------------
(* The job ends with a slot: the list is as it was, but for the resources *)
LEMMA LostKeeps ==
  ASSUME NEW slots, NEW order, NEW b, NEW e, Linked(slots, order, b, e),
         NEW m \in DOMAIN slots, NEW n \in DOMAIN slots, NEW job,
         IsJobAt(slots, order, m, n, job), slots[order[n]].e < End(job),
         NEW new, new = Lost(slots, order, m, n, job.res)
  PROVE  /\ Linked(new, order, b, e)
         /\ Loses(slots, new, order, m, n, job)
         /\ FreeBut(slots, new, job)
<1>1. /\ new \in Seq(Slot) /\ Len(new) = Len(slots) /\ DOMAIN new = DOMAIN slots
      /\ \A i \in DOMAIN slots :
           /\ new[i].next = slots[i].next /\ new[i].b = slots[i].b /\ new[i].e = slots[i].e
           /\ (\E k \in m..n : order[k] = i) => new[i].itvs = slots[i].itvs \ job.res
           /\ ~ (\E k \in m..n : order[k] = i) => new[i] = slots[i]
  BY LostTypes
<1>2. /\ DOMAIN slots = 1..Len(slots) /\ Len(slots) \in Nat \ {0}
      /\ \A l \in DOMAIN slots : /\ order[l] \in DOMAIN slots
                                 /\ slots[order[l]].b \in Nat /\ slots[order[l]].e \in Nat
  BY OrderTypes
<1>3. Linked(new, order, b, e)
  <2>1. new # <<>>
    BY <1>1, <1>2
  <2>2. InOrder(slots, order, b, e)
    BY DEF Linked
  <2>3. 1 \in DOMAIN slots
    BY <1>2
  <2>4. /\ order \in [DOMAIN new -> DOMAIN new]
        /\ order[1] = 1 /\ new[1].b = b
        /\ \A k, l \in DOMAIN new : order[k] = order[l] => k = l
        /\ \A i \in DOMAIN new : \E k \in DOMAIN new : order[k] = i
    BY <1>1, <2>2, <2>3 DEF InOrder
  <2>5. ASSUME NEW k \in DOMAIN new
        PROVE  /\ new[order[k]].b <= new[order[k]].e + 1
               /\ IF k = Len(new)
                  THEN new[order[k]].next = 0 /\ new[order[k]].e = e
                  ELSE /\ new[order[k]].next = order[k + 1]
                       /\ new[order[k + 1]].b = new[order[k]].e + 1
    <3>1. k \in DOMAIN slots
      BY <1>1
    <3>2. k # Len(slots) => k + 1 \in DOMAIN slots
      BY <1>2, <3>1
    <3> QED
      BY <1>1, <1>2, <2>2, <3>1, <3>2, ZenonT(30) DEF InOrder
  <2>6. InOrder(new, order, b, e)
    BY <2>4, <2>5 DEF InOrder
  <2> QED
    BY <1>1, <2>1, <2>6 DEF Linked
<1>4. Loses(slots, new, order, m, n, job)
  BY <1>1 DEF Loses
<1>5. ASSUME NEW u \in Int
      PROVE  FreeAt(new, u) = IF u \in job.start..End(job) - 1
                              THEN FreeAt(slots, u) \ job.res ELSE FreeAt(slots, u)
  <2>1. CASE ~ (b <= u /\ u <= e)
    <3>1. FreeAt(slots, u) = {}
      BY <2>1, FreeOutside
    <3>2. FreeAt(new, u) = {}
      BY <1>3, <2>1, FreeOutside
    <3> QED
      BY <3>1, <3>2
  <2>2. CASE b <= u /\ u <= e
    <3>1. PICK k \in DOMAIN slots : slots[order[k]].b <= u /\ u <= slots[order[k]].e
      BY <2>2, SlotAtTime
    <3>2. FreeAt(slots, u) = slots[order[k]].itvs
      BY <3>1, FreeInSlot
    <3>3. FreeAt(new, u) = new[order[k]].itvs
      <4>1. order[k] \in DOMAIN new /\ new[order[k]].b <= u /\ u <= new[order[k]].e
        BY <1>1, <1>2, <3>1
      <4> QED
        BY <1>3, <4>1, FreeInSlotOf
    <3>4. k \in m..n <=> u \in job.start..End(job) - 1
      <4>1. /\ u \in job.start..End(job) - 1 => k \in m..n
            /\ k \in m..n /\ (k # n \/ u <= End(job) - 1) => u \in job.start..End(job) - 1
        BY <3>1, DuringIsBetween
      <4>2. k = n => u <= End(job) - 1
        <5>1. End(job) \in Nat
          BY JobTypes
        <5> QED
          BY <1>2, <3>1, <5>1
      <4> QED
        BY <4>1, <4>2
    <3>5. (\E l \in m..n : order[l] = order[k]) <=> k \in m..n
      <4>1. m..n \subseteq DOMAIN slots
        BY <1>2
      <4>2. \A l \in DOMAIN slots : order[l] = order[k] => l = k
        BY DEF Linked, InOrder
      <4> QED
        BY <4>1, <4>2
    <3>6. order[k] \in DOMAIN slots
      BY <1>2
    <3> QED
      BY <1>1, <3>2, <3>3, <3>4, <3>5, <3>6
  <2> QED
    BY <2>1, <2>2
<1> QED
  BY <1>3, <1>4, <1>5 DEF FreeBut

(* The last slot is cut, and not both parts are empty *)
IsCutAt(slots, order, n, job) ==
  End(job) <= slots[order[n]].e \/ slots[order[n]].b < End(job)

(* What the slots are once the last one has been cut *)
LEMMA CutTypes ==
  ASSUME NEW slots, NEW order, NEW b, NEW e, Linked(slots, order, b, e),
         NEW m \in DOMAIN slots, NEW n \in DOMAIN slots, NEW job,
         IsJobAt(slots, order, m, n, job), IsCutAt(slots, order, n, job),
         NEW last, last = Len(slots) + 1, NEW new, new = Cut(slots, order, m, n, job)
  PROVE  /\ new \in Seq(Slot) /\ Len(new) = last /\ DOMAIN new = 1..last
         /\ new[last].next = slots[order[n]].next /\ new[last].b = End(job)
         /\ new[last].e = slots[order[n]].e /\ new[last].itvs = slots[order[n]].itvs
         /\ new[order[n]].next = last /\ new[order[n]].b = slots[order[n]].b
         /\ new[order[n]].e = End(job) - 1
         /\ new[order[n]].itvs = slots[order[n]].itvs \ job.res
         /\ \A i \in DOMAIN slots \ {order[n]} :
              /\ new[i].next = slots[i].next /\ new[i].b = slots[i].b /\ new[i].e = slots[i].e
              /\ (\E k \in m..n : order[k] = i) => new[i].itvs = slots[i].itvs \ job.res
              /\ ~ (\E k \in m..n : order[k] = i) => new[i].itvs = slots[i].itvs
<1>1. /\ DOMAIN slots = 1..Len(slots) /\ Len(slots) \in Nat \ {0}
      /\ \A l \in DOMAIN slots : order[l] \in DOMAIN slots
      /\ slots \in Seq(Slot)
  BY OrderTypes
<1>2. /\ m <= n /\ End(job) \in Nat /\ job.start \in Nat /\ job.walltime \in Nat \ {0}
      /\ End(job) = job.start + job.walltime
  BY JobTypes
<1> DEFINE L == Lost(slots, order, m, n - 1, job.res)
           x == order[n]
<1>3. /\ L \in Seq(Slot) /\ Len(L) = Len(slots) /\ DOMAIN L = DOMAIN slots
      /\ \A i \in DOMAIN slots :
           /\ L[i].next = slots[i].next /\ L[i].b = slots[i].b /\ L[i].e = slots[i].e
           /\ (\E k \in m..(n - 1) : order[k] = i) => L[i].itvs = slots[i].itvs \ job.res
           /\ ~ (\E k \in m..(n - 1) : order[k] = i) => L[i] = slots[i]
  BY LostTypes
<1>4. /\ new = [i \in 1..last |->
                  IF i = last THEN [slots[x] EXCEPT !.b = End(job)]
                  ELSE IF i = x
                  THEN [next |-> last, b |-> slots[i].b, e |-> End(job) - 1,
                        itvs |-> slots[i].itvs \ job.res]
                  ELSE L[i]]
  BY DEF Cut
<1> HIDE DEF L
<1>5. x \in DOMAIN slots /\ x \in 1..last /\ x # last /\ last \in 1..last /\ last \in Nat
  BY <1>1
<1> HIDE DEF x
<1>6. slots[x] \in Slot
  BY <1>1, <1>5
<1>7. [slots[x] EXCEPT !.b = End(job)]
        = [next |-> slots[x].next, b |-> End(job), e |-> slots[x].e, itvs |-> slots[x].itvs]
  BY <1>6 DEF Slot
<1>8. [slots[x] EXCEPT !.b = End(job)] \in Slot
  BY <1>2, <1>6 DEF Slot
<1>9. [next |-> last, b |-> slots[x].b, e |-> End(job) - 1, itvs |-> slots[x].itvs \ job.res]
        \in Slot
  <2>1. End(job) - 1 \in Nat
    BY <1>2
  <2> QED
    BY <1>5, <1>6, <2>1 DEF Slot
<1>10. /\ new[last] = [next |-> slots[x].next, b |-> End(job), e |-> slots[x].e,
                       itvs |-> slots[x].itvs]
       /\ new[x] = [next |-> last, b |-> slots[x].b, e |-> End(job) - 1,
                    itvs |-> slots[x].itvs \ job.res]
  BY <1>4, <1>5, <1>7
<1>11. \A i \in DOMAIN slots \ {x} : new[i] = L[i] /\ i \in 1..last /\ i # last
  <2>1. \A i \in DOMAIN slots : i \in 1..last /\ i # last
    BY <1>1
  <2> QED
    BY <1>4, <2>1
<1>12. DOMAIN new = 1..last
  BY <1>4
<1>13. \A i \in 1..last : new[i] \in Slot
  <2>1. \A i \in 1..last : i = last \/ i = x \/ i \in DOMAIN slots \ {x}
    BY <1>1
  <2>2. \A i \in DOMAIN slots : L[i] \in Slot
    BY <1>3
  <2>3. new[last] \in Slot /\ new[x] \in Slot
    BY <1>7, <1>8, <1>9, <1>10
  <2> QED
    BY <1>11, <2>1, <2>2, <2>3
<1>14. new \in Seq(Slot) /\ Len(new) = last
  <2>1. new = [i \in 1..last |-> new[i]]
    BY <1>4
  <2> QED
    BY <1>5, <1>13, <2>1, SeqDef, LenProperties
<1>15. \A i \in DOMAIN slots \ {x} :
         (\E k \in m..n : order[k] = i) <=> \E k \in m..(n - 1) : order[k] = i
  <2>1. \A k : k \in m..n <=> (k = n \/ k \in m..(n - 1))
    BY <1>1, <1>2
  <2> QED
    BY <2>1 DEF x
<1>16. \A i \in DOMAIN slots \ {x} :
         /\ new[i].next = slots[i].next /\ new[i].b = slots[i].b /\ new[i].e = slots[i].e
         /\ (\E k \in m..n : order[k] = i) => new[i].itvs = slots[i].itvs \ job.res
         /\ ~ (\E k \in m..n : order[k] = i) => new[i].itvs = slots[i].itvs
  BY <1>3, <1>11, <1>15
<1> QED
  BY <1>10, <1>12, <1>14, <1>16 DEF x

(* The list goes through the new slot after the one that was cut *)
After(order, n, last) ==
  [k \in 1..last |-> IF k <= n THEN order[k] ELSE IF k = n + 1 THEN last ELSE order[k - 1]]

(* The positions of the new list, and those of the old one *)
IsAfter(slots, new, order, n, last) ==
  /\ new \in [1..last -> 1..last]
  /\ \A k \in 1..last : k <= n => new[k] = order[k] /\ k \in DOMAIN slots
  /\ new[n + 1] = last /\ n + 1 \in 1..last
  /\ \A k \in 1..last : k > n + 1 => new[k] = order[k - 1] /\ k - 1 \in DOMAIN slots
  /\ \A k, l \in 1..last : new[k] = new[l] => k = l
  /\ \A i \in 1..last : \E k \in 1..last : new[k] = i

(* Where the positions come from *)
LEMMA AfterIs ==
  ASSUME NEW slots, NEW order, NEW b, NEW e, Linked(slots, order, b, e),
         NEW n \in DOMAIN slots, NEW last, last = Len(slots) + 1,
         NEW new, new = After(order, n, last)
  PROVE  IsAfter(slots, new, order, n, last)
<1>1. /\ DOMAIN slots = 1..Len(slots) /\ Len(slots) \in Nat \ {0}
      /\ \A l \in DOMAIN slots : order[l] \in DOMAIN slots
  BY OrderTypes
<1>2. \A k, l \in DOMAIN slots : order[k] = order[l] => k = l
  BY DEF Linked, InOrder
<1>3. \A i \in DOMAIN slots : \E k \in DOMAIN slots : order[k] = i
  BY DEF Linked, InOrder
<1>4. /\ DOMAIN new = 1..last
      /\ \A k \in 1..last : new[k] = IF k <= n THEN order[k]
                                     ELSE IF k = n + 1 THEN last ELSE order[k - 1]
  BY DEF After
<1>5. last \in Nat /\ n \in Nat /\ n + 1 \in 1..last /\ last \notin DOMAIN slots
      /\ DOMAIN slots \subseteq 1..last /\ last \in 1..last
  BY <1>1
<1>6. /\ \A k \in 1..last : k <= n => k \in DOMAIN slots
      /\ \A k \in 1..last : k > n + 1 => k - 1 \in DOMAIN slots /\ k - 1 > n
      /\ \A k \in 1..last : k <= n \/ k = n + 1 \/ k > n + 1
      /\ \A k \in 1..last : k > n + 1 => ~ (k <= n) /\ k # n + 1
      /\ ~ (n + 1 <= n)
  BY <1>1
<1>7. /\ \A k \in 1..last : k <= n => new[k] = order[k]
      /\ new[n + 1] = last
      /\ \A k \in 1..last : k > n + 1 => new[k] = order[k - 1]
  BY <1>4, <1>5, <1>6
<1>8. new \in [1..last -> 1..last]
  <2>1. \A k \in 1..last : new[k] \in 1..last
    BY <1>1, <1>5, <1>6, <1>7
  <2>2. new = [k \in 1..last |-> new[k]]
    BY DEF After
  <2> QED
    BY <2>1, <2>2
<1>9. ASSUME NEW k \in 1..last, NEW l \in 1..last, new[k] = new[l]
      PROVE  k = l
  <2>1. CASE k = n + 1
    <3>1. new[l] = last
      BY <1>7, <1>9, <2>1
    <3>2. ~ (l <= n) /\ ~ (l > n + 1)
      BY <1>1, <1>5, <1>6, <1>7, <3>1
    <3> QED
      BY <1>6, <2>1, <3>2
  <2>2. CASE l = n + 1
    <3>1. new[k] = last
      BY <1>7, <1>9, <2>2
    <3>2. ~ (k <= n) /\ ~ (k > n + 1)
      BY <1>1, <1>5, <1>6, <1>7, <3>1
    <3> QED
      BY <1>6, <2>2, <3>2
  <2>3. CASE k <= n /\ l <= n
    BY <1>2, <1>6, <1>7, <1>9, <2>3
  <2>4. CASE k > n + 1 /\ l > n + 1
    <3>1. k - 1 = l - 1
      BY <1>2, <1>6, <1>7, <1>9, <2>4
    <3> QED
      BY <1>5, <3>1
  <2>5. CASE k <= n /\ l > n + 1
    <3>1. k = l - 1 /\ l - 1 > n
      BY <1>2, <1>6, <1>7, <1>9, <2>5
    <3> QED
      BY <1>5, <2>5, <3>1
  <2>6. CASE l <= n /\ k > n + 1
    <3>1. l = k - 1 /\ k - 1 > n
      BY <1>2, <1>6, <1>7, <1>9, <2>6
    <3> QED
      BY <1>5, <2>6, <3>1
  <2> QED
    BY <1>6, <2>1, <2>2, <2>3, <2>4, <2>5, <2>6
<1>10. ASSUME NEW i \in 1..last
       PROVE  \E k \in 1..last : new[k] = i
  <2>1. CASE i = last
    BY <1>5, <1>7, <2>1
  <2>2. CASE i # last
    <3>1. i \in DOMAIN slots
      BY <1>1, <2>2
    <3>2. PICK k \in DOMAIN slots : order[k] = i
      BY <1>3, <3>1
    <3>3. CASE k <= n
      BY <1>5, <1>7, <3>2, <3>3
    <3>4. CASE ~ (k <= n)
      <4>1. k + 1 \in 1..last /\ k + 1 > n + 1 /\ (k + 1) - 1 = k
        BY <1>1, <3>4
      <4>2. new[k + 1] = order[(k + 1) - 1]
        BY <1>7, <4>1
      <4> QED
        BY <3>2, <4>1, <4>2
    <3> QED
      BY <3>3, <3>4
  <2> QED
    BY <2>1, <2>2
<1> QED
  BY <1>5, <1>6, <1>7, <1>8, <1>9, <1>10 DEF IsAfter

(* The job ends in a slot, which is cut after it *)
LEMMA CutIsLinked ==
  ASSUME NEW slots, NEW order, NEW b, NEW e, Linked(slots, order, b, e),
         NEW m \in DOMAIN slots, NEW n \in DOMAIN slots, NEW job,
         IsJobAt(slots, order, m, n, job), IsCutAt(slots, order, n, job),
         NEW last, last = Len(slots) + 1, NEW new, new = Cut(slots, order, m, n, job)
  PROVE  Linked(new, After(order, n, last), b, e)
<1> DEFINE a == After(order, n, last)
<1>a. a = After(order, n, last)
  OBVIOUS
<1> HIDE DEF a
<1>1. /\ DOMAIN slots = 1..Len(slots) /\ Len(slots) \in Nat \ {0}
      /\ \A l \in DOMAIN slots : /\ order[l] \in DOMAIN slots
                                 /\ slots[order[l]].b \in Nat /\ slots[order[l]].e \in Nat
  BY OrderTypes
<1>2. /\ new \in Seq(Slot) /\ Len(new) = last /\ DOMAIN new = 1..last
      /\ new[last].next = slots[order[n]].next /\ new[last].b = End(job)
      /\ new[last].e = slots[order[n]].e
      /\ new[order[n]].next = last /\ new[order[n]].b = slots[order[n]].b
      /\ new[order[n]].e = End(job) - 1
  BY CutTypes
<1>3. \A i \in DOMAIN slots \ {order[n]} :
        new[i].next = slots[i].next /\ new[i].b = slots[i].b /\ new[i].e = slots[i].e
  BY CutTypes
<1>4. /\ a \in [1..last -> 1..last]
      /\ \A k \in 1..last : k <= n => a[k] = order[k] /\ k \in DOMAIN slots
      /\ a[n + 1] = last /\ n + 1 \in 1..last
      /\ \A k \in 1..last : k > n + 1 => a[k] = order[k - 1] /\ k - 1 \in DOMAIN slots
      /\ \A k, l \in 1..last : a[k] = a[l] => k = l
      /\ \A i \in 1..last : \E k \in 1..last : a[k] = i
  <2>1. IsAfter(slots, a, order, n, last)
    BY <1>a, AfterIs
  <2> QED
    BY <2>1 DEF IsAfter
<1>5. \A k, l \in DOMAIN slots : order[k] = order[l] => k = l
  BY DEF Linked, InOrder
<1>6. /\ End(job) \in Nat /\ End(job) - 1 \in Int /\ slots[order[n]].b <= End(job)
      /\ End(job) - 1 <= slots[order[n]].e
  BY JobTypes
<1>7. a[1] = 1 /\ new[1].b = b
  <2>1. 1 \in 1..last /\ 1 <= n /\ 1 \in DOMAIN slots
    BY <1>1
  <2>2. order[1] = 1 /\ slots[1].b = b
    BY DEF Linked, InOrder
  <2>3. a[1] = 1
    BY <1>4, <2>1, <2>2
  <2>4. CASE order[n] = 1
    BY <1>2, <2>2, <2>3, <2>4
  <2>5. CASE order[n] # 1
    BY <1>3, <2>1, <2>2, <2>3, <2>5
  <2> QED
    BY <2>3, <2>4, <2>5
<1> DEFINE Ok(k) == /\ new[a[k]].b <= new[a[k]].e + 1
                    /\ IF k = last
                       THEN new[a[k]].next = 0 /\ new[a[k]].e = e
                       ELSE /\ new[a[k]].next = a[k + 1]
                            /\ new[a[k + 1]].b = new[a[k]].e + 1
<1>8. ASSUME NEW k \in 1..last, k < n
      PROVE  Ok(k)
  <2>1. k \in DOMAIN slots /\ k # n /\ k # Len(slots) /\ k # last /\ k <= n
        /\ k + 1 \in DOMAIN slots /\ k + 1 \in 1..last /\ k + 1 <= n
    BY <1>1, <1>8
  <2>2. a[k] = order[k] /\ a[k + 1] = order[k + 1]
    BY <1>4, <2>1
  <2>3. order[k] \in DOMAIN slots \ {order[n]}
    BY <1>1, <1>5, <2>1
  <2>4. new[a[k + 1]].b = slots[order[k + 1]].b
    <3>1. order[k + 1] \in DOMAIN slots
      BY <1>1, <2>1
    <3> QED
      BY <1>2, <1>3, <2>2, <3>1
  <2>5. /\ slots[order[k]].b <= slots[order[k]].e + 1
        /\ slots[order[k]].next = order[k + 1]
        /\ slots[order[k + 1]].b = slots[order[k]].e + 1
    BY <2>1, NextInOrder
  <2> QED
    BY <1>3, <2>1, <2>2, <2>3, <2>4, <2>5
<1>9. Ok(n)
  <2>1. n \in 1..last /\ n # last /\ n <= n
    BY <1>1
  <2>2. a[n] = order[n]
    BY <1>4, <2>1
  <2>3. new[a[n]].b <= new[a[n]].e + 1
    BY <1>1, <1>2, <1>6, <2>2
  <2>4. new[a[n + 1]].b = new[a[n]].e + 1
    <3>1. (End(job) - 1) + 1 = End(job)
      BY <1>6
    <3>2. new[a[n + 1]].b = End(job) /\ new[a[n]].e = End(job) - 1
      BY <1>2, <1>4, <2>2
    <3> QED
      BY <3>1, <3>2
  <2> QED
    BY <1>2, <1>4, <2>1, <2>2, <2>3, <2>4
<1>10. Ok(n + 1)
  <2>1. n = Len(slots) <=> n + 1 = last
    BY <1>1
  <2>2. End(job) <= slots[order[n]].e + 1
    BY <1>1, <1>6
  <2>3. new[a[n + 1]].b <= new[a[n + 1]].e + 1
    BY <1>2, <1>4, <2>2
  <2>4. CASE n = Len(slots)
    <3>1. slots[order[n]].next = 0 /\ slots[order[n]].e = e
      BY <2>4, NextInOrder
    <3> QED
      BY <1>2, <1>4, <2>1, <2>3, <2>4, <3>1
  <2>5. CASE n # Len(slots)
    <3>1. n + 1 \in DOMAIN slots /\ slots[order[n]].next = order[n + 1]
          /\ slots[order[n + 1]].b = slots[order[n]].e + 1
      BY <2>5, NextInOrder
    <3>2. (n + 1) + 1 \in 1..last /\ (n + 1) + 1 > n + 1 /\ ((n + 1) + 1) - 1 = n + 1
      BY <1>1, <2>5
    <3>3. a[(n + 1) + 1] = order[n + 1]
      BY <1>4, <3>2
    <3>4. order[n + 1] \in DOMAIN slots \ {order[n]}
      <4>1. n # n + 1
        BY <1>1
      <4> QED
        BY <1>1, <1>5, <3>1, <4>1
    <3>5. new[order[n + 1]].b = slots[order[n + 1]].b
      BY <1>3, <3>4
    <3> QED
      BY <1>2, <1>4, <2>1, <2>3, <2>5, <3>1, <3>3, <3>5
  <2> QED
    BY <2>4, <2>5
<1>11. ASSUME NEW k \in 1..last, k > n + 1
       PROVE  Ok(k)
  <2> DEFINE l == k - 1
  <2>1. l \in DOMAIN slots /\ l # n /\ a[k] = order[l] /\ (l = Len(slots) <=> k = last)
        /\ l + 1 = k
    <3>1. k - 1 \in DOMAIN slots /\ a[k] = order[k - 1]
      BY <1>4, <1>11
    <3>2. k - 1 # n /\ (k - 1 = Len(slots) <=> k = last) /\ (k - 1) + 1 = k
      BY <1>1, <1>11
    <3> QED
      BY <3>1, <3>2
  <2> HIDE DEF l
  <2>2. order[l] \in DOMAIN slots \ {order[n]}
    BY <1>1, <1>5, <2>1
  <2>3. /\ slots[order[l]].b <= slots[order[l]].e + 1
        /\ l = Len(slots) => slots[order[l]].next = 0 /\ slots[order[l]].e = e
        /\ l # Len(slots) => /\ l + 1 \in DOMAIN slots
                             /\ slots[order[l]].next = order[l + 1]
                             /\ slots[order[l + 1]].b = slots[order[l]].e + 1
    BY <2>1, NextInOrder
  <2>4. CASE l = Len(slots)
    BY <1>3, <2>1, <2>2, <2>3, <2>4
  <2>5. CASE l # Len(slots)
    <3>1. k + 1 \in 1..last /\ k + 1 > n + 1 /\ (k + 1) - 1 = k /\ k \in DOMAIN slots /\ k # n
      BY <1>1, <1>11, <2>1, <2>5
    <3>2. a[k + 1] = order[k]
      BY <1>4, <3>1
    <3>3. order[k] \in DOMAIN slots \ {order[n]}
      BY <1>1, <1>5, <3>1
    <3>4. new[order[k]].b = slots[order[k]].b
      BY <1>3, <3>3
    <3> QED
      BY <1>3, <2>1, <2>2, <2>3, <2>5, <3>2, <3>4
  <2> QED
    BY <2>4, <2>5
<1>12. \A k \in DOMAIN new : Ok(k)
  <2>1. \A k \in 1..last : k < n \/ k = n \/ k = n + 1 \/ k > n + 1
    BY <1>1
  <2> HIDE DEF Ok
  <2> QED
    BY <1>2, <1>8, <1>9, <1>10, <1>11, <2>1
<1>13. InOrder(new, a, b, e)
  <2>1. /\ a \in [DOMAIN new -> DOMAIN new]
        /\ \A k, l \in DOMAIN new : a[k] = a[l] => k = l
        /\ \A i \in DOMAIN new : \E k \in DOMAIN new : a[k] = i
    BY <1>2, <1>4
  <2>2. last = Len(new)
    BY <1>2
  <2> QED
    BY <1>7, <1>12, <2>1, <2>2 DEF InOrder
<1>14. new # <<>>
  BY <1>1, <1>2
<1> QED
  BY <1>2, <1>13, <1>14 DEF Linked, a

(* The list is sound after it, and only the job takes what was free *)
LEMMA CutKeeps ==
  ASSUME NEW slots, NEW order, NEW b, NEW e, Linked(slots, order, b, e),
         NEW m \in DOMAIN slots, NEW n \in DOMAIN slots, NEW job,
         IsJobAt(slots, order, m, n, job), IsCutAt(slots, order, n, job),
         NEW new, new = Cut(slots, order, m, n, job)
  PROVE  /\ \E a : Linked(new, a, b, e)
         /\ Loses(slots, new, order, m, n, job)
         /\ FreeBut(slots, new, job)
<1> DEFINE last == Len(slots) + 1
           x == order[n]
<1>1. /\ DOMAIN slots = 1..Len(slots) /\ Len(slots) \in Nat \ {0}
      /\ \A l \in DOMAIN slots : /\ order[l] \in DOMAIN slots
                                 /\ slots[order[l]].b \in Nat /\ slots[order[l]].e \in Nat
  BY OrderTypes
<1>a. last = Len(slots) + 1
  OBVIOUS
<1> HIDE DEF last
<1>2. Linked(new, After(order, n, last), b, e)
  BY <1>a, CutIsLinked
<1>3. /\ DOMAIN new = 1..last
      /\ new[last].b = End(job) /\ new[last].e = slots[x].e /\ new[last].itvs = slots[x].itvs
      /\ new[x].b = slots[x].b /\ new[x].e = End(job) - 1
      /\ new[x].itvs = slots[x].itvs \ job.res
      /\ \A i \in DOMAIN slots \ {x} :
           /\ new[i].next = slots[i].next /\ new[i].b = slots[i].b /\ new[i].e = slots[i].e
           /\ (\E k \in m..n : order[k] = i) => new[i].itvs = slots[i].itvs \ job.res
           /\ ~ (\E k \in m..n : order[k] = i) => new[i].itvs = slots[i].itvs
  BY <1>a, CutTypes
<1>4. /\ m <= n /\ End(job) \in Nat /\ slots[x].b <= End(job) /\ job.start \in Nat
      /\ End(job) - 1 <= slots[x].e /\ (End(job) <= slots[x].e \/ slots[x].b < End(job))
  BY JobTypes DEF IsCutAt
<1>5. n \in m..n /\ x \in DOMAIN slots /\ last \notin DOMAIN slots /\ last \in 1..last
      /\ DOMAIN slots \subseteq 1..last /\ 1..last = DOMAIN slots \cup {last}
      /\ slots[x].b \in Nat /\ slots[x].e \in Nat
  BY <1>1, <1>4, <1>a
<1>b. order[n] = x
  OBVIOUS
<1> HIDE DEF x
<1>6. Loses(slots, new, order, m, n, job)
  <2>1. ASSUME NEW i \in DOMAIN slots
        PROVE  /\ new[i].b = slots[i].b
               /\ new[i].b = new[i].e + 1 =>
                    \/ slots[i].b = slots[i].e + 1
                    \/ new[i].b = End(job) /\ End(job) <= slots[i].e
               /\ (\E k \in m..n : order[k] = i) => new[i].itvs = slots[i].itvs \ job.res
               /\ ~ (\E k \in m..n : order[k] = i) => new[i].itvs = slots[i].itvs
    <3>1. CASE i = x
      <4>1. \E k \in m..n : order[k] = i
        BY <1>5, <1>b, <3>1
      <4>2. new[x].b = new[x].e + 1 => new[x].b = End(job) /\ End(job) <= slots[x].e
        BY <1>3, <1>4, <1>5
      <4> QED
        BY <1>3, <3>1, <4>1, <4>2
    <3>2. CASE i # x
      BY <1>3, <3>2
    <3> QED
      BY <3>1, <3>2
  <2>2. ASSUME NEW i \in DOMAIN new \ DOMAIN slots
        PROVE  new[i].b = new[i].e + 1 =>
                 /\ new[i].b = End(job) /\ slots[order[n]].b <= End(job) - 1
                 /\ new[i].itvs = slots[order[n]].itvs
    <3>1. i = last
      BY <1>3, <1>5
    <3>2. new[last].b = new[last].e + 1 => slots[x].b <= End(job) - 1
      BY <1>3, <1>4, <1>5
    <3> QED
      BY <1>3, <1>5, <1>b, <3>1, <3>2
  <2>3. DOMAIN slots \subseteq DOMAIN new
    BY <1>3, <1>5
  <2> QED
    BY <2>1, <2>2, <2>3 DEF Loses
<1>7. ASSUME NEW u \in Int
      PROVE  FreeAt(new, u) = IF u \in job.start..End(job) - 1
                              THEN FreeAt(slots, u) \ job.res ELSE FreeAt(slots, u)
  <2>1. CASE ~ (b <= u /\ u <= e)
    <3>1. FreeAt(slots, u) = {}
      BY <2>1, FreeOutside
    <3>2. FreeAt(new, u) = {}
      BY <1>2, <2>1, FreeOutside
    <3> QED
      BY <3>1, <3>2
  <2>2. CASE b <= u /\ u <= e
    <3>1. PICK k \in DOMAIN slots : slots[order[k]].b <= u /\ u <= slots[order[k]].e
      BY <2>2, SlotAtTime
    <3>2. FreeAt(slots, u) = slots[order[k]].itvs
      BY <3>1, FreeInSlot
    <3>3. /\ u \in job.start..End(job) - 1 => k \in m..n
          /\ k \in m..n /\ (k # n \/ u <= End(job) - 1) => u \in job.start..End(job) - 1
      BY <3>1, DuringIsBetween
    <3>4. (\E l \in m..n : order[l] = order[k]) <=> k \in m..n
      <4>1. m..n \subseteq DOMAIN slots
        BY <1>1
      <4>2. \A l \in DOMAIN slots : order[l] = order[k] => l = k
        BY DEF Linked, InOrder
      <4> QED
        BY <4>1, <4>2
    <3>5. CASE k # n
      <4>1. order[k] # x /\ order[k] \in DOMAIN slots
        <5>1. order[k] = order[n] => k = n
          BY DEF Linked, InOrder
        <5> QED
          BY <1>1, <1>b, <3>5, <5>1
      <4>2. FreeAt(new, u) = new[order[k]].itvs
        <5>1. order[k] \in DOMAIN new /\ new[order[k]].b <= u /\ u <= new[order[k]].e
          BY <1>3, <1>5, <3>1, <4>1
        <5> QED
          BY <1>2, <5>1, FreeInSlotOf
      <4> QED
        BY <1>3, <3>2, <3>3, <3>4, <3>5, <4>1, <4>2
    <3>6. CASE k = n /\ u <= End(job) - 1
      <4>1. FreeAt(new, u) = new[x].itvs
        <5>1. x \in DOMAIN new /\ new[x].b <= u /\ u <= new[x].e
          BY <1>3, <1>5, <1>b, <3>1, <3>6
        <5> QED
          BY <1>2, <5>1, FreeInSlotOf
      <4> QED
        BY <1>3, <1>5, <1>b, <3>2, <3>3, <3>6, <4>1
    <3>7. CASE k = n /\ ~ (u <= End(job) - 1)
      <4>1. FreeAt(new, u) = new[last].itvs
        <5>1. last \in DOMAIN new /\ new[last].b <= u /\ u <= new[last].e
          BY <1>3, <1>4, <1>5, <1>b, <3>1, <3>7
        <5> QED
          BY <1>2, <5>1, FreeInSlotOf
      <4>2. u \notin job.start..End(job) - 1
        BY <1>4, <3>7
      <4> QED
        BY <1>3, <1>b, <3>2, <3>7, <4>1, <4>2
    <3> QED
      BY <3>5, <3>6, <3>7
  <2> QED
    BY <2>1, <2>2
<1> QED
  BY <1>2, <1>6, <1>7 DEF FreeBut

(* A date at which a slot begins, or the one after the last slot *)
IsBoundary(slots, t, e) == (\E i \in DOMAIN slots : slots[i].b = t) \/ t = e + 1

(* A split takes the resources during the job, and keeps all the rest *)
LEMMA SplitKeeps ==
  ASSUME NEW slots, NEW order, NEW b, NEW e, Linked(slots, order, b, e), NoObstacle(slots),
         NEW m \in DOMAIN slots, NEW n \in DOMAIN slots, NEW job,
         IsJobAt(slots, order, m, n, job),
         NEW new, new = Split(slots, order[m], order[n], job)
  PROVE  /\ \E a : Linked(new, a, b, e)
         /\ NoObstacle(new)
         /\ DOMAIN slots \subseteq DOMAIN new
         /\ \A i \in DOMAIN slots : new[i].b = slots[i].b
         /\ IsBoundary(new, End(job), e)
         /\ FreeBut(slots, new, job)
<1>1. new = IF End(job) <= slots[order[n]].e THEN Cut(slots, order, m, n, job)
            ELSE Lost(slots, order, m, n, job.res)
  BY SplitIs
<1>2. /\ \E a : Linked(new, a, b, e)
      /\ Loses(slots, new, order, m, n, job)
      /\ FreeBut(slots, new, job)
  <2>1. CASE End(job) <= slots[order[n]].e
    BY <1>1, <2>1, CutKeeps DEF IsCutAt
  <2>2. CASE ~ (End(job) <= slots[order[n]].e)
    <3>1. new = Lost(slots, order, m, n, job.res)
      BY <1>1, <2>2
    <3>2. /\ Linked(new, order, b, e)
          /\ Loses(slots, new, order, m, n, job)
          /\ FreeBut(slots, new, job)
      <4>1. slots[order[n]].e < End(job)
        <5>1. slots[order[n]].e \in Nat /\ End(job) \in Nat
          BY OrderTypes, JobTypes
        <5> QED
          BY <2>2, <5>1
      <4> QED
        BY <3>1, <4>1, LostKeeps
    <3> QED
      BY <3>2
  <2> QED
    BY <2>1, <2>2
<1>3. NoObstacle(new)
  BY <1>2, NoNewObstacle
<1>4. DOMAIN slots \subseteq DOMAIN new /\ \A i \in DOMAIN slots : new[i].b = slots[i].b
  BY <1>2 DEF Loses
<1>5. IsBoundary(new, End(job), e)
  <2>1. CASE End(job) <= slots[order[n]].e
    <3> DEFINE last == Len(slots) + 1
    <3>1. last = Len(slots) + 1
      OBVIOUS
    <3> HIDE DEF last
    <3>2. new = Cut(slots, order, m, n, job)
      BY <1>1, <2>1
    <3>3. DOMAIN new = 1..last /\ new[last].b = End(job)
      BY <2>1, <3>1, <3>2, CutTypes DEF IsCutAt
    <3>4. last \in 1..last
      BY <3>1, OrderTypes
    <3> QED
      BY <3>3, <3>4 DEF IsBoundary
  <2>2. CASE ~ (End(job) <= slots[order[n]].e)
    <3>1. /\ DOMAIN slots = 1..Len(slots) /\ Len(slots) \in Nat \ {0}
          /\ slots[order[n]].e \in Nat /\ e \in Nat
      BY OrderTypes
    <3>2. End(job) \in Nat /\ End(job) - 1 <= slots[order[n]].e
      BY JobTypes
    <3>3. End(job) = slots[order[n]].e + 1
      BY <2>2, <3>1, <3>2
    <3>4. CASE n = Len(slots)
      <4>1. slots[order[n]].e = e
        BY <3>4, NextInOrder
      <4> QED
        BY <3>3, <4>1 DEF IsBoundary
    <3>5. CASE n # Len(slots)
      <4>1. n + 1 \in DOMAIN slots /\ slots[order[n + 1]].b = slots[order[n]].e + 1
        BY <3>5, NextInOrder
      <4>2. order[n + 1] \in DOMAIN slots
        BY <4>1, OrderTypes
      <4>3. order[n + 1] \in DOMAIN new /\ new[order[n + 1]].b = End(job)
        BY <1>4, <3>3, <4>1, <4>2
      <4> QED
        BY <4>3 DEF IsBoundary
    <3> QED
      BY <3>4, <3>5
  <2> QED
    BY <2>1, <2>2
<1> QED
  BY <1>2, <1>3, <1>4, <1>5

-----------------------------------------------------------------------------
(* The search of a place *)

(* There is enough for the request from a date on *)
Feasible(slots, t, rqt) == Cardinality(FreeAlong(slots, t, rqt)) >= rqt.nb

(* To begin with this slot is not to miss a date; 0 is to begin after all  *)
StartsEarly(slots, id, rqt, min) ==
  \A t \in Nat : t >= min /\ Feasible(slots, t, rqt) => id # 0 /\ slots[id].b <= t

(* A search that begins early ends early: on the first date, or with none *)
LEMMA SearchIsEarly ==
  ASSUME IsFiniteSet(Resources),
         NEW slots, NEW order, NEW b, NEW e, Linked(slots, order, b, e), NoObstacle(slots),
         NEW rqt, IsRequest(rqt), NEW min \in Int, NEW id \in 0..Len(slots),
         StartsEarly(slots, id, rqt, min)
  PROVE  StartsEarly(slots, FindFrom(slots, id, rqt)[1], rqt, min)
<1> SUFFICES ASSUME NEW t \in Nat, t >= min, Feasible(slots, t, rqt)
             PROVE  /\ FindFrom(slots, id, rqt)[1] # 0
                    /\ slots[FindFrom(slots, id, rqt)[1]].b <= t
  BY DEF StartsEarly
<1>1. /\ DOMAIN slots = 1..Len(slots) /\ Len(slots) \in Nat
      /\ \A k \in DOMAIN slots : order[k] \in DOMAIN slots /\ slots[order[k]].b \in Nat
  BY OrderTypes
<1>2. id # 0 /\ slots[id].b <= t
  BY DEF StartsEarly
<1>3. id \in DOMAIN slots
  BY <1>1, <1>2
<1>4. PICK p \in DOMAIN slots : order[p] = id
  BY <1>3 DEF Linked, InOrder
<1>5. PICK q \in DOMAIN slots :
        slots[order[q]].b <= t /\ t <= slots[order[q]].e /\ Fits(slots, order, q, rqt)
  BY FreeFits DEF Feasible
<1>6. p <= q
  <2>1. slots[order[p]].b <= t /\ t <= slots[order[q]].e /\ t \in Int
    BY <1>2, <1>4, <1>5
  <2> QED
    BY <2>1, OneSlotAtATime
<1>7. \E m, n \in DOMAIN slots :
        /\ FindFrom(slots, order[p], rqt) = <<order[m], order[n]>>
        /\ \A k \in DOMAIN slots : p <= k /\ k < m => ~ Fits(slots, order, k, rqt)
  <2>1. ~ \A k \in DOMAIN slots : p <= k => ~ Fits(slots, order, k, rqt)
    BY <1>5, <1>6
  <2> QED
    BY <2>1, FindFirst
<1>8. PICK m, n \in DOMAIN slots :
        /\ FindFrom(slots, order[p], rqt) = <<order[m], order[n]>>
        /\ \A k \in DOMAIN slots : p <= k /\ k < m => ~ Fits(slots, order, k, rqt)
  BY <1>7
<1>9. m <= q
  BY <1>1, <1>5, <1>6, <1>8
<1>10. slots[order[m]].b <= slots[order[q]].b
  BY <1>9, TimeGoesOn
<1>11. FindFrom(slots, id, rqt)[1] = order[m]
  BY <1>4, <1>8
<1> QED
  BY <1>1, <1>5, <1>10, <1>11

(* What is found is a place for the request, not before the first slot *)
LEMMA SearchFits ==
  ASSUME NEW slots, NEW order, NEW b, NEW e, Linked(slots, order, b, e),
         NEW rqt, IsRequest(rqt), NEW id \in 0..Len(slots),
         NEW found, found = FindFrom(slots, id, rqt), found[1] # 0
  PROVE  /\ id \in DOMAIN slots
         /\ \E m, n \in DOMAIN slots :
              /\ found = <<order[m], order[n]>>
              /\ Reaches(slots, order, m, n, rqt)
              /\ Solutions(Available(slots, order[m], order[n]), rqt) # {}
              /\ slots[id].b <= slots[order[m]].b
<1>1. /\ DOMAIN slots = 1..Len(slots) /\ Len(slots) \in Nat
      /\ \A k \in DOMAIN slots : order[k] \in DOMAIN slots /\ slots[order[k]].b \in Nat
  BY OrderTypes
<1>2. id # 0
  <2>1. 1 \in DOMAIN slots
    BY OrderTypes
  <2>2. FindFrom(slots, 0, rqt) = <<0, 0>>
    BY <2>1, FindFirst
  <2> QED
    BY <2>2
<1>3. id \in DOMAIN slots
  BY <1>1, <1>2
<1>4. PICK p \in DOMAIN slots : order[p] = id
  BY <1>3 DEF Linked, InOrder
<1>5. FindFrom(slots, order[p], rqt) # <<0, 0>>
  BY <1>4
<1>6. \E m, n \in DOMAIN slots :
        /\ FindFrom(slots, order[p], rqt) = <<order[m], order[n]>>
        /\ p <= m /\ Reaches(slots, order, m, n, rqt)
        /\ Solutions(Available(slots, order[m], order[n]), rqt) # {}
  <2>1. \/ FindFrom(slots, order[p], rqt) = <<0, 0>>
        \/ \E m, n \in DOMAIN slots :
             /\ FindFrom(slots, order[p], rqt) = <<order[m], order[n]>>
             /\ p <= m /\ Reaches(slots, order, m, n, rqt)
             /\ Solutions(Available(slots, order[m], order[n]), rqt) # {}
             /\ \A k \in DOMAIN slots : p <= k /\ k < m => ~ Fits(slots, order, k, rqt)
    <3>1. \/ /\ FindFrom(slots, order[p], rqt) = <<0, 0>>
             /\ \A k \in DOMAIN slots : p <= k => ~ Fits(slots, order, k, rqt)
          \/ \E m, n \in DOMAIN slots :
               /\ FindFrom(slots, order[p], rqt) = <<order[m], order[n]>>
               /\ p <= m /\ Reaches(slots, order, m, n, rqt)
               /\ Solutions(Available(slots, order[m], order[n]), rqt) # {}
               /\ \A k \in DOMAIN slots : p <= k /\ k < m => ~ Fits(slots, order, k, rqt)
      BY FindFirst, Zenon
    <3> QED
      BY <3>1
  <2> QED
    BY <1>5, <2>1
<1>7. PICK m, n \in DOMAIN slots :
        /\ FindFrom(slots, order[p], rqt) = <<order[m], order[n]>>
        /\ p <= m /\ Reaches(slots, order, m, n, rqt)
        /\ Solutions(Available(slots, order[m], order[n]), rqt) # {}
  BY <1>6
<1>8. slots[order[p]].b <= slots[order[m]].b
  BY <1>7, TimeGoesOn
<1> QED
  BY <1>3, <1>4, <1>7, <1>8

(* The cache does not miss a date *)
EarlyCache(set) ==
  \A r \in DOMAIN set.cache :
    /\ IsRequest(r) /\ set.cache[r] \in DOMAIN set.slots
    /\ StartsEarly(set.slots, set.cache[r], r, -1)

(* Before the first date of a list there is nothing *)
LEMMA FirstIsEarly ==
  ASSUME IsFiniteSet(Resources),
         NEW slots, NEW order, NEW b, NEW e, Linked(slots, order, b, e), NoObstacle(slots),
         NEW rqt, IsRequest(rqt)
  PROVE  1 \in DOMAIN slots /\ StartsEarly(slots, 1, rqt, -1)
<1>1. 1 \in DOMAIN slots /\ slots[1].b = b /\ order[1] = 1
  <2>1. 1 \in DOMAIN slots
    BY OrderTypes
  <2> QED
    BY <2>1 DEF Linked, InOrder
<1>2. ASSUME NEW t \in Nat, Feasible(slots, t, rqt)
      PROVE  slots[1].b <= t
  <2>1. PICK q \in DOMAIN slots : slots[order[q]].b <= t
    BY <1>2, FreeFits DEF Feasible
  <2>2. b <= slots[order[q]].b
    BY SlotsWithin
  <2>3. b \in Nat /\ slots[order[q]].b \in Nat
    BY OrderTypes
  <2> QED
    BY <1>1, <2>1, <2>2, <2>3
<1> QED
  BY <1>1, <1>2 DEF StartsEarly

(* Where a search begins *)
LEMMA FirstSlotIs ==
  ASSUME IsFiniteSet(Resources), NEW set, NEW slots, slots = set.slots,
         NEW order, NEW b, NEW e, Linked(slots, order, b, e), NoObstacle(slots),
         EarlyCache(set), NEW rqt, IsRequest(rqt), NEW min \in Int,
         NEW first, first = FirstSlot(set, rqt, min)
  PROVE  /\ first \in 0..Len(slots)
         /\ min >= 0 /\ first # 0 => min <= slots[first].b
         /\ min = -1 \/ (min >= 0 /\ IsBoundary(slots, min, e)) =>
              StartsEarly(slots, first, rqt, min)
<1>1. /\ DOMAIN slots = 1..Len(slots) /\ Len(slots) \in Nat /\ e \in Nat
      /\ \A k \in DOMAIN slots : /\ order[k] \in DOMAIN slots
                                 /\ slots[order[k]].b \in Nat /\ slots[order[k]].e \in Nat
  BY OrderTypes
<1>2. CASE ~ (min >= 0)
  <2>1. CASE rqt \in DOMAIN set.cache
    <3>1. first = set.cache[rqt]
      BY <1>2, <2>1 DEF FirstSlot
    <3>2. first \in DOMAIN slots /\ StartsEarly(slots, first, rqt, -1)
      BY <2>1, <3>1 DEF EarlyCache
    <3> QED
      BY <1>1, <1>2, <3>2
  <2>2. CASE rqt \notin DOMAIN set.cache
    <3>1. first = 1
      BY <1>2, <2>2 DEF FirstSlot
    <3>2. 1 \in DOMAIN slots /\ StartsEarly(slots, 1, rqt, -1)
      BY FirstIsEarly
    <3> QED
      BY <1>1, <1>2, <3>1, <3>2
  <2> QED
    BY <2>1, <2>2
<1>3. CASE min >= 0
  <2> DEFINE ids == {i \in DOMAIN slots : slots[i].b >= min}
  <2>1. first = Follow(slots, 1, ids)
    BY <1>3 DEF FirstSlot
  <2>2. 1 \in DOMAIN slots /\ order[1] = 1
    <3>1. 1 \in DOMAIN slots
      BY OrderTypes
    <3> QED
      BY <3>1 DEF Linked, InOrder
  <2> HIDE DEF ids
  <2>3. \/ first = 0 /\ \A n \in DOMAIN slots : 1 <= n => order[n] \notin ids
        \/ \E n \in DOMAIN slots :
             /\ first = order[n] /\ order[n] \in ids
             /\ \A k \in DOMAIN slots : 1 <= k /\ k < n => order[k] \notin ids
    <3>1. \/ /\ Follow(slots, order[1], ids) = 0
             /\ \A n \in DOMAIN slots : 1 <= n => order[n] \notin ids
          \/ \E n \in DOMAIN slots :
               /\ 1 <= n /\ Follow(slots, order[1], ids) = order[n] /\ order[n] \in ids
               /\ \A k \in DOMAIN slots : 1 <= k /\ k < n => order[k] \notin ids
      BY <2>2, FollowFinds
    <3>2. first = Follow(slots, order[1], ids)
      BY <2>1, <2>2
    <3> QED
      BY <3>1, <3>2
  <2>4. \A n \in DOMAIN slots : 1 <= n
    BY <1>1
  <2>5. first \in 0..Len(slots)
    BY <1>1, <2>3
  <2>6. first # 0 => min <= slots[first].b
    BY <2>3 DEF ids
  <2>7. ASSUME IsBoundary(slots, min, e), NEW t \in Nat, t >= min, Feasible(slots, t, rqt)
        PROVE  first # 0 /\ slots[first].b <= t
    <3>1. PICK q \in DOMAIN slots : slots[order[q]].b <= t /\ t <= slots[order[q]].e
      BY <2>7, FreeFits DEF Feasible
    <3>2. t <= e
      <4>1. slots[order[q]].e <= e
        BY SlotsWithin
      <4> QED
        BY <1>1, <3>1, <4>1
    <3>3. PICK i \in DOMAIN slots : slots[i].b = min
      <4>1. min # e + 1
        BY <1>1, <2>7, <3>2
      <4> QED
        BY <2>7, <4>1 DEF IsBoundary
    <3>4. PICK l \in DOMAIN slots : order[l] = i
      BY DEF Linked, InOrder
    <3>5. order[l] \in ids
      BY <3>3, <3>4 DEF ids
    <3>6. PICK n \in DOMAIN slots :
            /\ first = order[n]
            /\ \A k \in DOMAIN slots : 1 <= k /\ k < n => order[k] \notin ids
      BY <2>3, <2>4, <3>5
    <3>7. n <= l
      BY <1>1, <2>4, <3>5, <3>6
    <3>8. slots[order[n]].b <= slots[order[l]].b
      BY <3>7, TimeGoesOn
    <3>9. slots[order[n]].b \in Nat /\ order[n] # 0
      BY <1>1
    <3> QED
      BY <2>7, <3>3, <3>4, <3>6, <3>8, <3>9
  <2> QED
    BY <1>3, <2>5, <2>6, <2>7 DEF StartsEarly
<1> QED
  BY <1>2, <1>3

(* A split makes no date feasible *)
LEMMA SplitIsNoChance ==
  ASSUME IsFiniteSet(Resources), NEW slots \in Seq(Slot), NEW new \in Seq(Slot), NEW job,
         FreeBut(slots, new, job), NEW rqt, IsRequest(rqt), NEW t \in Nat, Feasible(new, t, rqt)
  PROVE  Feasible(slots, t, rqt)
<1>1. \A u \in Int : FreeAt(new, u) \subseteq FreeAt(slots, u)
  BY DEF FreeBut
<1>2. FreeAlong(new, t, rqt) \subseteq FreeAlong(slots, t, rqt)
  BY <1>1 DEF FreeAlong
<1>3. FreeAlong(slots, t, rqt) \subseteq Resources /\ rqt.nb \in Nat
  BY DEF FreeAlong, IsRequest
<1>4. /\ Cardinality(FreeAlong(new, t, rqt)) \in Nat
      /\ Cardinality(FreeAlong(slots, t, rqt)) \in Nat
      /\ Cardinality(FreeAlong(new, t, rqt)) <= Cardinality(FreeAlong(slots, t, rqt))
  BY <1>2, <1>3, FewerResources
<1> QED
  BY <1>3, <1>4 DEF Feasible

(* The slot of the cache does not miss a date after a split *)
LEMMA EarlyAfterSplit ==
  ASSUME IsFiniteSet(Resources), NEW slots \in Seq(Slot), NEW new \in Seq(Slot), NEW job,
         FreeBut(slots, new, job), NEW rqt, IsRequest(rqt), NEW id \in DOMAIN slots,
         DOMAIN slots \subseteq DOMAIN new, \A i \in DOMAIN slots : new[i].b = slots[i].b,
         StartsEarly(slots, id, rqt, -1)
  PROVE  id \in DOMAIN new /\ StartsEarly(new, id, rqt, -1)
<1>1. id \in DOMAIN new /\ new[id].b = slots[id].b
  OBVIOUS
<1>2. ASSUME NEW t \in Nat, t >= -1, Feasible(new, t, rqt)
      PROVE  id # 0 /\ new[id].b <= t
  <2>1. Feasible(slots, t, rqt)
    BY <1>2, SplitIsNoChance
  <2> QED
    BY <1>1, <1>2, <2>1 DEF StartsEarly
<1> QED
  BY <1>1, <1>2 DEF StartsEarly

-----------------------------------------------------------------------------
(* The promise of the table *)

(* The operators of FiniteSets are those of Timetable *)
LEMMA SameCardinality == \A S : Table!Cardinality(S) = Cardinality(S)
  BY DEF Table!Cardinality, Cardinality

(* The same for finite sets *)
LEMMA SameFinite == \A S : Table!IsFiniteSet(S) <=> IsFiniteSet(S)
  BY DEF Table!IsFiniteSet, IsFiniteSet

(* When a planned job is there *)
During(j) == plan[j].start .. Table!Finish(j) - 1

(* What a planned job looks like, and what it holds is free no more *)
PlannedInv ==
  \A j \in Table!Planned :
    /\ plan[j].start \in Nat
    /\ plan[j].walltime \in Nat \ {0}
    /\ plan[j].set \in DOMAIN Free
    /\ plan[j].res # {}
    /\ \A u \in During(j) : u \in Table!Times /\ plan[j].res \cap Free[plan[j].set][u] = {}

(* A container is planned, and gives what it holds while it holds it *)
ContainerInv ==
  \A c \in DOMAIN Free \cap Jobs :
    /\ c \in Table!Planned
    /\ \A u \in Table!Times : /\ Free[c][u] \subseteq plan[c].res
                              /\ Free[c][u] # {} => u \in During(c)

(* What the table promises *)
Promise ==
  Table!NoDoubleBooking /\ Table!InnerWithinContainer /\ Table!DependenciesFirst

(* The promise, with what it needs to be inductive *)
PromiseInv ==
  /\ DOMAIN plan \subseteq Jobs
  /\ PlannedInv
  /\ ContainerInv
  /\ Table!NoDoubleBooking
  /\ Table!InnerWithinContainer
  /\ Table!DependenciesFirst

-----------------------------------------------------------------------------
(* The same, without what decides on the alternative and the date *)
Placed(j, s, deps, container, t, w, res) ==
  /\ t \in Table!Times /\ w \in Nat \ {0} /\ t + w - 1 <= MaxTime
  /\ \A d \in deps : t >= Table!Finish(d)
  /\ res # {}
  /\ \A u \in t..t + w - 1 : res \subseteq Free[s][u]
  /\ Table!Treated(j, [start |-> t, walltime |-> w, res |-> res, set |-> s, deps |-> deps])
  /\ Free' = [n \in DOMAIN Free \cup (IF container THEN {j} ELSE {}) |->
                IF n = j
                THEN [u \in Table!Times |-> IF u \in t..t + w - Security THEN res ELSE {}]
                ELSE IF n = s
                THEN [u \in Table!Times |->
                        IF u \in t..t + w - 1 THEN Free[s][u] \ res ELSE Free[s][u]]
                ELSE Free[n]]

(* What Place does, for an alternative and a date *)
Chosen(j, s, rqt, deps, container, t, res) ==
  /\ Table!Cardinality(res) = rqt.nb
  /\ Table!Treated(j, [start |-> t, walltime |-> rqt.walltime, res |-> res,
                       set |-> s, deps |-> deps])
  /\ Free' = [n \in DOMAIN Free \cup (IF container THEN {j} ELSE {}) |->
                IF n = j THEN Table!Inside(t, rqt, res)
                ELSE IF n = s THEN Table!Without(Free[s], t, rqt, res)
                ELSE Free[n]]

(* Where Place puts a job there is room, for some time, after its jobs *)
LEMMA PlaceIsPlaced ==
  ASSUME Table!SoundRequests, NEW j, NEW s, NEW rqts \in Requests, NEW deps,
         NEW container \in BOOLEAN, Table!Place(j, s, rqts, deps, container)
  PROVE  \E t, w, res : Placed(j, s, deps, container, t, w, res)
<1>1. PICK k \in DOMAIN rqts : \E t \in Table!Dates(s, rqts[k], deps) :
        \E res \in SUBSET Table!FreeDuring(s, t, rqts[k]) :
          Chosen(j, s, rqts[k], deps, container, t, res)
  BY Zenon DEF Table!Place, Chosen
<1>a. PICK t \in Table!Dates(s, rqts[k], deps) :
        \E res \in SUBSET Table!FreeDuring(s, t, rqts[k]) :
          Chosen(j, s, rqts[k], deps, container, t, res)
  BY <1>1
<1>b. PICK res \in SUBSET Table!FreeDuring(s, t, rqts[k]) :
        Chosen(j, s, rqts[k], deps, container, t, res)
  BY <1>a
<1>2. rqts[k] \in [nb : Nat \ {0}, from : SUBSET Resources, walltime : Nat \ {0}]
  BY <1>1 DEF Table!SoundRequests
<1>3. res # {}
  BY <1>b, <1>2, FS_EmptySet, SameCardinality DEF Chosen
<1>4. \A u \in t..t + rqts[k].walltime - 1 : res \subseteq Free[s][u]
  BY DEF Table!FreeDuring
<1>5. /\ t \in Table!Times
      /\ \A d \in deps : t >= Table!Finish(d)
      /\ t + rqts[k].walltime - 1 <= MaxTime
  BY DEF Table!Dates
<1>6. Placed(j, s, deps, container, t, rqts[k].walltime, res)
  BY <1>b, <1>2, <1>3, <1>4, <1>5 DEF Placed, Chosen, Table!Inside, Table!Without
<1> QED
  BY <1>6

(* A job that is treated leaves the others as they are *)
LEMMA OthersStay ==
  ASSUME NEW j \in Jobs \ DOMAIN plan, NEW record, Table!Treated(j, record)
  PROVE  /\ DOMAIN plan' = DOMAIN plan \cup {j}
         /\ plan'[j] = record
         /\ \A i \in DOMAIN plan : i # j /\ plan'[i] = plan[i]
         /\ \A i \in Table!Planned : i # j /\ plan'[i] = plan[i] /\ i \in Table!Planned'
         /\ \A i \in Table!Planned' : i = j \/ i \in Table!Planned
  BY DEF Table!Treated, Table!Planned

-----------------------------------------------------------------------------
(* A job without a place changes nothing for the others *)
LEMMA NotPlannedKeepsPromise ==
  ASSUME PromiseInv, NEW j \in Jobs \ DOMAIN plan, NEW s,
         Table!Treated(j, Table!NotPlanned(s)), UNCHANGED Free
  PROVE  PromiseInv'
<1>1. /\ DOMAIN plan' = DOMAIN plan \cup {j}
      /\ plan'[j].start = -1
      /\ \A i \in DOMAIN plan : i # j /\ plan'[i] = plan[i]
  <2>1. Table!NotPlanned(s).start = -1
    BY DEF Table!NotPlanned
  <2> QED
    BY <2>1, OthersStay
<1>2. Table!Planned' = Table!Planned
  BY <1>1 DEF Table!Planned
<1>3. \A i \in Table!Planned : plan'[i] = plan[i]
  BY <1>1 DEF Table!Planned
<1>4. (DOMAIN plan \subseteq Jobs)'
  BY <1>1 DEF PromiseInv
<1>5. PlannedInv'
  BY <1>2, <1>3 DEF PromiseInv, PlannedInv, During, Table!Finish
<1>6. ContainerInv'
  BY <1>2, <1>3 DEF PromiseInv, ContainerInv, During, Table!Finish
<1>7. Table!NoDoubleBooking'
  BY <1>2, <1>3 DEF PromiseInv, Table!NoDoubleBooking, Table!Overlap, Table!Finish
<1>8. Table!InnerWithinContainer'
  BY <1>2, <1>3 DEF PromiseInv, Table!InnerWithinContainer, Table!Finish
<1>9. Table!DependenciesFirst'
  BY <1>2, <1>3 DEF PromiseInv, Table!DependenciesFirst, Table!Finish
<1> QED
  BY <1>4, <1>5, <1>6, <1>7, <1>8, <1>9 DEF PromiseInv

(* A job at such a place is apart from the others, and in its container *)
LEMMA PlacedKeepsPromise ==
  ASSUME Table!Sizes, PromiseInv, NEW j \in Jobs \ DOMAIN plan, NEW s \in DOMAIN Free,
         NEW deps \in SUBSET Table!Planned, NEW container \in BOOLEAN, NEW t, NEW w, NEW res,
         Placed(j, s, deps, container, t, w, res)
  PROVE  PromiseInv'
<1> DEFINE P == [start |-> t, walltime |-> w, res |-> res, set |-> s, deps |-> deps]
<1>1. /\ t \in Nat /\ w \in Nat \ {0} /\ t + w - 1 <= MaxTime /\ res # {}
      /\ MaxTime \in Nat /\ Security \in Nat \ {0}
  BY DEF Placed, Table!Times, Table!Sizes
<1>2. /\ DOMAIN plan' = DOMAIN plan \cup {j}
      /\ plan'[j] = P
      /\ \A i \in Table!Planned : i # j /\ plan'[i] = plan[i] /\ i \in Table!Planned'
      /\ \A i \in Table!Planned' : i = j \/ i \in Table!Planned
  BY OthersStay DEF Placed
<1>3. j \in Table!Planned' /\ Table!Finish(j)' = t + w /\ During(j)' = t..t + w - 1
  BY <1>1, <1>2 DEF Table!Planned, Table!Finish, During
<1>4. \A i \in Table!Planned : Table!Finish(i)' = Table!Finish(i) /\ During(i)' = During(i)
  BY <1>2 DEF Table!Finish, During
<1>5. j \notin DOMAIN Free
  BY DEF PromiseInv, ContainerInv, Table!Planned
<1>6. /\ DOMAIN Free' = DOMAIN Free \cup (IF container THEN {j} ELSE {})
      /\ \A n \in DOMAIN Free : n # s => Free'[n] = Free[n]
      /\ \A u \in Table!Times : Free'[s][u] = IF u \in t..t + w - 1 THEN Free[s][u] \ res
                                        ELSE Free[s][u]
      /\ container => \A u \in Table!Times : Free'[j][u] = IF u \in t..t + w - Security THEN res
                                                     ELSE {}
  BY <1>5 DEF Placed
<1>7. \A n \in DOMAIN Free : \A u \in Table!Times : Free'[n][u] \subseteq Free[n][u]
  BY <1>6
<1>8. \A u \in t..t + w - 1 : u \in Table!Times /\ res \subseteq Free[s][u]
  BY <1>1 DEF Placed, Table!Times
<1>9. (DOMAIN plan \subseteq Jobs)'
  BY <1>2 DEF PromiseInv
<1>10. PlannedInv'
  <2> SUFFICES ASSUME NEW i \in Table!Planned'
               PROVE  /\ plan'[i].start \in Nat
                      /\ plan'[i].walltime \in Nat \ {0}
                      /\ plan'[i].set \in DOMAIN Free'
                      /\ plan'[i].res # {}
                      /\ \A u \in During(i)' : /\ u \in Table!Times
                                               /\ plan'[i].res \cap Free'[plan'[i].set][u] = {}
    BY DEF PlannedInv, Table!Times
  <2>1. CASE i = j
    <3>1. \A u \in t..t + w - 1 : u \in Table!Times /\ res \cap Free'[s][u] = {}
      BY <1>6, <1>8
    <3> QED
      BY <1>1, <1>2, <1>3, <1>6, <2>1, <3>1
  <2>2. CASE i \in Table!Planned
    <3>1. /\ plan[i].start \in Nat
          /\ plan[i].walltime \in Nat \ {0}
          /\ plan[i].set \in DOMAIN Free
          /\ plan[i].res # {}
          /\ \A u \in During(i) : u \in Table!Times /\ plan[i].res \cap Free[plan[i].set][u] = {}
      BY <2>2 DEF PromiseInv, PlannedInv
    <3>2. \A u \in During(i) : plan[i].res \cap Free'[plan[i].set][u] = {}
      BY <1>7, <3>1
    <3> QED
      BY <1>2, <1>4, <1>6, <2>2, <3>1, <3>2
  <2> QED
    BY <1>2, <2>1, <2>2
<1>11. ContainerInv'
  <2> SUFFICES ASSUME NEW c \in DOMAIN Free' \cap Jobs
               PROVE  /\ c \in Table!Planned'
                      /\ \A u \in Table!Times : /\ Free'[c][u] \subseteq plan'[c].res
                                                /\ Free'[c][u] # {} => u \in During(c)'
    BY DEF ContainerInv, Table!Times
  <2>1. CASE c = j
    <3>1. container
      BY <1>5, <1>6, <2>1
    <3>2. \A u \in Table!Times : u \in t..t + w - Security => u \in t..t + w - 1
      BY <1>1 DEF Table!Times
    <3> QED
      BY <1>2, <1>3, <1>6, <2>1, <3>1, <3>2
  <2>2. CASE c \in DOMAIN Free
    <3>1. /\ c \in Table!Planned
          /\ \A u \in Table!Times : /\ Free[c][u] \subseteq plan[c].res
                                    /\ Free[c][u] # {} => u \in During(c)
      BY <2>2 DEF PromiseInv, ContainerInv
    <3>2. \A u \in Table!Times : Free'[c][u] \subseteq Free[c][u]
      BY <1>7, <2>2
    <3>3. c \in Table!Planned' /\ plan'[c] = plan[c] /\ During(c)' = During(c)
      BY <1>2, <1>4, <3>1
    <3> QED
      BY <3>1, <3>2, <3>3
  <2> QED
    BY <1>6, <2>1, <2>2
<1>12. Table!NoDoubleBooking'
  <2>1. ASSUME NEW i \in Table!Planned, plan[i].set = s, Table!Overlap(i, j)'
        PROVE  plan[i].res \cap res = {}
    <3>1. /\ plan[i].start \in Nat /\ plan[i].walltime \in Nat \ {0}
          /\ \A u \in During(i) : plan[i].res \cap Free[s][u] = {}
      BY <2>1 DEF PromiseInv, PlannedInv
    <3>2. plan[i].start < t + w /\ t < plan[i].start + plan[i].walltime
      BY <1>2, <1>3, <1>4, <2>1 DEF Table!Overlap, Table!Finish
    <3>3. PICK u \in t..t + w - 1 : u \in During(i)
      <4>1. CASE plan[i].start <= t
        BY <1>1, <3>1, <3>2, <4>1 DEF During, Table!Finish
      <4>2. CASE t <= plan[i].start
        BY <1>1, <3>1, <3>2, <4>2 DEF During, Table!Finish
      <4> QED
        BY <1>1, <3>1, <4>1, <4>2
    <3> QED
      BY <1>8, <3>1, <3>3
  <2>2. ASSUME NEW i \in Table!Planned', NEW k \in Table!Planned', i # k,
               plan'[i].set = plan'[k].set, Table!Overlap(i, k)'
        PROVE  plan'[i].res \cap plan'[k].res = {}
    <3>1. CASE i = j
      <4>1. k \in Table!Planned /\ plan[k].set = s /\ Table!Overlap(k, j)'
        BY <1>2, <2>2, <3>1 DEF Table!Overlap
      <4> QED
        BY <1>2, <2>1, <3>1, <4>1
    <3>2. CASE k = j
      <4>1. i \in Table!Planned /\ plan[i].set = s /\ Table!Overlap(i, j)'
        BY <1>2, <2>2, <3>2 DEF Table!Overlap
      <4> QED
        BY <1>2, <2>1, <3>2, <4>1
    <3>3. CASE i \in Table!Planned /\ k \in Table!Planned
      <4>1. Table!Overlap(i, k) /\ plan[i].set = plan[k].set
        BY <1>2, <1>4, <2>2, <3>3 DEF Table!Overlap
      <4> QED
        BY <1>2, <2>2, <3>3, <4>1 DEF PromiseInv, Table!NoDoubleBooking
    <3> QED
      BY <1>2, <2>2, <3>1, <3>2, <3>3
  <2> QED
    BY <2>2 DEF Table!NoDoubleBooking
<1>13. Table!InnerWithinContainer'
  <2>1. ASSUME s \in Jobs
        PROVE  /\ s \in Table!Planned
               /\ res \subseteq plan[s].res
               /\ plan[s].start <= t /\ t + w <= Table!Finish(s)
    <3>1. s \in Table!Planned
      BY <2>1 DEF PromiseInv, ContainerInv
    <3>a. \A u \in Table!Times : /\ Free[s][u] \subseteq plan[s].res
                                 /\ Free[s][u] # {} => u \in During(s)
      BY <2>1 DEF PromiseInv, ContainerInv
    <3>2. \A u \in t..t + w - 1 : res \subseteq plan[s].res /\ u \in During(s)
      <4> SUFFICES ASSUME NEW u \in t..t + w - 1
                   PROVE  res \subseteq plan[s].res /\ u \in During(s)
        OBVIOUS
      <4>1. u \in Table!Times /\ res \subseteq Free[s][u]
        BY <1>8
      <4>2. Free[s][u] \subseteq plan[s].res /\ (Free[s][u] # {} => u \in During(s))
        BY <3>a, <4>1
      <4> QED
        BY <1>1, <4>1, <4>2
    <3>3. t \in During(s) /\ t + w - 1 \in During(s) /\ res \subseteq plan[s].res
      BY <1>1, <3>2
    <3>4. plan[s].start \in Nat /\ plan[s].walltime \in Nat
      BY <3>1 DEF PromiseInv, PlannedInv
    <3> QED
      BY <1>1, <3>1, <3>3, <3>4 DEF During, Table!Finish
  <2>2. ASSUME NEW i \in Table!Planned, plan[i].set \in Jobs
        PROVE  /\ plan[i].set \in Table!Planned
               /\ plan[i].res \subseteq plan[plan[i].set].res
               /\ plan[plan[i].set].start <= plan[i].start
               /\ Table!Finish(i) <= Table!Finish(plan[i].set)
    BY <2>2 DEF PromiseInv, Table!InnerWithinContainer
  <2>3. ASSUME NEW i \in Table!Planned', plan'[i].set \in Jobs
        PROVE  /\ plan'[i].set \in Table!Planned'
               /\ plan'[i].res \subseteq plan'[plan'[i].set].res
               /\ plan'[plan'[i].set].start <= plan'[i].start
               /\ plan'[i].start + plan'[i].walltime
                    <= plan'[plan'[i].set].start + plan'[plan'[i].set].walltime
    <3>1. CASE i = j
      BY <1>2, <2>1, <2>3, <3>1 DEF Table!Finish
    <3>2. CASE i \in Table!Planned
      <4>1. plan'[i] = plan[i] /\ plan[i].set \in Jobs
        BY <1>2, <2>3, <3>2
      <4>2. plan[i].set \in Table!Planned /\ plan'[plan[i].set] = plan[plan[i].set]
        BY <1>2, <2>2, <3>2, <4>1
      <4> QED
        BY <1>2, <2>2, <3>2, <4>1, <4>2 DEF Table!Finish
    <3> QED
      BY <1>2, <2>3, <3>1, <3>2
  <2> QED
    BY <2>3 DEF Table!InnerWithinContainer, Table!Finish
<1>14. Table!DependenciesFirst'
  <2> SUFFICES ASSUME NEW i \in Table!Planned', NEW d \in plan'[i].deps
               PROVE  d \in Table!Planned' /\ plan'[i].start >= Table!Finish(d)'
    BY DEF Table!DependenciesFirst
  <2>1. CASE i = j
    BY <1>2, <1>4, <2>1 DEF Placed
  <2>2. CASE i \in Table!Planned
    BY <1>2, <1>4, <2>2 DEF PromiseInv, Table!DependenciesFirst
  <2> QED
    BY <1>2, <2>1, <2>2
<1> QED
  BY <1>9, <1>10, <1>11, <1>12, <1>13, <1>14 DEF PromiseInv

-----------------------------------------------------------------------------
(* At first no job is planned *)
LEMMA PromiseInit == ASSUME Table!Init PROVE PromiseInv
<1>1. plan = <<>> /\ DOMAIN plan = {} /\ Table!Planned = {}
  BY DEF Table!Init, Table!Planned
<1> QED
  BY <1>1 DEF Table!Init, PromiseInv, PlannedInv, ContainerInv, Table!NoDoubleBooking,
         Table!InnerWithinContainer,
              Table!DependenciesFirst

(* Each step of the table keeps the promise *)
LEMMA NextKeepsPromise ==
  ASSUME Table!Sizes, Table!SoundRequests, PromiseInv, [Table!Next]_<<Free, plan>>
  PROVE  PromiseInv'
<1>1. ASSUME NEW j \in Jobs \ DOMAIN plan, Table!Skip(j)
      PROVE  PromiseInv'
  BY <1>1, NotPlannedKeepsPromise DEF Table!Skip
<1>2. ASSUME NEW j \in Jobs \ DOMAIN plan, NEW s \in DOMAIN Free, NEW rqts \in Requests,
             NEW deps \in SUBSET Table!Planned, Table!NoRoom(j, s, rqts, deps)
      PROVE  PromiseInv'
  BY <1>2, NotPlannedKeepsPromise DEF Table!NoRoom
<1>3. ASSUME NEW j \in Jobs \ DOMAIN plan, NEW s \in DOMAIN Free, NEW rqts \in Requests,
             NEW deps \in SUBSET Table!Planned, NEW container \in BOOLEAN,
             Table!Place(j, s, rqts, deps, container)
      PROVE  PromiseInv'
  <2>1. PICK t, w, res : Placed(j, s, deps, container, t, w, res)
    BY <1>3, PlaceIsPlaced
  <2> QED
    BY <2>1, PlacedKeepsPromise
<1>4. CASE UNCHANGED <<Free, plan>>
  BY <1>4 DEF PromiseInv, PlannedInv, ContainerInv, Table!NoDoubleBooking,
              Table!InnerWithinContainer,
              Table!DependenciesFirst, Table!Planned, Table!Finish, During, Table!Overlap
<1>5. CASE Table!Next
  <2>1. PICK j \in Jobs \ DOMAIN plan :
          \/ Table!Skip(j)
          \/ \E s \in DOMAIN Free, rqts \in Requests, deps \in SUBSET Table!Planned :
               \/ \E container \in BOOLEAN : Table!Place(j, s, rqts, deps, container)
               \/ Table!NoRoom(j, s, rqts, deps)
    BY <1>5 DEF Table!Next
  <2> QED
    BY <1>1, <1>2, <1>3, <2>1
<1> QED
  BY <1>4, <1>5

(* No resource is given to two jobs at the same time, inner jobs stay in   *)
(* their containers, and dependencies come first: what a round promises,   *)
(* by any number of jobs, requests and sets.                               *)
THEOREM PromiseKept ==
  ASSUME Table!Sizes, Table!SoundRequests
  PROVE  Table!Spec => []Promise
<1>1. Table!Init => PromiseInv
  BY PromiseInit
<1>2. PromiseInv /\ [Table!Next]_<<Free, plan>> => PromiseInv'
  BY NextKeepsPromise
<1>3. PromiseInv => Promise
  BY DEF PromiseInv, Promise
<1> QED
  BY <1>1, <1>2, <1>3, PTL DEF Table!Spec

-----------------------------------------------------------------------------
(* The invariant of a round *)

(* The slots of a set, from its first date to its last one *)
SoundSlots(slots, b, e) ==
  /\ \E order : Linked(slots, order, b, e)
  /\ NoObstacle(slots) /\ e <= MaxTime

(* Each set has sound slots, and a cache that misses no date *)
SetsInv ==
  \A s \in DOMAIN sets : /\ SoundSlots(sets[s].slots, Span(s)[1], Span(s)[2])
                         /\ EarlyCache(sets[s])

(* A planned job has a set that exists, and ends where a slot begins *)
PlanInv ==
  /\ DOMAIN plan \subseteq Jobs
  /\ DOMAIN sets \cap Jobs \subseteq Planned
  /\ \A j \in DOMAIN plan : plan[j] \in Record
  /\ \A j \in Planned :
       /\ plan[j].walltime # 0
       /\ plan[j].set \in DOMAIN sets
       /\ End(plan[j]) - 1 <= MaxTime
       /\ \A s \in DOMAIN sets :
            plan[j].set = s => IsBoundary(sets[s].slots, End(plan[j]), Span(s)[2])

(* What was there already is not free, and a container gives what it has *)
BookedInv ==
  \A k \in booked :
    /\ k.id \notin Jobs /\ k.inner \notin Jobs
    /\ k.start \in Int /\ k.walltime \in Nat \ {0}
    /\ k.inner \in DOMAIN sets =>
         \A t \in 0..MaxTime : k.start <= t /\ t < End(k) =>
           k.res \cap FreeAt(sets[k.inner].slots, t) = {}
    /\ k.id \in DOMAIN sets =>
         \A t \in 0..MaxTime : FreeAt(sets[k.id].slots, t) # {} =>
           /\ k.start <= t /\ t < End(k)
           /\ FreeAt(sets[k.id].slots, t) \subseteq k.res

(* The parts of NoDoubleBooking and InnerWithinContainer about those jobs *)
ApartFromBooked ==
  \A j \in Planned, k \in booked :
    k.inner = plan[j].set /\ Overlap(plan[j], k) => plan[j].res \cap k.res = {}

WithinBooked ==
  \A j \in Planned, k \in booked : k.id = plan[j].set =>
    /\ plan[j].res \subseteq k.res
    /\ k.start <= plan[j].start /\ End(plan[j]) <= End(k)

(* All of them *)
RoundInv ==
  /\ SetsInv /\ PlanInv /\ BookedInv /\ ApartFromBooked /\ WithinBooked
  /\ raised \in {"none", "slots", "walltime", "set"}

(* One slot is a list of slots *)
LEMMA OneSlotIs ==
  ASSUME NEW res \in SUBSET Resources, NEW b \in Nat, NEW e \in Nat, b <= e,
         NEW slots, slots = OneSlot(res, b, e)
  PROVE  /\ \E order : Linked(slots, order, b, e)
         /\ NoObstacle(slots)
         /\ \A u \in Int : FreeAt(slots, u) = IF u \in b..e THEN res ELSE {}
<1>1. slots = <<[next |-> 0, b |-> b, e |-> e, itvs |-> res]>>
  BY DEF OneSlot
<1>2. /\ slots \in Seq(Slot) /\ slots # <<>> /\ Len(slots) = 1 /\ DOMAIN slots = {1}
      /\ slots[1].next = 0 /\ slots[1].b = b /\ slots[1].e = e /\ slots[1].itvs = res
  <2>1. [next |-> 0, b |-> b, e |-> e, itvs |-> res] \in Slot
    BY DEF Slot
  <2>2. slots \in Seq(Slot) /\ slots # <<>> /\ Len(slots) = 1
    BY <1>1, <2>1
  <2>3. DOMAIN slots = {1}
    BY <2>2
  <2>4. slots[1] = [next |-> 0, b |-> b, e |-> e, itvs |-> res]
    BY <1>1
  <2> QED
    BY <2>2, <2>3, <2>4
<1> DEFINE order == [i \in {1} |-> 1]
<1>3. InOrder(slots, order, b, e)
  BY <1>2 DEF InOrder
<1>4. NoObstacle(slots)
  BY <1>2 DEF NoObstacle
<1>5. ASSUME NEW u \in Int
      PROVE  FreeAt(slots, u) = IF u \in b..e THEN res ELSE {}
  <2>1. CASE u \in b..e
    <3>1. {k \in DOMAIN slots : slots[k].b <= u /\ u <= slots[k].e} = {1}
      BY <1>2, <2>1
    <3> QED
      BY <1>2, <2>1, <3>1 DEF FreeAt
  <2>2. CASE u \notin b..e
    <3>1. {k \in DOMAIN slots : slots[k].b <= u /\ u <= slots[k].e} = {}
      BY <1>2, <2>2
    <3> QED
      BY <2>2, <3>1 DEF FreeAt
  <2> QED
    BY <2>1, <2>2
<1>6. Linked(slots, order, b, e)
  BY <1>2, <1>3 DEF Linked
<1> QED
  BY <1>4, <1>5, <1>6

(* The date from which the jobs it waits for are over *)
LEMMA MinStartIs ==
  ASSUME Table!Sizes, PlanInv, NEW deps \in SUBSET Planned, NEW min, min = MinStart(deps)
  PROVE  /\ min \in Int
         /\ deps = {} => min = -1
         /\ deps # {} => min >= 0 /\ \E d \in deps : min = End(plan[d])
         /\ \A d \in deps : End(plan[d]) <= min
<1> DEFINE S == {-1} \cup {End(plan[d]) : d \in deps}
<1>1. MaxTime \in Nat
  BY DEF Table!Sizes
<1>2. \A d \in deps : End(plan[d]) \in Nat /\ End(plan[d]) <= MaxTime + 1
  <2> SUFFICES ASSUME NEW d \in deps
               PROVE  End(plan[d]) \in Nat /\ End(plan[d]) <= MaxTime + 1
    OBVIOUS
  <2>1. d \in DOMAIN plan /\ plan[d].start >= 0 /\ End(plan[d]) - 1 <= MaxTime
    BY DEF PlanInv, Planned
  <2>2. plan[d].start \in Int /\ plan[d].walltime \in Nat
    BY <1>1, <2>1 DEF PlanInv, Record
  <2> QED
    BY <1>1, <2>1, <2>2 DEF End
<1> DEFINE P == {MaxTime + 1 - x : x \in S}
<1>3. \A x \in S : x \in Int /\ x <= MaxTime + 1 /\ x >= -1
  BY <1>1, <1>2
<1>4. P \in SUBSET Nat /\ P # {}
  <2>1. \A x \in S : MaxTime + 1 - x \in Nat
    <3> HIDE DEF S
    <3> QED
      BY <1>1, <1>3
  <2>2. -1 \in S
    OBVIOUS
  <2> HIDE DEF S
  <2> QED
    BY <2>1, <2>2
<1>5. PICK p \in P : \A k \in P : p <= k
  <2> HIDE DEF P
  <2> QED
    BY <1>4, FirstFrom
<1>6. PICK top \in S : p = MaxTime + 1 - top
  OBVIOUS
<1>7. \A x \in S : top >= x
  <2> SUFFICES ASSUME NEW x \in S
               PROVE  top >= x
    OBVIOUS
  <2>1. MaxTime + 1 - top <= MaxTime + 1 - x
    BY <1>5, <1>6
  <2> HIDE DEF S
  <2> QED
    BY <1>1, <1>3, <2>1
<1> HIDE DEF P
<1>8. min = Max(S)
  BY DEF MinStart
<1>9. min \in S /\ \A x \in S : min >= x
  <2> HIDE DEF S
  <2> QED
    BY <1>7, <1>8 DEF Max
<1>10. \A d \in deps : End(plan[d]) \in S
  OBVIOUS
<1>11. min = -1 \/ \E d \in deps : min = End(plan[d])
  BY <1>9
<1> HIDE DEF S
<1>12. min \in Int
  BY <1>3, <1>9
<1>13. \A d \in deps : End(plan[d]) <= min
  BY <1>2, <1>9, <1>10, <1>12
<1>14. ASSUME deps # {}
       PROVE  min >= 0 /\ \E d \in deps : min = End(plan[d])
  <2>1. PICK d \in deps : TRUE
    BY <1>14
  <2>2. min >= 0
    BY <1>2, <1>12, <1>13, <2>1
  <2> QED
    BY <1>11, <2>2
<1> QED
  BY <1>11, <1>12, <1>13, <1>14

(* What one alternative of a job finds *)
LEMMA AlternativeIs ==
  ASSUME IsFiniteSet(Resources), NEW set, NEW slots, slots = set.slots,
         NEW order, NEW b, NEW e, Linked(slots, order, b, e), NoObstacle(slots),
         EarlyCache(set), NEW rqt, IsRequest(rqt), NEW min \in Int, min = -1 \/ min >= 0,
         NEW first, first = FirstSlot(set, rqt, min),
         NEW found, found = FindFrom(slots, first, rqt)
  PROVE  /\ min = -1 \/ IsBoundary(slots, min, e) => StartsEarly(slots, found[1], rqt, min)
         /\ found[1] # 0 =>
              \E m, n \in DOMAIN slots :
                /\ found = <<order[m], order[n]>>
                /\ Reaches(slots, order, m, n, rqt)
                /\ Solutions(Available(slots, order[m], order[n]), rqt) # {}
                /\ min <= slots[order[m]].b
<1>1. /\ first \in 0..Len(slots)
      /\ min >= 0 /\ first # 0 => min <= slots[first].b
      /\ min = -1 \/ (min >= 0 /\ IsBoundary(slots, min, e)) =>
           StartsEarly(slots, first, rqt, min)
  BY FirstSlotIs
<1>2. ASSUME min = -1 \/ IsBoundary(slots, min, e)
      PROVE  StartsEarly(slots, found[1], rqt, min)
  <2>1. StartsEarly(slots, first, rqt, min)
    BY <1>1, <1>2
  <2>2. StartsEarly(slots, FindFrom(slots, first, rqt)[1], rqt, min)
    BY <1>1, <2>1, SearchIsEarly
  <2> QED
    BY <2>2
<1>3. ASSUME found[1] # 0
      PROVE  \E m, n \in DOMAIN slots :
               /\ found = <<order[m], order[n]>>
               /\ Reaches(slots, order, m, n, rqt)
               /\ Solutions(Available(slots, order[m], order[n]), rqt) # {}
               /\ min <= slots[order[m]].b
  <2>1. /\ first \in DOMAIN slots
        /\ \E m, n \in DOMAIN slots :
             /\ found = <<order[m], order[n]>>
             /\ Reaches(slots, order, m, n, rqt)
             /\ Solutions(Available(slots, order[m], order[n]), rqt) # {}
             /\ slots[first].b <= slots[order[m]].b
    BY <1>1, <1>3, SearchFits
  <2>2. PICK m, n \in DOMAIN slots :
          /\ found = <<order[m], order[n]>>
          /\ Reaches(slots, order, m, n, rqt)
          /\ Solutions(Available(slots, order[m], order[n]), rqt) # {}
          /\ slots[first].b <= slots[order[m]].b
    BY <2>1
  <2>3. first # 0 /\ slots[first].b \in Nat /\ slots[order[m]].b \in Nat
    <3>1. slots \in Seq(Slot) /\ DOMAIN slots = 1..Len(slots) /\ slots[order[m]].b \in Nat
      BY OrderTypes
    <3> QED
      BY <2>1, <3>1, SlotTypes
  <2>4. min <= slots[order[m]].b
    BY <1>1, <2>2, <2>3
  <2> QED
    BY <2>2, <2>4
<1> QED
  BY <1>2, <1>3

-----------------------------------------------------------------------------
(* The table is what the slots stand for *)

(* The sets and their first dates, for the proofs below *)
LEMMA RoundTypes ==
  ASSUME Table!Sizes, RoundInv, NEW s \in DOMAIN sets
  PROVE  /\ IsFiniteSet(Resources) /\ MaxTime \in Nat /\ Security \in Nat \ {0}
         /\ \E order : Linked(sets[s].slots, order, Span(s)[1], Span(s)[2])
         /\ sets[s].slots \in Seq(Slot)
         /\ NoObstacle(sets[s].slots) /\ EarlyCache(sets[s]) /\ Span(s)[2] <= MaxTime
<1>1. IsFiniteSet(Resources) /\ MaxTime \in Nat /\ Security \in Nat \ {0}
  BY SameFinite DEF Table!Sizes
<1>2. SoundSlots(sets[s].slots, Span(s)[1], Span(s)[2]) /\ EarlyCache(sets[s])
  BY DEF RoundInv, SetsInv
<1>3. PICK order : Linked(sets[s].slots, order, Span(s)[1], Span(s)[2])
  BY <1>2 DEF SoundSlots
<1>4. sets[s].slots \in Seq(Slot)
  BY <1>3 DEF Linked
<1> QED
  BY <1>1, <1>2, <1>3, <1>4 DEF SoundSlots

(* The planned jobs, whatever the list of slots *)
LEMMA PlannedTypes ==
  ASSUME Table!Sizes, RoundInv, NEW j \in Planned
  PROVE  /\ j \in DOMAIN plan /\ j \in Jobs
         /\ plan[j].start \in Nat /\ plan[j].walltime \in Nat \ {0}
         /\ End(plan[j]) \in Nat /\ End(plan[j]) = plan[j].start + plan[j].walltime
         /\ End(plan[j]) = Table!Finish(j)
         /\ plan[j].set \in DOMAIN sets
<1>1. j \in DOMAIN plan /\ plan[j].start >= 0 /\ j \in Jobs
  BY DEF Planned, RoundInv, PlanInv
<1>2. plan[j] \in Record /\ plan[j].walltime # 0 /\ plan[j].set \in DOMAIN sets
  BY <1>1 DEF RoundInv, PlanInv
<1>3. MaxTime \in Nat
  BY DEF Table!Sizes
<1>4. plan[j].start \in Nat /\ plan[j].walltime \in Nat \ {0}
  BY <1>1, <1>2, <1>3 DEF Record
<1> QED
  BY <1>1, <1>2, <1>4 DEF End, Table!Finish

(* The table by sets and dates *)
LEMMA FreeIs ==
  /\ DOMAIN Free = DOMAIN sets
  /\ \A s \in DOMAIN sets : /\ Free[s] = [t \in 0..MaxTime |-> FreeAt(sets[s].slots, t)]
                            /\ \A t \in 0..MaxTime : Free[s][t] = FreeAt(sets[s].slots, t)
  BY DEF Free

(* The dates of a request, by the slots *)
LEMMA DatesAre ==
  ASSUME Table!Sizes, RoundInv, NEW s \in DOMAIN sets, NEW rqt, IsRequest(rqt),
         NEW deps \in SUBSET Planned, NEW t
  PROVE  t \in Table!Dates(s, rqt, deps) <=>
           /\ t \in 0..MaxTime
           /\ \A d \in deps : t >= End(plan[d])
           /\ t + rqt.walltime - 1 <= MaxTime
           /\ Feasible(sets[s].slots, t, rqt)
<1>1. MaxTime \in Nat /\ rqt.walltime \in Nat \ {0}
  BY DEF Table!Sizes, IsRequest
<1>2. \A d \in deps : End(plan[d]) = Table!Finish(d)
  BY PlannedTypes
<1>3. ASSUME t \in 0..MaxTime, t + rqt.walltime - 1 <= MaxTime
      PROVE  Table!FreeDuring(s, t, rqt) = FreeAlong(sets[s].slots, t, rqt)
  <2>1. \A u \in t..t + rqt.walltime - 1 : u \in 0..MaxTime
    BY <1>1, <1>3
  <2>2. \A u \in t..t + rqt.walltime - 1 : Free[s][u] = FreeAt(sets[s].slots, u)
    BY <2>1, FreeIs
  <2> QED
    BY <2>2 DEF Table!FreeDuring, FreeAlong
<1>4. t \in Table!Dates(s, rqt, deps) <=>
        /\ t \in 0..MaxTime
        /\ \A d \in deps : t >= Table!Finish(d)
        /\ t + rqt.walltime - 1 <= MaxTime
        /\ Cardinality(Table!FreeDuring(s, t, rqt)) >= rqt.nb
  BY SameCardinality DEF Table!Dates, Table!Times
<1> QED
  BY <1>2, <1>3, <1>4 DEF Feasible

(* What a job that has a place does to the sets *)
Assigned(j, s, deps, container, job, new, cache) ==
  /\ job = [start |-> job.start, walltime |-> job.walltime, res |-> job.res,
            set |-> s, deps |-> deps]
  /\ Treated(j, job)
  /\ sets' = [n \in DOMAIN sets \cup (IF container THEN {j} ELSE {}) |->
                IF n = j
                THEN Inside(job)
                ELSE IF n = s THEN [slots |-> new, cache |-> cache] ELSE sets[n]]
  /\ UNCHANGED <<booked, raised>>

(* The job is at a place where it can be *)
RightPlace(s, job, new, cache) ==
  /\ job.start \in 0..MaxTime /\ job.walltime \in Nat \ {0} /\ job.walltime >= Security
  /\ End(job) - 1 <= MaxTime /\ job.res \subseteq Resources /\ job.res # {}
  /\ \A u \in job.start..End(job) - 1 : job.res \subseteq FreeAt(sets[s].slots, u)
  /\ SoundSlots(new, Span(s)[1], Span(s)[2])
  /\ FreeBut(sets[s].slots, new, job)
  /\ EarlyCache([slots |-> new, cache |-> cache])
  /\ \A i \in DOMAIN sets[s].slots : i \in DOMAIN new /\ new[i].b = sets[s].slots[i].b
  /\ IsBoundary(new, End(job), Span(s)[2])

(* What the sets and the plan are after it *)
Changed(j, s, container, job, new, cache) ==
  /\ j \notin DOMAIN sets /\ j # s
  /\ DOMAIN sets' = DOMAIN sets \cup (IF container THEN {j} ELSE {})
  /\ sets'[s] = [slots |-> new, cache |-> cache]
  /\ \A n \in DOMAIN sets : n # s => sets'[n] = sets[n]
  /\ container => sets'[j] = [slots |-> OneSlot(job.res, job.start, End(job) - Security),
                              cache |-> NoCache]
  /\ DOMAIN plan' = DOMAIN plan \cup {j} /\ plan'[j] = job
  /\ \A i \in DOMAIN plan : i # j /\ plan'[i] = plan[i]
  /\ \A i \in Planned : i # j /\ i \in Planned' /\ plan'[i] = plan[i]
  /\ Planned' = Planned \cup {j}
  /\ \A n \in DOMAIN sets : Span(n)' = Span(n)

(* The assignment, and that no set but the two of the job changes *)
LEMMA AssignedIs ==
  ASSUME Table!Sizes, RoundInv, NEW j \in Jobs \ DOMAIN plan, NEW s \in DOMAIN sets,
         NEW deps \in SUBSET Planned, NEW container \in BOOLEAN, NEW job, NEW new, NEW cache,
         Assigned(j, s, deps, container, job, new, cache), RightPlace(s, job, new, cache)
  PROVE  Changed(j, s, container, job, new, cache)
<1>1. j \notin DOMAIN sets
  BY DEF RoundInv, PlanInv, Planned
<1>2. DOMAIN plan' = DOMAIN plan \cup {j} /\ plan'[j] = job
      /\ \A i \in DOMAIN plan : i # j /\ plan'[i] = plan[i]
  BY DEF Assigned, Treated
<1>3. job.start \in Nat
  BY DEF RightPlace, Table!Sizes
<1>4. Planned' = Planned \cup {j} /\ \A i \in Planned : i # j /\ plan'[i] = plan[i]
  BY <1>2, <1>3 DEF Planned
<1>5. ASSUME NEW n \in DOMAIN sets
      PROVE  Span(n)' = Span(n)
  <2>1. n # j
    BY <1>1
  <2>2. CASE n = "default"
    BY <2>2, NamesAssumption DEF Span, Planned, RoundInv, PlanInv
  <2>3. CASE n # "default" /\ n \in Planned
    BY <1>4, <2>3 DEF Span
  <2>4. CASE n # "default" /\ n \notin Planned
    BY <1>4, <2>1, <2>4 DEF Span
  <2> QED
    BY <2>2, <2>3, <2>4
<1> QED
  BY <1>1, <1>2, <1>4, <1>5 DEF Assigned, Changed, Inside

(* The same, with what is free in the table: the steps of Timetable *)
LEMMA FreeAfter ==
  ASSUME Table!Sizes, RoundInv, NEW j \in Jobs \ DOMAIN plan, NEW s \in DOMAIN sets,
         NEW deps \in SUBSET Planned, NEW container \in BOOLEAN, NEW job, NEW new, NEW cache,
         Assigned(j, s, deps, container, job, new, cache), RightPlace(s, job, new, cache),
         NEW rqt, rqt.walltime = job.walltime
  PROVE  Free' = [n \in DOMAIN Free \cup (IF container THEN {j} ELSE {}) |->
                    IF n = j THEN Table!Inside(job.start, rqt, job.res)
                    ELSE IF n = s THEN Table!Without(Free[s], job.start, rqt, job.res)
                    ELSE Free[n]]
<1>1. /\ j \notin DOMAIN sets /\ j # s
      /\ DOMAIN sets' = DOMAIN sets \cup (IF container THEN {j} ELSE {})
      /\ sets'[s] = [slots |-> new, cache |-> cache]
      /\ \A n \in DOMAIN sets : n # s => sets'[n] = sets[n]
      /\ container => sets'[j] = [slots |-> OneSlot(job.res, job.start, End(job) - Security),
                                  cache |-> NoCache]
  <2>1. Changed(j, s, container, job, new, cache)
    BY AssignedIs
  <2> QED
    BY <2>1 DEF Changed
<1>2. /\ job.start \in Nat /\ job.walltime \in Nat \ {0} /\ job.walltime >= Security
      /\ End(job) = job.start + job.walltime /\ End(job) \in Nat
      /\ job.res \in SUBSET Resources /\ Security \in Nat \ {0} /\ MaxTime \in Nat
  BY DEF RightPlace, End, Table!Sizes
<1> DEFINE F(n) == IF n = j THEN Table!Inside(job.start, rqt, job.res)
                   ELSE IF n = s THEN Table!Without(Free[s], job.start, rqt, job.res)
                   ELSE Free[n]
           G(n) == [t \in 0..MaxTime |-> FreeAt(sets'[n].slots, t)]
<1>3. Free' = [n \in DOMAIN sets' |-> G(n)]
  BY DEF Free
<1>4. ASSUME container
      PROVE  G(j) = F(j)
  <2>1. job.start \in Nat /\ End(job) - Security \in Nat /\ job.start <= End(job) - Security
    BY <1>2
  <2>2. sets'[j].slots = OneSlot(job.res, job.start, End(job) - Security)
    BY <1>1, <1>4
  <2> DEFINE one == sets'[j].slots
             last == End(job) - Security
  <2>3. \A u \in Int : FreeAt(one, u) = IF u \in job.start..last THEN job.res ELSE {}
    <3>1. one = OneSlot(job.res, job.start, last) /\ last \in Nat /\ job.start <= last
      BY <2>1, <2>2
    <3> HIDE DEF one, last
    <3> QED
      BY <1>2, <3>1, OneSlotIs
  <2>4. last = job.start + rqt.walltime - Security
    BY <1>2
  <2> HIDE DEF last
  <2>5. \A t \in 0..MaxTime :
          FreeAt(one, t) = IF t \in job.start..job.start + rqt.walltime - Security
                           THEN job.res ELSE {}
    BY <2>3, <2>4
  <2> HIDE DEF one
  <2>6. [t \in 0..MaxTime |-> FreeAt(one, t)] = Table!Inside(job.start, rqt, job.res)
    BY <2>5 DEF Table!Inside, Table!Times
  <2> QED
    BY <2>6 DEF one
<1>5. G(s) = F(s)
  <2>1. sets'[s].slots = new
    BY <1>1
  <2>2. \A u \in Int : FreeAt(new, u) = IF u \in job.start..End(job) - 1
                                        THEN FreeAt(sets[s].slots, u) \ job.res
                                        ELSE FreeAt(sets[s].slots, u)
    BY DEF RightPlace, FreeBut
  <2>3. job.start..End(job) - 1 = job.start..job.start + rqt.walltime - 1
    BY <1>2
  <2>4. \A t \in 0..MaxTime :
          FreeAt(new, t) = IF t \in job.start..job.start + rqt.walltime - 1
                           THEN Free[s][t] \ job.res ELSE Free[s][t]
    <3> SUFFICES ASSUME NEW t \in 0..MaxTime
                 PROVE  FreeAt(new, t) = IF t \in job.start..job.start + rqt.walltime - 1
                                         THEN Free[s][t] \ job.res ELSE Free[s][t]
      OBVIOUS
    <3>1. Free[s][t] = FreeAt(sets[s].slots, t) /\ t \in Int
      BY FreeIs
    <3>2. FreeAt(new, t) = IF t \in job.start..End(job) - 1
                           THEN FreeAt(sets[s].slots, t) \ job.res ELSE FreeAt(sets[s].slots, t)
      BY <2>2, <3>1
    <3> QED
      BY <2>3, <3>1, <3>2
  <2>5. [t \in 0..MaxTime |-> FreeAt(new, t)]
          = Table!Without(Free[s], job.start, rqt, job.res)
    BY <2>4 DEF Table!Without, Table!Times
  <2> QED
    BY <1>1, <2>1, <2>5
<1>6. ASSUME NEW n \in DOMAIN sets, n # s
      PROVE  G(n) = F(n)
  BY <1>1, <1>6, FreeIs
<1>7. \A n \in DOMAIN sets' : G(n) = F(n)
  <2>1. \A n \in DOMAIN sets' : n \in DOMAIN sets \/ (n = j /\ container)
    BY <1>1
  <2> HIDE DEF F, G
  <2> QED
    BY <1>4, <1>5, <1>6, <2>1
<1>8. DOMAIN sets' = DOMAIN Free \cup (IF container THEN {j} ELSE {})
  BY <1>1, FreeIs
<1>9. Free' = [n \in DOMAIN Free \cup (IF container THEN {j} ELSE {}) |-> F(n)]
  <2> HIDE DEF F, G
  <2> QED
    BY <1>3, <1>7, <1>8
<1> QED
  BY <1>9

(* The set of the job is split soundly, a container has one slot *)
LEMMA AssignedKeepsSets ==
  ASSUME Table!Sizes, RoundInv, NEW j \in Jobs \ DOMAIN plan, NEW s \in DOMAIN sets,
         NEW deps \in SUBSET Planned, NEW container \in BOOLEAN, NEW job, NEW new, NEW cache,
         Assigned(j, s, deps, container, job, new, cache), RightPlace(s, job, new, cache)
  PROVE  SetsInv'
<1> SUFFICES ASSUME NEW n \in DOMAIN sets'
             PROVE  /\ SoundSlots(sets'[n].slots, Span(n)'[1], Span(n)'[2])
                    /\ EarlyCache(sets'[n])
  BY DEF SetsInv
<1>1. /\ j \notin DOMAIN sets /\ j # s
      /\ DOMAIN sets' = DOMAIN sets \cup (IF container THEN {j} ELSE {})
      /\ sets'[s] = [slots |-> new, cache |-> cache]
      /\ \A k \in DOMAIN sets : k # s => sets'[k] = sets[k]
      /\ container => sets'[j] = [slots |-> OneSlot(job.res, job.start, End(job) - Security),
                                  cache |-> NoCache]
      /\ plan'[j] = job /\ Planned' = Planned \cup {j}
      /\ \A k \in DOMAIN sets : Span(k)' = Span(k)
  <2>1. Changed(j, s, container, job, new, cache)
    BY AssignedIs
  <2> QED
    BY <2>1 DEF Changed
<1>2. CASE n = s
  BY <1>1, <1>2 DEF RightPlace
<1>3. CASE n # s /\ n \in DOMAIN sets
  BY <1>1, <1>3 DEF RoundInv, SetsInv
<1>4. CASE n = j /\ container
  <2>1. /\ job.start \in Nat /\ job.walltime \in Nat \ {0} /\ job.walltime >= Security
        /\ End(job) = job.start + job.walltime /\ End(job) \in Nat /\ End(job) - 1 <= MaxTime
        /\ job.res \in SUBSET Resources /\ Security \in Nat \ {0} /\ MaxTime \in Nat
    BY DEF RightPlace, End, Table!Sizes
  <2> DEFINE last == End(job) - Security
  <2>2. last \in Nat /\ job.start <= last /\ last <= MaxTime
    BY <2>1
  <2>3. Span(j)'[1] = job.start /\ Span(j)'[2] = last
    <3>1. j # "default"
      BY NamesAssumption
    <3> QED
      BY <1>1, <3>1 DEF Span
  <2> DEFINE one == sets'[j].slots
  <2>4. one = OneSlot(job.res, job.start, last) /\ sets'[j].cache = NoCache
    BY <1>1, <1>4
  <2>5. (\E order : Linked(one, order, job.start, last)) /\ NoObstacle(one)
    <3> HIDE DEF one, last
    <3> QED
      BY <2>1, <2>2, <2>4, OneSlotIs
  <2>6. EarlyCache(sets'[j])
    <3>1. DOMAIN sets'[j].cache = {}
      BY <2>4 DEF NoCache
    <3> QED
      BY <3>1 DEF EarlyCache
  <2>7. SoundSlots(one, job.start, last)
    BY <2>2, <2>5 DEF SoundSlots
  <2> HIDE DEF last
  <2> QED
    BY <1>4, <2>3, <2>6, <2>7
<1> QED
  BY <1>1, <1>2, <1>3, <1>4

(* The end of a job stays the first date of a slot *)
LEMMA AssignedKeepsPlan ==
  ASSUME Table!Sizes, RoundInv, NEW j \in Jobs \ DOMAIN plan, NEW s \in DOMAIN sets,
         NEW deps \in SUBSET Planned, NEW container \in BOOLEAN, NEW job, NEW new, NEW cache,
         Assigned(j, s, deps, container, job, new, cache), RightPlace(s, job, new, cache)
  PROVE  PlanInv'
<1>1. /\ j \notin DOMAIN sets /\ j # s
      /\ DOMAIN sets' = DOMAIN sets \cup (IF container THEN {j} ELSE {})
      /\ sets'[s] = [slots |-> new, cache |-> cache]
      /\ \A k \in DOMAIN sets : k # s => sets'[k] = sets[k]
      /\ DOMAIN plan' = DOMAIN plan \cup {j} /\ plan'[j] = job
      /\ \A i \in DOMAIN plan : i # j /\ plan'[i] = plan[i]
      /\ \A i \in Planned : i # j /\ i \in Planned' /\ plan'[i] = plan[i]
      /\ Planned' = Planned \cup {j}
      /\ \A k \in DOMAIN sets : Span(k)' = Span(k)
  <2>1. Changed(j, s, container, job, new, cache)
    BY AssignedIs
  <2> QED
    BY <2>1 DEF Changed
<1>2. (DOMAIN plan \subseteq Jobs)' /\ (DOMAIN sets \cap Jobs \subseteq Planned)'
  BY <1>1 DEF RoundInv, PlanInv
<1>3. DOMAIN sets \subseteq DOMAIN sets'
  BY <1>1
<1>4. ASSUME NEW i \in DOMAIN plan'
      PROVE  plan'[i] \in Record'
  <2>1. CASE i \in DOMAIN plan
    <3>1. plan[i] \in Record
      BY <2>1 DEF RoundInv, PlanInv
    <3> QED
      BY <1>1, <1>3, <2>1, <3>1 DEF Record
  <2>2. CASE i = j
    <3>1. deps \subseteq Jobs
      BY DEF RoundInv, PlanInv, Planned
    <3>2. /\ job = [start |-> job.start, walltime |-> job.walltime, res |-> job.res,
                    set |-> s, deps |-> deps]
          /\ job.start \in -1..MaxTime /\ job.walltime \in Nat /\ job.res \in SUBSET Resources
          /\ s \in DOMAIN sets'
      <4>1. MaxTime \in Nat
        BY DEF Table!Sizes
      <4> QED
        BY <1>3, <4>1 DEF Assigned, RightPlace
    <3>3. job \in [start : -1..MaxTime, walltime : Nat, res : SUBSET Resources,
                   set : DOMAIN sets' \cup {"none"}, deps : SUBSET Jobs]
      <4> DEFINE a == job.start
                 w == job.walltime
                 r == job.res
      <4> HIDE DEF a, w, r
      <4>1. job = [start |-> a, walltime |-> w, res |-> r, set |-> s, deps |-> deps]
        BY <3>2 DEF a, w, r
      <4>2. a \in -1..MaxTime /\ w \in Nat /\ r \in SUBSET Resources /\ s \in DOMAIN sets'
        BY <3>2 DEF a, w, r
      <4> QED
        BY <3>1, <4>1, <4>2
    <3> QED
      BY <1>1, <2>2, <3>3 DEF Record
  <2> QED
    BY <1>1, <2>1, <2>2
<1>5. ASSUME NEW i \in Planned'
      PROVE  /\ plan'[i].walltime # 0
             /\ plan'[i].set \in DOMAIN sets'
             /\ End(plan'[i]) - 1 <= MaxTime
             /\ \A n \in DOMAIN sets' :
                  plan'[i].set = n => IsBoundary(sets'[n].slots, End(plan'[i]), Span(n)'[2])
  <2>1. CASE i \in Planned
    <3>a. PICK n \in DOMAIN sets : n = plan[i].set
      BY <2>1 DEF RoundInv, PlanInv
    <3>1. /\ plan[i].walltime # 0 /\ n \in DOMAIN sets /\ End(plan[i]) - 1 <= MaxTime
          /\ IsBoundary(sets[n].slots, End(plan[i]), Span(n)[2])
      BY <2>1, <3>a DEF RoundInv, PlanInv
    <3>2. plan'[i] = plan[i] /\ Span(n)' = Span(n)
      BY <1>1, <2>1, <3>1
    <3>3. \A k \in DOMAIN sets[n].slots :
            k \in DOMAIN sets'[n].slots /\ sets'[n].slots[k].b = sets[n].slots[k].b
      <4>1. CASE n = s
        BY <1>1, <4>1 DEF RightPlace
      <4>2. CASE n # s
        BY <1>1, <3>1, <4>2
      <4> QED
        BY <4>1, <4>2
    <3>4. IsBoundary(sets'[n].slots, End(plan[i]), Span(n)[2])
      BY <3>1, <3>3 DEF IsBoundary
    <3>5. plan'[i].set = n
      BY <3>2, <3>a
    <3>6. \A k \in DOMAIN sets' :
            plan'[i].set = k => IsBoundary(sets'[k].slots, End(plan'[i]), Span(k)'[2])
      BY <3>2, <3>4, <3>5
    <3> QED
      BY <1>3, <3>1, <3>2, <3>5, <3>6
  <2>2. CASE i = j
    <3>1. job.set = s
      BY DEF Assigned
    <3>2. job.walltime # 0 /\ End(job) - 1 <= MaxTime /\ IsBoundary(new, End(job), Span(s)[2])
      BY DEF RightPlace
    <3>3. plan'[i] = job /\ sets'[s].slots = new /\ Span(s)' = Span(s) /\ s \in DOMAIN sets'
      BY <1>1, <1>3, <2>2
    <3>4. \A k \in DOMAIN sets' :
            plan'[i].set = k => IsBoundary(sets'[k].slots, End(plan'[i]), Span(k)'[2])
      BY <3>1, <3>2, <3>3
    <3> QED
      BY <3>1, <3>2, <3>3, <3>4
  <2> QED
    BY <1>1, <2>1, <2>2
<1> QED
  BY <1>2, <1>4, <1>5 DEF PlanInv

(* What the job takes was free: no job that was there has it, and the
   container that was there does *)
LEMMA AssignedKeepsBooked ==
  ASSUME Table!Sizes, RoundInv, NEW j \in Jobs \ DOMAIN plan, NEW s \in DOMAIN sets,
         NEW deps \in SUBSET Planned, NEW container \in BOOLEAN, NEW job, NEW new, NEW cache,
         Assigned(j, s, deps, container, job, new, cache), RightPlace(s, job, new, cache)
  PROVE  BookedInv' /\ ApartFromBooked' /\ WithinBooked'
<1>1. /\ DOMAIN sets' = DOMAIN sets \cup (IF container THEN {j} ELSE {})
      /\ sets'[s] = [slots |-> new, cache |-> cache]
      /\ \A k \in DOMAIN sets : k # s => sets'[k] = sets[k]
      /\ plan'[j] = job
      /\ \A i \in Planned : i # j /\ i \in Planned' /\ plan'[i] = plan[i]
      /\ Planned' = Planned \cup {j}
  <2>1. Changed(j, s, container, job, new, cache)
    BY AssignedIs
  <2> QED
    BY <2>1 DEF Changed
<1>2. booked' = booked
  BY DEF Assigned
<1>3. /\ job.start \in Nat /\ job.walltime \in Nat \ {0} /\ End(job) - 1 <= MaxTime
      /\ End(job) = job.start + job.walltime /\ End(job) \in Nat
      /\ \A u \in job.start..End(job) - 1 : job.res \subseteq FreeAt(sets[s].slots, u)
      /\ MaxTime \in Nat /\ job.set = s
  <2>1. job.set = s
    BY DEF Assigned
  <2> QED
    BY <2>1 DEF RightPlace, End, Table!Sizes
<1>4. ASSUME NEW n \in DOMAIN sets, NEW t \in 0..MaxTime
      PROVE  FreeAt(sets'[n].slots, t) \subseteq FreeAt(sets[n].slots, t)
  <2>1. CASE n = s
    <3>1. FreeAt(new, t) \subseteq FreeAt(sets[s].slots, t)
      BY DEF RightPlace, FreeBut
    <3> QED
      BY <1>1, <2>1, <3>1
  <2>2. CASE n # s
    BY <1>1, <2>2
  <2> QED
    BY <2>1, <2>2
<1>5. ASSUME NEW k \in booked
      PROVE  /\ k.id \notin Jobs /\ k.inner \notin Jobs
             /\ k.start \in Int /\ k.walltime \in Nat \ {0}
             /\ k.inner \in DOMAIN sets =>
                  \A t \in 0..MaxTime : k.start <= t /\ t < End(k) =>
                    k.res \cap FreeAt(sets[k.inner].slots, t) = {}
             /\ k.id \in DOMAIN sets =>
                  \A t \in 0..MaxTime : FreeAt(sets[k.id].slots, t) # {} =>
                    /\ k.start <= t /\ t < End(k)
                    /\ FreeAt(sets[k.id].slots, t) \subseteq k.res
  BY DEF RoundInv, BookedInv
<1>6. \A n \in DOMAIN sets' : n \notin Jobs => n \in DOMAIN sets
  BY <1>1
<1>7. BookedInv'
  <2> SUFFICES ASSUME NEW k \in booked
               PROVE  /\ k.inner \in DOMAIN sets' =>
                           \A t \in 0..MaxTime : k.start <= t /\ t < End(k) =>
                             k.res \cap FreeAt(sets'[k.inner].slots, t) = {}
                      /\ k.id \in DOMAIN sets' =>
                           \A t \in 0..MaxTime : FreeAt(sets'[k.id].slots, t) # {} =>
                             /\ k.start <= t /\ t < End(k)
                             /\ FreeAt(sets'[k.id].slots, t) \subseteq k.res
    BY <1>2, <1>5 DEF BookedInv
  <2>1. ASSUME k.inner \in DOMAIN sets', NEW t \in 0..MaxTime, k.start <= t, t < End(k)
        PROVE  k.res \cap FreeAt(sets'[k.inner].slots, t) = {}
    <3>1. k.inner \in DOMAIN sets
      BY <1>5, <1>6, <2>1
    <3>2. k.res \cap FreeAt(sets[k.inner].slots, t) = {}
      BY <1>5, <2>1, <3>1
    <3>3. FreeAt(sets'[k.inner].slots, t) \subseteq FreeAt(sets[k.inner].slots, t)
      BY <1>4, <3>1
    <3> QED
      BY <3>2, <3>3
  <2>2. ASSUME k.id \in DOMAIN sets', NEW t \in 0..MaxTime, FreeAt(sets'[k.id].slots, t) # {}
        PROVE  /\ k.start <= t /\ t < End(k)
               /\ FreeAt(sets'[k.id].slots, t) \subseteq k.res
    <3>1. k.id \in DOMAIN sets
      BY <1>5, <1>6, <2>2
    <3>2. FreeAt(sets'[k.id].slots, t) \subseteq FreeAt(sets[k.id].slots, t)
      BY <1>4, <3>1
    <3>3. /\ k.start <= t /\ t < End(k)
          /\ FreeAt(sets[k.id].slots, t) \subseteq k.res
      BY <1>5, <2>2, <3>1, <3>2
    <3> QED
      BY <3>2, <3>3
  <2> QED
    BY <2>1, <2>2
<1>8. ASSUME NEW k \in booked, k.inner = s, Overlap(job, k)
      PROVE  job.res \cap k.res = {}
  <2>1. k.start \in Int /\ k.walltime \in Nat \ {0} /\ End(k) = k.start + k.walltime
    BY <1>5 DEF End
  <2>2. job.start < End(k) /\ k.start < End(job)
    BY <1>8 DEF Overlap
  <2> DEFINE u == IF job.start >= k.start THEN job.start ELSE k.start
  <2>3. u \in job.start..End(job) - 1 /\ u \in 0..MaxTime /\ k.start <= u /\ u < End(k)
    BY <1>3, <2>1, <2>2
  <2> HIDE DEF u
  <2>4. job.res \subseteq FreeAt(sets[s].slots, u)
    BY <1>3, <2>3
  <2>5. k.res \cap FreeAt(sets[s].slots, u) = {}
    BY <1>5, <1>8, <2>3
  <2> QED
    BY <2>4, <2>5
<1>9. ASSUME NEW k \in booked, k.id = s, job.res # {}
      PROVE  job.res \subseteq k.res /\ k.start <= job.start /\ End(job) <= End(k)
  <2>1. \A u \in job.start..End(job) - 1 :
          job.res \subseteq k.res /\ k.start <= u /\ u < End(k)
    <3> SUFFICES ASSUME NEW u \in job.start..End(job) - 1
                 PROVE  job.res \subseteq k.res /\ k.start <= u /\ u < End(k)
      OBVIOUS
    <3>1. u \in 0..MaxTime
      BY <1>3
    <3>2. job.res \subseteq FreeAt(sets[s].slots, u)
      BY <1>3
    <3>3. /\ k.start <= u /\ u < End(k)
          /\ FreeAt(sets[s].slots, u) \subseteq k.res
      BY <1>5, <1>9, <3>1, <3>2
    <3> QED
      BY <3>2, <3>3
  <2>2. job.start \in job.start..End(job) - 1 /\ End(job) - 1 \in job.start..End(job) - 1
    BY <1>3
  <2>3. End(job) - 1 < End(k) /\ End(k) \in Int
    BY <1>5, <2>1, <2>2 DEF End
  <2> QED
    BY <1>3, <2>1, <2>2, <2>3
<1>10. job.res # {}
  BY DEF RightPlace
<1>11. ApartFromBooked'
  <2> SUFFICES ASSUME NEW i \in Planned', NEW k \in booked,
                      k.inner = plan'[i].set, Overlap(plan'[i], k)
               PROVE  plan'[i].res \cap k.res = {}
    BY <1>2 DEF ApartFromBooked, Overlap, End
  <2>1. CASE i = j
    BY <1>1, <1>3, <1>8, <2>1
  <2>2. CASE i \in Planned
    BY <1>1, <2>2 DEF RoundInv, ApartFromBooked
  <2> QED
    BY <1>1, <2>1, <2>2
<1>12. WithinBooked'
  <2> SUFFICES ASSUME NEW i \in Planned', NEW k \in booked, k.id = plan'[i].set
               PROVE  /\ plan'[i].res \subseteq k.res
                      /\ k.start <= plan'[i].start /\ End(plan'[i]) <= End(k)
    BY <1>2 DEF WithinBooked, End
  <2>1. CASE i = j
    BY <1>1, <1>3, <1>9, <1>10, <2>1
  <2>2. CASE i \in Planned
    BY <1>1, <2>2 DEF RoundInv, WithinBooked
  <2> QED
    BY <1>1, <2>1, <2>2
<1> QED
  BY <1>7, <1>11, <1>12

(* A job that has its place keeps the invariant *)
LEMMA AssignedKeepsInv ==
  ASSUME Table!Sizes, RoundInv, NEW j \in Jobs \ DOMAIN plan, NEW s \in DOMAIN sets,
         NEW deps \in SUBSET Planned, NEW container \in BOOLEAN, NEW job, NEW new, NEW cache,
         Assigned(j, s, deps, container, job, new, cache), RightPlace(s, job, new, cache)
  PROVE  RoundInv'
<1>1. SetsInv'
  BY AssignedKeepsSets
<1>2. PlanInv'
  BY AssignedKeepsPlan
<1>3. BookedInv' /\ ApartFromBooked' /\ WithinBooked'
  BY AssignedKeepsBooked
<1>4. (raised \in {"none", "slots", "walltime", "set"})'
  BY DEF Assigned, RoundInv
<1> QED
  BY <1>1, <1>2, <1>3, <1>4 DEF RoundInv

(* A job without a place changes nothing for the sets *)
LEMMA NotPlannedKeepsInv ==
  ASSUME Table!Sizes, RoundInv, NEW j \in Jobs \ DOMAIN plan, NEW s,
         s \in DOMAIN sets \cup {"none"}, Treated(j, NotPlanned(s)),
         UNCHANGED <<sets, booked>>, raised' \in {"none", "slots", "walltime", "set"}
  PROVE  RoundInv'
<1>1. /\ DOMAIN plan' = DOMAIN plan \cup {j} /\ plan'[j] = NotPlanned(s)
      /\ \A i \in DOMAIN plan : i # j /\ plan'[i] = plan[i]
  BY DEF Treated
<1>2. plan'[j].start = -1
  BY <1>1 DEF NotPlanned
<1>3. Planned' = Planned /\ \A i \in Planned : plan'[i] = plan[i]
  BY <1>1, <1>2 DEF Planned
<1>4. sets' = sets /\ booked' = booked /\ j \in Jobs
  OBVIOUS
<1>5. \A n : Span(n)' = Span(n)
  BY <1>3 DEF Span
<1>6. SetsInv'
  BY <1>4, <1>5 DEF RoundInv, SetsInv
<1>7. NotPlanned(s) \in Record
  <2>1. MaxTime \in Nat /\ -1 \in -1..MaxTime
    BY DEF Table!Sizes
  <2> QED
    BY <2>1 DEF NotPlanned, Record
<1>8. PlanInv'
  <2>1. Record' = Record
    BY <1>4 DEF Record
  <2>2. \A i \in DOMAIN plan' : plan'[i] \in Record'
    BY <1>1, <1>7, <2>1 DEF RoundInv, PlanInv
  <2>3. \A i \in Planned' :
          /\ plan'[i].walltime # 0
          /\ plan'[i].set \in DOMAIN sets'
          /\ End(plan'[i]) - 1 <= MaxTime
          /\ \A n \in DOMAIN sets' :
               plan'[i].set = n => IsBoundary(sets'[n].slots, End(plan'[i]), Span(n)'[2])
    BY <1>3, <1>4, <1>5 DEF RoundInv, PlanInv
  <2>4. (DOMAIN plan \subseteq Jobs)' /\ (DOMAIN sets \cap Jobs \subseteq Planned)'
    BY <1>1, <1>3, <1>4 DEF RoundInv, PlanInv
  <2> QED
    BY <2>2, <2>3, <2>4 DEF PlanInv
<1>9. BookedInv'
  BY <1>4 DEF RoundInv, BookedInv
<1>10. ApartFromBooked' /\ WithinBooked'
  BY <1>3, <1>4, SMTT(30) DEF RoundInv, ApartFromBooked, WithinBooked
<1> QED
  BY <1>6, <1>8, <1>9, <1>10 DEF RoundInv

-----------------------------------------------------------------------------
(* The steps of a round *)

(* What the alternatives of a job find, and when each would be over *)
Firsts(s, rqts, min) == [k \in DOMAIN rqts |-> FirstSlot(sets[s], rqts[k], min)]

Finds(s, rqts, min) ==
  [k \in DOMAIN rqts |-> FindFrom(sets[s].slots, Firsts(s, rqts, min)[k], rqts[k])]

Suits(s, rqts, min) == {k \in DOMAIN rqts : Finds(s, rqts, min)[k][1] # 0}

Ends(s, rqts, min) ==
  [k \in Suits(s, rqts, min) |->
     sets[s].slots[Finds(s, rqts, min)[k][1]].b + rqts[k].walltime]

(* The job at the place of an alternative *)
JobAt(s, deps, t, rqt, res) ==
  [start |-> t, walltime |-> rqt.walltime, res |-> res, set |-> s, deps |-> deps]

(* The choice of an alternative and of its resources *)
Chooses(j, s, rqts, deps, container, k, res) ==
  LET min   == MinStart(deps)
      found == Finds(s, rqts, min)
      job   == JobAt(s, deps, sets[s].slots[found[k][1]].b, rqts[k], res)
  IN  /\ \A i \in Suits(s, rqts, min) :
           \/ Ends(s, rqts, min)[k] < Ends(s, rqts, min)[i]
           \/ Ends(s, rqts, min)[k] = Ends(s, rqts, min)[i] /\ k <= i
      /\ res \in Solutions(Available(sets[s].slots, found[k][1], found[k][2]), rqts[k])
      /\ Treated(j, job)
      /\ sets' = [n \in DOMAIN sets \cup (IF container THEN {j} ELSE {}) |->
                    IF n = j
                    THEN Inside(job)
                    ELSE IF n = s
                    THEN [slots |-> Split(sets[s].slots, found[k][1], found[k][2], job),
                          cache |-> NewCache(sets[s].cache, rqts, found, min)]
                    ELSE sets[n]]
      /\ UNCHANGED <<booked, raised>>

(* Assign finds no place for a job, or chooses one *)
LEMMA AssignCases ==
  ASSUME NEW j, NEW s, NEW rqts, NEW deps, NEW container \in BOOLEAN,
         Assign(j, s, rqts, deps, container), NEW min, min = MinStart(deps)
  PROVE  \/ /\ Suits(s, rqts, min) = {}
            /\ Treated(j, NotPlanned(s)) /\ UNCHANGED <<sets, booked>>
            /\ raised' \in {"none", "slots", "walltime", "set"}
         \/ \E k \in Suits(s, rqts, min) : \E res : Chooses(j, s, rqts, deps, container, k, res)
<1>1. CASE /\ Suits(s, rqts, min) = {}
           /\ Treated(j, NotPlanned(s)) /\ UNCHANGED <<sets, booked>>
           /\ raised' \in {"none", "slots", "walltime", "set"}
  BY <1>1
<1>2. ASSUME NEW k \in Suits(s, rqts, min), NEW res, Chooses(j, s, rqts, deps, container, k, res)
      PROVE  \E i \in Suits(s, rqts, min) : \E r : Chooses(j, s, rqts, deps, container, i, r)
  BY <1>2
<1> QED
  BY <1>1, <1>2, ZenonT(30) DEF Assign, Chooses, JobAt, Suits, Finds, Firsts, Ends

(* A place for a request, after the jobs that it waits for *)
FoundPlace(slots, rqt, deps, order, found) ==
  found[1] # 0 =>
    \E m, n \in DOMAIN slots :
      /\ found = <<order[m], order[n]>>
      /\ Reaches(slots, order, m, n, rqt)
      /\ Solutions(Available(slots, order[m], order[n]), rqt) # {}
      /\ \A d \in deps : End(plan[d]) <= slots[order[m]].b

(* No date of the table is missed, if the jobs waited for are in the set *)
FoundFirst(s, rqt, deps, id) ==
  (\A d \in deps : plan[d].set = s) =>
    \A t \in Table!Dates(s, rqt, deps) : id # 0 /\ sets[s].slots[id].b <= t

(* What an alternative finds, for the table *)
LEMMA FoundIs ==
  ASSUME Table!Sizes, RoundInv, NEW s \in DOMAIN sets, NEW rqts, NEW k \in DOMAIN rqts,
         IsRequest(rqts[k]), NEW deps \in SUBSET Planned, NEW min, min = MinStart(deps),
         NEW order, Linked(sets[s].slots, order, Span(s)[1], Span(s)[2]),
         NEW found, found = Finds(s, rqts, min)[k]
  PROVE  /\ FoundFirst(s, rqts[k], deps, found[1])
         /\ FoundPlace(sets[s].slots, rqts[k], deps, order, found)
         /\ ~ (min >= 0) => StartsEarly(sets[s].slots, found[1], rqts[k], -1)
<1> DEFINE slots == sets[s].slots
           b == Span(s)[1]
           e == Span(s)[2]
<1>1. /\ IsFiniteSet(Resources) /\ MaxTime \in Nat
      /\ NoObstacle(slots) /\ EarlyCache(sets[s]) /\ e <= MaxTime
  BY RoundTypes
<1>2. /\ min \in Int /\ (min = -1 \/ min >= 0)
      /\ deps = {} => min = -1
      /\ deps # {} => min >= 0 /\ \E d \in deps : min = End(plan[d])
      /\ \A d \in deps : End(plan[d]) <= min
  <2>1. PlanInv
    BY DEF RoundInv
  <2> QED
    BY <2>1, MinStartIs
<1> DEFINE first == FirstSlot(sets[s], rqts[k], min)
<1>3. found = FindFrom(slots, first, rqts[k])
  BY DEF Finds, Firsts
<1>4. /\ min = -1 \/ IsBoundary(slots, min, e) => StartsEarly(slots, found[1], rqts[k], min)
      /\ found[1] # 0 =>
           \E m, n \in DOMAIN slots :
             /\ found = <<order[m], order[n]>>
             /\ Reaches(slots, order, m, n, rqts[k])
             /\ Solutions(Available(slots, order[m], order[n]), rqts[k]) # {}
             /\ min <= slots[order[m]].b
  <2>1. slots = sets[s].slots /\ first = FirstSlot(sets[s], rqts[k], min)
        /\ Linked(slots, order, b, e)
    OBVIOUS
  <2> HIDE DEF slots, b, e, first
  <2> QED
    BY <1>1, <1>2, <1>3, <2>1, AlternativeIs
<1>5. ASSUME \A d \in deps : plan[d].set = s, NEW t \in Table!Dates(s, rqts[k], deps)
      PROVE  found[1] # 0 /\ slots[found[1]].b <= t
  <2>1. /\ t \in 0..MaxTime /\ Feasible(slots, t, rqts[k])
        /\ \A d \in deps : t >= End(plan[d])
    BY DatesAre
  <2>2. t \in Nat /\ t >= min
    <3>1. t \in Nat
      BY <1>1, <2>1
    <3>2. CASE deps = {}
      BY <1>2, <3>1, <3>2
    <3>3. CASE deps # {}
      BY <1>2, <2>1, <3>1, <3>3
    <3> QED
      BY <3>1, <3>2, <3>3
  <2>3. min = -1 \/ IsBoundary(slots, min, e)
    <3>1. CASE deps = {}
      BY <1>2, <3>1
    <3>2. CASE deps # {}
      <4>1. PICK d \in deps : min = End(plan[d])
        BY <1>2, <3>2
      <4>2. d \in Planned /\ plan[d].set = s
        BY <1>5
      <4>3. IsBoundary(sets[s].slots, End(plan[d]), Span(s)[2])
        BY <4>2 DEF RoundInv, PlanInv
      <4> QED
        BY <4>1, <4>3
    <3> QED
      BY <3>1, <3>2
  <2>4. StartsEarly(slots, found[1], rqts[k], min)
    BY <1>4, <2>3
  <2> QED
    BY <2>1, <2>2, <2>4 DEF StartsEarly
<1>6. ASSUME found[1] # 0
      PROVE  \E m, n \in DOMAIN slots :
               /\ found = <<order[m], order[n]>>
               /\ Reaches(slots, order, m, n, rqts[k])
               /\ Solutions(Available(slots, order[m], order[n]), rqts[k]) # {}
               /\ \A d \in deps : End(plan[d]) <= slots[order[m]].b
  <2>1. PICK m, n \in DOMAIN slots :
          /\ found = <<order[m], order[n]>>
          /\ Reaches(slots, order, m, n, rqts[k])
          /\ Solutions(Available(slots, order[m], order[n]), rqts[k]) # {}
          /\ min <= slots[order[m]].b
    BY <1>4, <1>6
  <2>2. slots[order[m]].b \in Nat
    BY OrderTypes
  <2>3. \A d \in deps : End(plan[d]) \in Nat
    BY PlannedTypes
  <2>4. \A d \in deps : End(plan[d]) <= slots[order[m]].b
    BY <1>2, <2>1, <2>2, <2>3
  <2> QED
    BY <2>1, <2>4
<1>7. ASSUME ~ (min >= 0)
      PROVE  StartsEarly(slots, found[1], rqts[k], -1)
  BY <1>2, <1>4, <1>7
<1>8. FoundFirst(s, rqts[k], deps, found[1])
  BY <1>5 DEF FoundFirst
<1>9. FoundPlace(slots, rqts[k], deps, order, found)
  BY <1>6 DEF FoundPlace
<1> QED
  BY <1>7, <1>8, <1>9

(* The cache that a job leaves does not miss a date *)
LEMMA NewCacheIsEarly ==
  ASSUME Table!Sizes, RoundInv, NEW s \in DOMAIN sets, NEW rqts,
         \A k \in DOMAIN rqts : IsRequest(rqts[k]),
         NEW deps \in SUBSET Planned, NEW min, min = MinStart(deps),
         NEW new \in Seq(Slot), NEW job, FreeBut(sets[s].slots, new, job),
         \A i \in DOMAIN sets[s].slots : i \in DOMAIN new /\ new[i].b = sets[s].slots[i].b,
         NEW cache, cache = NewCache(sets[s].cache, rqts, Finds(s, rqts, min), min)
  PROVE  EarlyCache([slots |-> new, cache |-> cache])
<1> DEFINE slots == sets[s].slots
           found == Finds(s, rqts, min)
           suits == {k \in DOMAIN rqts : found[k][1] # 0}
           place == [r \in {rqts[k] : k \in suits} |-> found[CHOOSE k \in suits : rqts[k] = r][1]]
<1>1. /\ IsFiniteSet(Resources) /\ slots \in Seq(Slot) /\ EarlyCache(sets[s])
  BY RoundTypes
<1>2. PICK order : Linked(slots, order, Span(s)[1], Span(s)[2])
  BY RoundTypes
<1>3. ASSUME NEW r \in DOMAIN sets[s].cache
      PROVE  /\ IsRequest(r) /\ sets[s].cache[r] \in DOMAIN slots
             /\ StartsEarly(slots, sets[s].cache[r], r, -1)
  BY <1>1 DEF EarlyCache
<1>4. ASSUME ~ (min >= 0), NEW r \in DOMAIN place
      PROVE  /\ IsRequest(r) /\ place[r] \in DOMAIN slots
             /\ StartsEarly(slots, place[r], r, -1)
  <2>1. \E k \in suits : rqts[k] = r
    OBVIOUS
  <2> DEFINE k == CHOOSE i \in suits : rqts[i] = r
  <2>2. k \in suits /\ rqts[k] = r
    BY <2>1, Zenon
  <2>3. place[r] = found[k][1]
    OBVIOUS
  <2> HIDE DEF k
  <2>4. k \in DOMAIN rqts /\ found[k][1] # 0
    BY <2>2
  <2>5. IsRequest(rqts[k])
    BY <2>4
  <2> DEFINE f == Finds(s, rqts, min)[k]
  <2>6. f = Finds(s, rqts, min)[k] /\ f = found[k]
    OBVIOUS
  <2> HIDE DEF f, found, place, suits
  <2>7. /\ FoundPlace(sets[s].slots, rqts[k], deps, order, f)
        /\ ~ (min >= 0) => StartsEarly(sets[s].slots, f[1], rqts[k], -1)
    BY <1>2, <2>4, <2>5, <2>6, FoundIs
  <2>8. f[1] \in DOMAIN slots
    <3>1. \E m, n \in DOMAIN slots : f = <<order[m], order[n]>>
      BY <2>4, <2>6, <2>7 DEF FoundPlace
    <3>2. PICK m, n \in DOMAIN slots : f = <<order[m], order[n]>>
      BY <3>1
    <3>3. order[m] \in DOMAIN slots
      BY <1>2, OrderTypes
    <3> QED
      BY <3>2, <3>3
  <2> QED
    BY <1>4, <2>2, <2>3, <2>5, <2>6, <2>7, <2>8
<1>5. cache = IF min >= 0 THEN sets[s].cache
              ELSE [r \in DOMAIN sets[s].cache \cup DOMAIN place |->
                      IF r \in DOMAIN place THEN place[r] ELSE sets[s].cache[r]]
  BY DEF NewCache
<1> HIDE DEF place, found, suits
<1>6. ASSUME NEW r \in DOMAIN cache
      PROVE  /\ IsRequest(r) /\ cache[r] \in DOMAIN slots
             /\ StartsEarly(slots, cache[r], r, -1)
  <2>1. CASE min >= 0
    BY <1>3, <1>5, <2>1
  <2>2. CASE ~ (min >= 0) /\ r \in DOMAIN place
    BY <1>4, <1>5, <2>2
  <2>3. CASE ~ (min >= 0) /\ r \notin DOMAIN place
    BY <1>3, <1>5, <2>3
  <2> QED
    BY <2>1, <2>2, <2>3
<1>7. ASSUME NEW r \in DOMAIN cache
      PROVE  /\ IsRequest(r) /\ cache[r] \in DOMAIN new
             /\ StartsEarly(new, cache[r], r, -1)
  <2>1. /\ IsRequest(r) /\ cache[r] \in DOMAIN slots
        /\ StartsEarly(slots, cache[r], r, -1)
    BY <1>6
  <2>2. /\ DOMAIN slots \subseteq DOMAIN new /\ \A i \in DOMAIN slots : new[i].b = slots[i].b
        /\ FreeBut(slots, new, job)
    OBVIOUS
  <2> HIDE DEF slots
  <2> QED
    BY <1>1, <2>1, <2>2, EarlyAfterSplit
<1> QED
  BY <1>7 DEF EarlyCache

-----------------------------------------------------------------------------
(* A job that finds its place *)

(* The job at the place that its request has found *)
LEMMA JobIsAtPlace ==
  ASSUME Table!Sizes, RoundInv, NEW s \in DOMAIN sets, NEW slots, slots = sets[s].slots,
         NEW rqt, IsRequest(rqt), NEW order, Linked(slots, order, Span(s)[1], Span(s)[2]),
         NEW m \in DOMAIN slots, NEW n \in DOMAIN slots, Reaches(slots, order, m, n, rqt),
         NEW job, job.res \in Solutions(Available(slots, order[m], order[n]), rqt),
         job.start = slots[order[m]].b, job.walltime = rqt.walltime
  PROVE  /\ IsJobAt(slots, order, m, n, job)
         /\ job.start \in 0..MaxTime /\ End(job) = job.start + rqt.walltime
         /\ End(job) - 1 <= MaxTime
         /\ job.res \subseteq Resources /\ job.res # {} /\ Cardinality(job.res) = rqt.nb
         /\ job.res \subseteq FreeAlong(slots, job.start, rqt)
         /\ Feasible(slots, job.start, rqt)
<1>1. /\ IsFiniteSet(Resources) /\ MaxTime \in Nat /\ Span(s)[2] <= MaxTime
  BY RoundTypes
<1>2. rqt.nb \in Nat \ {0} /\ rqt.from \subseteq Resources /\ rqt.walltime \in Nat \ {0}
  BY DEF IsRequest
<1>3. /\ slots[order[m]].b \in Nat /\ slots[order[n]].b \in Nat /\ slots[order[n]].e \in Nat
      /\ Span(s)[2] \in Nat
  BY OrderTypes
<1>4. End(job) = job.start + rqt.walltime
  BY DEF End
<1>5. /\ m <= n /\ slots[order[n]].b <= slots[order[m]].b + rqt.walltime - 1
      /\ slots[order[m]].b + rqt.walltime - 1 <= slots[order[n]].e
  BY DEF Reaches
<1>6. IsJobAt(slots, order, m, n, job)
  BY <1>2, <1>3, <1>4, <1>5 DEF IsJobAt
<1>7. slots[order[n]].e <= Span(s)[2]
  BY SlotsWithin
<1>8. job.start \in 0..MaxTime /\ End(job) - 1 <= MaxTime
  BY <1>1, <1>2, <1>3, <1>4, <1>5, <1>7
<1>9. /\ job.res \subseteq Available(slots, order[m], order[n]) \cap rqt.from
      /\ Cardinality(job.res) = rqt.nb
  BY DEF Solutions
<1>10. job.res # {}
  BY <1>2, <1>9, FS_EmptySet
<1>11. job.res \subseteq FreeAlong(slots, job.start, rqt)
  <2>1. Available(slots, order[m], order[n]) \cap rqt.from
          \subseteq FreeAlong(slots, slots[order[m]].b, rqt)
    BY AvailableIsFree
  <2> QED
    BY <1>9, <2>1
<1>12. Feasible(slots, job.start, rqt)
  <2>1. Fits(slots, order, m, rqt)
    BY DEF Fits
  <2>2. Cardinality(FreeAlong(slots, slots[order[m]].b, rqt)) >= rqt.nb
    BY <1>1, <2>1, FitsIsFree
  <2> QED
    BY <2>2 DEF Feasible
<1> QED
  BY <1>2, <1>4, <1>6, <1>8, <1>9, <1>10, <1>11, <1>12

(* The place is right, and the slots are split there *)
LEMMA PlaceIsRight ==
  ASSUME Table!Sizes, RoundInv, NEW s \in DOMAIN sets, NEW slots, slots = sets[s].slots,
         NEW rqt, IsRequest(rqt), rqt.walltime >= Security,
         NEW order, Linked(slots, order, Span(s)[1], Span(s)[2]),
         NEW m \in DOMAIN slots, NEW n \in DOMAIN slots, Reaches(slots, order, m, n, rqt),
         NEW job, job.res \in Solutions(Available(slots, order[m], order[n]), rqt),
         job.start = slots[order[m]].b, job.walltime = rqt.walltime,
         NEW new, new = Split(slots, order[m], order[n], job),
         NEW rqts, \A k \in DOMAIN rqts : IsRequest(rqts[k]), NEW deps \in SUBSET Planned,
         NEW min, min = MinStart(deps),
         NEW cache, cache = NewCache(sets[s].cache, rqts, Finds(s, rqts, min), min)
  PROVE  RightPlace(s, job, new, cache)
<1>1. /\ NoObstacle(slots) /\ Span(s)[2] <= MaxTime
  BY RoundTypes
<1>2. /\ IsJobAt(slots, order, m, n, job)
      /\ job.start \in 0..MaxTime /\ End(job) = job.start + rqt.walltime
      /\ End(job) - 1 <= MaxTime
      /\ job.res \subseteq Resources /\ job.res # {}
      /\ job.res \subseteq FreeAlong(slots, job.start, rqt)
  BY JobIsAtPlace
<1>3. /\ \E a : Linked(new, a, Span(s)[1], Span(s)[2])
      /\ NoObstacle(new)
      /\ DOMAIN slots \subseteq DOMAIN new
      /\ \A i \in DOMAIN slots : new[i].b = slots[i].b
      /\ IsBoundary(new, End(job), Span(s)[2])
      /\ FreeBut(slots, new, job)
  BY <1>1, <1>2, SplitKeeps
<1>4. new \in Seq(Slot)
  BY <1>3 DEF Linked
<1>5. \A i \in DOMAIN slots : i \in DOMAIN new /\ new[i].b = slots[i].b
  BY <1>3
<1>6. EarlyCache([slots |-> new, cache |-> cache])
  <2>1. /\ FreeBut(sets[s].slots, new, job)
        /\ \A i \in DOMAIN sets[s].slots : i \in DOMAIN new /\ new[i].b = sets[s].slots[i].b
    BY <1>3, <1>5
  <2> QED
    BY <1>4, <2>1, NewCacheIsEarly
<1>7. SoundSlots(new, Span(s)[1], Span(s)[2])
  BY <1>1, <1>3 DEF SoundSlots
<1>8. \A u \in job.start..End(job) - 1 : job.res \subseteq FreeAt(slots, u)
  <2>1. job.start..End(job) - 1 = job.start..job.start + rqt.walltime - 1
    <3>1. End(job) = job.start + rqt.walltime /\ job.start \in 0..MaxTime
      BY <1>2
    <3>2. MaxTime \in Nat /\ rqt.walltime \in Nat \ {0}
      BY DEF Table!Sizes, IsRequest
    <3> QED
      BY <3>1, <3>2
  <2>2. \A u \in job.start..job.start + rqt.walltime - 1 : job.res \subseteq FreeAt(slots, u)
    BY <1>2 DEF FreeAlong
  <2> QED
    BY <2>1, <2>2
<1>9. job.walltime \in Nat \ {0} /\ job.walltime >= Security
  BY DEF IsRequest
<1> QED
  BY <1>2, <1>3, <1>5, <1>6, <1>7, <1>8, <1>9 DEF RightPlace

(* The choice of the alternative that ends first, for the table *)
LEMMA ChoiceIsFirst ==
  ASSUME Table!Sizes, RoundInv, NEW s \in DOMAIN sets, NEW rqts,
         \A i \in DOMAIN rqts : IsRequest(rqts[i]),
         NEW deps \in SUBSET Planned, NEW min, min = MinStart(deps),
         NEW k \in Suits(s, rqts, min),
         \A i \in Suits(s, rqts, min) :
           \/ Ends(s, rqts, min)[k] < Ends(s, rqts, min)[i]
           \/ Ends(s, rqts, min)[k] = Ends(s, rqts, min)[i] /\ k <= i,
         NEW t, t = sets[s].slots[Finds(s, rqts, min)[k][1]].b
  PROVE  (\A d \in deps : plan[d].set = s) =>
           \A i \in DOMAIN rqts : \A u \in Table!Dates(s, rqts[i], deps) :
             t + rqts[k].walltime <= u + rqts[i].walltime
<1> SUFFICES ASSUME \A d \in deps : plan[d].set = s,
                    NEW i \in DOMAIN rqts, NEW u \in Table!Dates(s, rqts[i], deps)
             PROVE  t + rqts[k].walltime <= u + rqts[i].walltime
  OBVIOUS
<1>1. PICK order : Linked(sets[s].slots, order, Span(s)[1], Span(s)[2])
  BY RoundTypes
<1> DEFINE found == Finds(s, rqts, min)
<1>2. k \in DOMAIN rqts /\ found[k][1] # 0
  BY DEF Suits
<1>3. /\ IsRequest(rqts[i]) /\ IsRequest(rqts[k])
      /\ rqts[i].walltime \in Nat /\ rqts[k].walltime \in Nat
  BY <1>2 DEF IsRequest
<1>4. ASSUME NEW l \in DOMAIN rqts, found[l][1] # 0
      PROVE  sets[s].slots[found[l][1]].b \in Nat
  <2>1. IsRequest(rqts[l])
    OBVIOUS
  <2> DEFINE f == Finds(s, rqts, min)[l]
  <2>2. f = Finds(s, rqts, min)[l] /\ f[1] # 0
    BY <1>4
  <2> HIDE DEF f
  <2>3. FoundPlace(sets[s].slots, rqts[l], deps, order, f)
    BY <1>1, <2>1, <2>2, FoundIs
  <2>4. PICK m \in DOMAIN sets[s].slots : f[1] = order[m]
    BY <2>2, <2>3 DEF FoundPlace
  <2>5. sets[s].slots[order[m]].b \in Nat
    BY <1>1, OrderTypes
  <2> QED
    BY <2>2, <2>4, <2>5
<1>5. found[i][1] # 0 /\ sets[s].slots[found[i][1]].b <= u
  <2> DEFINE f == Finds(s, rqts, min)[i]
  <2>1. f = Finds(s, rqts, min)[i]
    OBVIOUS
  <2> HIDE DEF f
  <2>2. FoundFirst(s, rqts[i], deps, f[1])
    BY <1>1, <1>3, <2>1, FoundIs
  <2>3. f[1] # 0 /\ sets[s].slots[f[1]].b <= u
    BY <2>2 DEF FoundFirst
  <2> QED
    BY <2>1, <2>3
<1>6. i \in Suits(s, rqts, min)
  BY <1>5 DEF Suits
<1>7. /\ Ends(s, rqts, min)[k] = t + rqts[k].walltime
      /\ Ends(s, rqts, min)[i] = sets[s].slots[found[i][1]].b + rqts[i].walltime
  BY <1>6 DEF Ends
<1>8. \/ Ends(s, rqts, min)[k] < Ends(s, rqts, min)[i]
      \/ Ends(s, rqts, min)[k] = Ends(s, rqts, min)[i]
  BY <1>6
<1>9. t \in Nat /\ sets[s].slots[found[i][1]].b \in Nat
  BY <1>2, <1>4, <1>5
<1>10. u \in Nat
  <2>1. u \in 0..MaxTime
    BY DEF Table!Dates, Table!Times
  <2> QED
    BY <2>1 DEF Table!Sizes
<1> HIDE DEF found
<1> DEFINE v == sets[s].slots[found[i][1]].b
           x == rqts[k].walltime
           y == rqts[i].walltime
<1>11. /\ v \in Nat /\ x \in Nat /\ y \in Nat /\ v <= u
       /\ t + x < v + y \/ t + x = v + y
  BY <1>3, <1>5, <1>7, <1>8, <1>9
<1> HIDE DEF v, x, y
<1>12. t + x <= u + y
  BY <1>9, <1>10, <1>11
<1> QED
  BY <1>12 DEF x, y

(* A job that has a place, for a request that has found this slot *)
Served(j, s, rqt, deps, container, id, res, job, new, cache) ==
  /\ Assigned(j, s, deps, container, job, new, cache)
  /\ RightPlace(s, job, new, cache)
  /\ job.start = sets[s].slots[id].b /\ job.walltime = rqt.walltime /\ job.res = res
  /\ Feasible(sets[s].slots, job.start, rqt)
  /\ End(job) = job.start + rqt.walltime
  /\ job.res \subseteq FreeAlong(sets[s].slots, job.start, rqt)
  /\ Cardinality(job.res) = rqt.nb
  /\ \A d \in deps : End(plan[d]) <= job.start

(* What a job that has a place does, and that it is right *)
LEMMA ChoosesIs ==
  ASSUME Table!Sizes, Table!SoundRequests, RoundInv,
         NEW j, NEW s \in DOMAIN sets, NEW rqts \in Requests, NEW deps \in SUBSET Planned,
         NEW container \in BOOLEAN, NEW min, min = MinStart(deps),
         NEW k \in Suits(s, rqts, min), NEW res, Chooses(j, s, rqts, deps, container, k, res)
  PROVE  /\ k \in DOMAIN rqts /\ IsRequest(rqts[k])
         /\ \E job, new, cache :
              Served(j, s, rqts[k], deps, container, Finds(s, rqts, min)[k][1], res,
                     job, new, cache)
<1> DEFINE slots == sets[s].slots
           f == Finds(s, rqts, min)[k]
           rqt == rqts[k]
           job == JobAt(s, deps, slots[f[1]].b, rqt, res)
           new == Split(slots, f[1], f[2], job)
           cache == NewCache(sets[s].cache, rqts, Finds(s, rqts, min), min)
<1>1. PICK order : Linked(slots, order, Span(s)[1], Span(s)[2])
  BY RoundTypes
<1>2. k \in DOMAIN rqts /\ f[1] # 0
  BY DEF Suits
<1>3. \A i \in DOMAIN rqts : IsRequest(rqts[i]) /\ rqts[i].walltime >= Security
  BY WalltimesAssumption DEF Table!SoundRequests, IsRequest
<1>4. IsRequest(rqt) /\ rqt.walltime >= Security
  BY <1>2, <1>3
<1>5. FoundPlace(slots, rqt, deps, order, f)
  <2>1. f = Finds(s, rqts, min)[k] /\ rqt = rqts[k] /\ slots = sets[s].slots
    OBVIOUS
  <2> HIDE DEF f, rqt, slots
  <2> QED
    BY <1>1, <1>2, <1>4, <2>1, FoundIs
<1>6. PICK m \in DOMAIN slots, n \in DOMAIN slots :
        /\ f = <<order[m], order[n]>>
        /\ Reaches(slots, order, m, n, rqt)
        /\ \A d \in deps : End(plan[d]) <= slots[order[m]].b
  BY <1>2, <1>5 DEF FoundPlace
<1>7. f[1] = order[m] /\ f[2] = order[n]
  BY <1>6
<1>8. /\ job.start = slots[f[1]].b /\ job.walltime = rqt.walltime /\ job.res = res
      /\ job.set = s /\ job.deps = deps
      /\ job = [start |-> job.start, walltime |-> job.walltime, res |-> job.res,
                set |-> s, deps |-> deps]
  BY DEF JobAt
<1>9. /\ res \in Solutions(Available(slots, f[1], f[2]), rqt)
      /\ Treated(j, job)
      /\ sets' = [n0 \in DOMAIN sets \cup (IF container THEN {j} ELSE {}) |->
                    IF n0 = j
                    THEN Inside(job)
                    ELSE IF n0 = s THEN [slots |-> new, cache |-> cache] ELSE sets[n0]]
      /\ UNCHANGED <<booked, raised>>
  BY DEF Chooses
<1>10. /\ slots = sets[s].slots /\ new = Split(slots, f[1], f[2], job)
       /\ cache = NewCache(sets[s].cache, rqts, Finds(s, rqts, min), min)
       /\ f = Finds(s, rqts, min)[k] /\ rqt = rqts[k]
  OBVIOUS
<1> HIDE DEF f, rqt, job, new, cache, slots
<1>11. Assigned(j, s, deps, container, job, new, cache)
  BY <1>8, <1>9 DEF Assigned
<1>12. /\ job.res \in Solutions(Available(slots, order[m], order[n]), rqt)
       /\ new = Split(slots, order[m], order[n], job)
       /\ job.start = slots[order[m]].b
       /\ Reaches(slots, order, m, n, rqt)
  BY <1>6, <1>7, <1>8, <1>9, <1>10
<1>13. RightPlace(s, job, new, cache)
  <2>1. \A i \in DOMAIN rqts : IsRequest(rqts[i])
    BY <1>3
  <2> QED
    BY <1>1, <1>4, <1>8, <1>10, <1>12, <2>1, PlaceIsRight
<1>14. /\ End(job) = job.start + rqt.walltime
       /\ Cardinality(job.res) = rqt.nb
       /\ job.res \subseteq FreeAlong(slots, job.start, rqt)
       /\ Feasible(slots, job.start, rqt)
  BY <1>1, <1>4, <1>8, <1>10, <1>12, JobIsAtPlace, SMTT(30)
<1>15. \A d \in deps : End(plan[d]) <= job.start
  BY <1>6, <1>12
<1>16. Served(j, s, rqt, deps, container, f[1], res, job, new, cache)
  BY <1>8, <1>10, <1>11, <1>13, <1>14, <1>15 DEF Served
<1> QED
  BY <1>2, <1>4, <1>10, <1>16

(* The job is placed in the table *)
LEMMA ChoosesPlaces ==
  ASSUME Table!Sizes, Table!SoundRequests, RoundInv,
         NEW j \in Jobs \ DOMAIN plan, NEW s \in DOMAIN sets, NEW rqts \in Requests,
         NEW deps \in SUBSET Planned, NEW container \in BOOLEAN, NEW min, min = MinStart(deps),
         NEW k \in Suits(s, rqts, min), NEW res, Chooses(j, s, rqts, deps, container, k, res)
  PROVE  RoundInv' /\ Table!Place(j, s, rqts, deps, container)
<1> DEFINE id == Finds(s, rqts, min)[k][1]
<1>1. /\ k \in DOMAIN rqts /\ IsRequest(rqts[k])
      /\ \E job, new, cache :
           Served(j, s, rqts[k], deps, container, id, res, job, new, cache)
  BY ChoosesIs
<1>2. PICK job, new, cache : Served(j, s, rqts[k], deps, container, id, res, job, new, cache)
  BY <1>1
<1>0. /\ Assigned(j, s, deps, container, job, new, cache)
      /\ RightPlace(s, job, new, cache)
      /\ job.start = sets[s].slots[id].b /\ job.walltime = rqts[k].walltime /\ job.res = res
      /\ Feasible(sets[s].slots, job.start, rqts[k])
      /\ End(job) = job.start + rqts[k].walltime
      /\ job.res \subseteq FreeAlong(sets[s].slots, job.start, rqts[k])
      /\ Cardinality(job.res) = rqts[k].nb
      /\ \A d \in deps : End(plan[d]) <= job.start
  BY <1>2 DEF Served
<1>3. RoundInv'
  BY <1>0, AssignedKeepsInv
<1> DEFINE t == job.start
           rqt == rqts[k]
<1>4. t \in Table!Dates(s, rqt, deps)
  <2>1. /\ t \in 0..MaxTime /\ End(job) - 1 <= MaxTime
    BY <1>0 DEF RightPlace
  <2>2. t + rqt.walltime - 1 <= MaxTime
    <3>1. End(job) = t + rqt.walltime
      BY <1>0
    <3>2. MaxTime \in Nat /\ rqt.walltime \in Nat \ {0}
      BY <1>1 DEF Table!Sizes, IsRequest
    <3> HIDE DEF t, rqt
    <3> QED
      BY <2>1, <3>1, <3>2
  <2>3. \A d \in deps : End(plan[d]) \in Nat
    BY PlannedTypes
  <2>4. \A d \in deps : t >= End(plan[d])
    BY <1>0
  <2>5. IsRequest(rqt) /\ Feasible(sets[s].slots, t, rqt)
    BY <1>1, <1>0
  <2> HIDE DEF t, rqt
  <2> QED
    BY <2>1, <2>2, <2>4, <2>5, DatesAre, SMTT(30)
<1>5. (\A d \in deps : plan[d].set = s) =>
        \A i \in DOMAIN rqts : \A u \in Table!Dates(s, rqts[i], deps) :
          t + rqts[k].walltime <= u + rqts[i].walltime
  <2>1. \A i \in DOMAIN rqts : IsRequest(rqts[i])
    BY DEF Table!SoundRequests, IsRequest
  <2>2. \A i \in Suits(s, rqts, min) :
          \/ Ends(s, rqts, min)[k] < Ends(s, rqts, min)[i]
          \/ Ends(s, rqts, min)[k] = Ends(s, rqts, min)[i] /\ k <= i
    BY DEF Chooses
  <2>3. t = sets[s].slots[Finds(s, rqts, min)[k][1]].b
    BY <1>0
  <2> HIDE DEF t
  <2> QED
    BY <2>1, <2>2, <2>3, ChoiceIsFirst
<1>6. res \in SUBSET Table!FreeDuring(s, t, rqt)
  <2>1. Table!FreeDuring(s, t, rqt) = FreeAlong(sets[s].slots, t, rqt)
    <3>1. t \in 0..MaxTime /\ t + rqt.walltime - 1 <= MaxTime
      BY <1>4 DEF Table!Dates, Table!Times
    <3>2. MaxTime \in Nat /\ rqt.walltime \in Nat \ {0}
      BY <1>1 DEF Table!Sizes, IsRequest
    <3> HIDE DEF t, rqt
    <3>3. \A u \in t..t + rqt.walltime - 1 : u \in 0..MaxTime
      BY <3>1, <3>2
    <3>4. \A u \in t..t + rqt.walltime - 1 : Free[s][u] = FreeAt(sets[s].slots, u)
      BY <3>3, FreeIs
    <3> QED
      BY <3>4 DEF Table!FreeDuring, FreeAlong
  <2> QED
    BY <1>0, <2>1
<1>7. Table!Cardinality(res) = rqt.nb
  BY <1>0, SameCardinality
<1>8. Table!Treated(j, [start |-> t, walltime |-> rqt.walltime, res |-> res,
                        set |-> s, deps |-> deps])
  BY <1>0 DEF Assigned, Treated, Table!Treated
<1>9. Free' = [n \in DOMAIN Free \cup (IF container THEN {j} ELSE {}) |->
                 IF n = j THEN Table!Inside(t, rqt, res)
                 ELSE IF n = s THEN Table!Without(Free[s], t, rqt, res)
                 ELSE Free[n]]
  <2>1. rqt.walltime = job.walltime /\ job.res = res /\ t = job.start
    BY <1>0
  <2>2. Free' = [n \in DOMAIN Free \cup (IF container THEN {j} ELSE {}) |->
                   IF n = j THEN Table!Inside(job.start, rqt, job.res)
                   ELSE IF n = s THEN Table!Without(Free[s], job.start, rqt, job.res)
                   ELSE Free[n]]
    <3> HIDE DEF rqt
    <3> QED
      BY <1>0, <2>1, FreeAfter
  <2> QED
    BY <2>1, <2>2
<1> HIDE DEF t
<1>10. Table!Place(j, s, rqts, deps, container)
  BY <1>1, <1>4, <1>5, <1>6, <1>7, <1>8, <1>9 DEF Table!Place
<1> QED
  BY <1>3, <1>10

(* No alternative of a job has a place: the table has no room either *)
LEMMA NothingIsNoRoom ==
  ASSUME Table!Sizes, Table!SoundRequests, RoundInv,
         NEW j \in Jobs \ DOMAIN plan, NEW s \in DOMAIN sets, NEW rqts \in Requests,
         NEW deps \in SUBSET Planned, NEW min, min = MinStart(deps),
         Suits(s, rqts, min) = {}, Treated(j, NotPlanned(s)), UNCHANGED <<sets, booked>>,
         raised' \in {"none", "slots", "walltime", "set"}
  PROVE  RoundInv' /\ Table!NoRoom(j, s, rqts, deps)
<1>1. RoundInv'
  BY NotPlannedKeepsInv
<1>2. PICK order : Linked(sets[s].slots, order, Span(s)[1], Span(s)[2])
  BY RoundTypes
<1>3. ASSUME \A d \in deps : plan[d].set = s, NEW k \in DOMAIN rqts,
             NEW t \in Table!Dates(s, rqts[k], deps)
      PROVE  FALSE
  <2> DEFINE f == Finds(s, rqts, min)[k]
  <2>1. f = Finds(s, rqts, min)[k] /\ IsRequest(rqts[k])
    BY DEF Table!SoundRequests, IsRequest
  <2> HIDE DEF f
  <2>2. FoundFirst(s, rqts[k], deps, f[1])
    BY <1>2, <2>1, FoundIs
  <2>3. f[1] # 0
    BY <1>3, <2>2 DEF FoundFirst
  <2> QED
    BY <2>1, <2>3 DEF Suits
<1>4. Table!Treated(j, Table!NotPlanned(s))
  BY DEF Treated, Table!Treated, NotPlanned, Table!NotPlanned
<1>5. Free' = Free
  BY DEF Free
<1>6. ASSUME \A d \in deps : plan[d].set = s, NEW k \in DOMAIN rqts
      PROVE  Table!Dates(s, rqts[k], deps) = {}
  BY <1>3, <1>6
<1> QED
  BY <1>1, <1>4, <1>5, <1>6 DEF Table!NoRoom

-----------------------------------------------------------------------------
(* What each step does, to the invariant and to the table *)

(* A job that is treated by Assign *)
LEMMA AssignIs ==
  ASSUME Table!Sizes, Table!SoundRequests, RoundInv,
         NEW j \in Jobs \ DOMAIN plan, NEW s \in DOMAIN sets, NEW rqts \in Requests,
         NEW deps \in SUBSET Planned, NEW container \in BOOLEAN,
         Assign(j, s, rqts, deps, container)
  PROVE  RoundInv' /\ Table!Next
<1> DEFINE min == MinStart(deps)
<1>1. min = MinStart(deps)
  OBVIOUS
<1> HIDE DEF min
<1>2. s \in DOMAIN Free /\ deps \in SUBSET Table!Planned
  BY FreeIs DEF Planned, Table!Planned
<1>3. CASE /\ Suits(s, rqts, min) = {}
           /\ Treated(j, NotPlanned(s)) /\ UNCHANGED <<sets, booked>>
           /\ raised' \in {"none", "slots", "walltime", "set"}
  <2>1. RoundInv' /\ Table!NoRoom(j, s, rqts, deps)
    BY <1>1, <1>3, NothingIsNoRoom
  <2> QED
    BY <1>2, <2>1 DEF Table!Next
<1>4. CASE \E k \in Suits(s, rqts, min) : \E res : Chooses(j, s, rqts, deps, container, k, res)
  <2>1. PICK k \in Suits(s, rqts, min) :
              \E res : Chooses(j, s, rqts, deps, container, k, res)
    BY <1>4
  <2>2. PICK res : Chooses(j, s, rqts, deps, container, k, res)
    BY <2>1
  <2>3. RoundInv' /\ Table!Place(j, s, rqts, deps, container)
    BY <1>1, <2>2, ChoosesPlaces
  <2> QED
    BY <1>2, <2>3 DEF Table!Next
<1> QED
  BY <1>1, <1>3, <1>4, AssignCases

(* Each step of a round *)
LEMMA NextKeepsRound ==
  ASSUME Table!Sizes, Table!SoundRequests, RoundInv, [Next]_vars
  PROVE  RoundInv' /\ [Table!Next]_<<Free, plan>>
<1>1. CASE UNCHANGED vars
  <2>1. sets' = sets /\ plan' = plan /\ booked' = booked /\ raised' = raised
    BY <1>1 DEF vars
  <2>2. RoundInv'
    BY <2>1 DEF RoundInv, SetsInv, PlanInv, BookedInv, ApartFromBooked, WithinBooked,
                Span, Planned, Record
  <2>3. Free' = Free
    BY <2>1 DEF Free
  <2> QED
    BY <2>1, <2>2, <2>3
<1>2. ASSUME NEW j \in Jobs \ DOMAIN plan, Skip(j)
      PROVE  RoundInv' /\ Table!Next
  <2>1. Treated(j, NotPlanned("none")) /\ UNCHANGED <<sets, booked, raised>>
    BY <1>2 DEF Skip
  <2>2. raised' \in {"none", "slots", "walltime", "set"}
    BY <2>1 DEF RoundInv
  <2>3. RoundInv'
    BY <2>1, <2>2, NotPlannedKeepsInv
  <2>4. Table!Skip(j)
    BY <2>1 DEF Table!Skip, Treated, Table!Treated, NotPlanned, Table!NotPlanned, Free
  <2> QED
    BY <2>3, <2>4 DEF Table!Next
<1>3. ASSUME UNCHANGED <<sets, plan, booked>>, raised' \in {"walltime", "set"}
      PROVE  RoundInv' /\ UNCHANGED <<Free, plan>>
  <2>1. RoundInv'
    BY <1>3 DEF RoundInv, SetsInv, PlanInv, BookedInv, ApartFromBooked, WithinBooked,
                Span, Planned, Record
  <2> QED
    BY <1>3, <2>1 DEF Free
<1>4. CASE Next
  <2>1. PICK j \in Jobs \ DOMAIN plan : Treat(j)
    BY <1>4 DEF Next
  <2>2. CASE Skip(j)
    BY <1>2, <2>2
  <2>3. CASE MissingDependency(j)
    BY <1>3, <2>3 DEF MissingDependency
  <2>4. CASE MissingContainer(j)
    BY <1>3, <2>4 DEF MissingContainer
  <2>5. CASE \E s \in DOMAIN sets, rqts \in Requests, deps \in SUBSET Planned,
               container \in BOOLEAN : Assign(j, s, rqts, deps, container)
    <3>1. PICK s \in DOMAIN sets, rqts \in Requests, deps \in SUBSET Planned,
               container \in BOOLEAN : Assign(j, s, rqts, deps, container)
      BY <2>5
    <3> QED
      BY <3>1, AssignIs
  <2> QED
    BY <2>1, <2>2, <2>3, <2>4, <2>5 DEF Treat
<1> QED
  BY <1>1, <1>4

-----------------------------------------------------------------------------
(* What is loaded: split_slots_jobs puts the jobs of a list one after the  *)
(* other (IsPut), if each of them begins when the one before is over, or   *)
(* with it                                                                 *)

(* A slot is halved at a date, before the job is put into the second half *)
Until(slots, order, m, t) ==
  [start |-> slots[order[m]].b, walltime |-> t - slots[order[m]].b, res |-> {}]

Halved(slots, order, m, t) == Cut(slots, order, m, m, Until(slots, order, m, t))

(* The second half has the last id *)
IsHalved(slots, new, m, order, last, t) ==
  /\ new \in Seq(Slot) /\ Len(new) = last /\ DOMAIN new = 1..last
  /\ new[last].next = slots[order[m]].next /\ new[last].b = t
  /\ new[last].e = slots[order[m]].e /\ new[last].itvs = slots[order[m]].itvs
  /\ new[order[m]].next = last /\ new[order[m]].b = slots[order[m]].b
  /\ new[order[m]].e = t - 1 /\ new[order[m]].itvs = slots[order[m]].itvs
  /\ \A i \in DOMAIN slots \ {order[m]} : new[i] = slots[i]

(* The list is linked as before, with the second half after the first one *)
LEMMA HalvedIs ==
  ASSUME NEW slots, NEW order, NEW b, NEW e, Linked(slots, order, b, e), NoObstacle(slots),
         NEW m \in DOMAIN slots, NEW t \in Nat, slots[order[m]].b < t, t <= slots[order[m]].e + 1,
         NEW last, last = Len(slots) + 1, NEW new, new = Halved(slots, order, m, t)
  PROVE  /\ IsHalved(slots, new, m, order, last, t)
         /\ Linked(new, After(order, m, last), b, e)
         /\ NoObstacle(new)
         /\ \A u \in Int : FreeAt(new, u) = FreeAt(slots, u)
<1> DEFINE job == Until(slots, order, m, t)
<1>1. /\ DOMAIN slots = 1..Len(slots) /\ Len(slots) \in Nat \ {0}
      /\ \A l \in DOMAIN slots : /\ order[l] \in DOMAIN slots
                                 /\ slots[order[l]].b \in Nat /\ slots[order[l]].e \in Nat
      /\ slots \in Seq(Slot)
  BY OrderTypes
<1>2. slots[order[m]].b \in Nat /\ slots[order[m]].e \in Nat
  BY <1>1
<1>3. /\ job.start = slots[order[m]].b /\ job.walltime = t - slots[order[m]].b /\ job.res = {}
  BY DEF Until
<1>4. new = Cut(slots, order, m, m, job)
  BY DEF Halved
<1> HIDE DEF job
<1>5. job.walltime \in Nat \ {0} /\ End(job) = t
  BY <1>2, <1>3 DEF End
<1>6. IsJobAt(slots, order, m, m, job) /\ IsCutAt(slots, order, m, job)
  <2>1. m \in Nat
    BY <1>1
  <2> QED
    BY <1>2, <1>3, <1>5, <2>1 DEF IsJobAt, IsCutAt
<1>a. /\ new \in Seq(Slot) /\ Len(new) = last /\ DOMAIN new = 1..last
      /\ new[last].next = slots[order[m]].next /\ new[last].b = End(job)
      /\ new[last].e = slots[order[m]].e /\ new[last].itvs = slots[order[m]].itvs
  BY <1>4, <1>6, CutTypes
<1>b. /\ new[order[m]].next = last /\ new[order[m]].b = slots[order[m]].b
      /\ new[order[m]].e = End(job) - 1
      /\ new[order[m]].itvs = slots[order[m]].itvs \ job.res
  BY <1>4, <1>6, CutTypes
<1>c. \A i \in DOMAIN slots \ {order[m]} :
        /\ new[i].next = slots[i].next /\ new[i].b = slots[i].b /\ new[i].e = slots[i].e
        /\ (\E k \in m..m : order[k] = i) => new[i].itvs = slots[i].itvs \ job.res
        /\ ~ (\E k \in m..m : order[k] = i) => new[i].itvs = slots[i].itvs
  <2> DEFINE n == m
  <2>1. n = m
    OBVIOUS
  <2> HIDE DEF n
  <2>2. /\ n \in DOMAIN slots /\ new = Cut(slots, order, m, n, job)
        /\ IsJobAt(slots, order, m, n, job) /\ IsCutAt(slots, order, n, job)
    BY <1>4, <1>6, <2>1
  <2>3. \A i \in DOMAIN slots \ {order[n]} :
          /\ new[i].next = slots[i].next /\ new[i].b = slots[i].b /\ new[i].e = slots[i].e
          /\ (\E k \in m..n : order[k] = i) => new[i].itvs = slots[i].itvs \ job.res
          /\ ~ (\E k \in m..n : order[k] = i) => new[i].itvs = slots[i].itvs
    BY <2>2, CutTypes
  <2> QED
    BY <2>1, <2>3
<1>7. /\ new \in Seq(Slot) /\ Len(new) = last /\ DOMAIN new = 1..last
      /\ new[last].next = slots[order[m]].next /\ new[last].b = End(job)
      /\ new[last].e = slots[order[m]].e /\ new[last].itvs = slots[order[m]].itvs
      /\ new[order[m]].next = last /\ new[order[m]].b = slots[order[m]].b
      /\ new[order[m]].e = End(job) - 1
      /\ new[order[m]].itvs = slots[order[m]].itvs \ job.res
      /\ \A i \in DOMAIN slots \ {order[m]} :
           /\ new[i].next = slots[i].next /\ new[i].b = slots[i].b /\ new[i].e = slots[i].e
           /\ (\E k \in m..m : order[k] = i) => new[i].itvs = slots[i].itvs \ job.res
           /\ ~ (\E k \in m..m : order[k] = i) => new[i].itvs = slots[i].itvs
  BY <1>a, <1>b, <1>c
<1>8. \A i \in DOMAIN slots \ {order[m]} : new[i] = slots[i]
  <2> SUFFICES ASSUME NEW i \in DOMAIN slots \ {order[m]}
               PROVE  new[i] = slots[i]
    OBVIOUS
  <2>1. /\ new[i].next = slots[i].next /\ new[i].b = slots[i].b /\ new[i].e = slots[i].e
        /\ new[i].itvs = slots[i].itvs
    BY <1>3, <1>7
  <2>2. new[i] \in Slot /\ slots[i] \in Slot
    <3>1. i \in DOMAIN new
      BY <1>1, <1>7
    <3> QED
      BY <1>1, <1>7, <3>1, SlotTypes
  <2> QED
    BY <2>1, <2>2 DEF Slot
<1>9. IsHalved(slots, new, m, order, last, t)
  BY <1>3, <1>5, <1>7, <1>8 DEF IsHalved
<1>10. Linked(new, After(order, m, last), b, e)
  BY <1>4, <1>6, CutIsLinked
<1>11. Loses(slots, new, order, m, m, job) /\ FreeBut(slots, new, job)
  BY <1>4, <1>6, CutKeeps
<1>12. NoObstacle(new)
  BY <1>6, <1>11, NoNewObstacle
<1>13. \A u \in Int : FreeAt(new, u) = FreeAt(slots, u)
  BY <1>3, <1>11 DEF FreeBut
<1> QED
  BY <1>9, <1>10, <1>12, <1>13

(* A list that is longer by one slot, and one slot of it has changed *)
Grown(cur, sid, old, added) == Append([cur EXCEPT ![sid] = old], added)

(* What this list is made of *)
IsGrown(cur, sid, old, added, new, last) ==
  /\ new \in Seq(Slot) /\ Len(new) = last /\ DOMAIN new = 1..last
  /\ new[last] = added /\ new[sid] = old
  /\ \A i \in DOMAIN cur : i # sid => new[i] = cur[i]

(* A list that has grown has one slot more, and the others are the same *)
LEMMA GrownIs ==
  ASSUME NEW cur \in Seq(Slot), NEW sid \in DOMAIN cur, NEW old \in Slot, NEW added \in Slot
  PROVE  IsGrown(cur, sid, old, added, Grown(cur, sid, old, added), Len(cur) + 1)
<1> DEFINE new == Grown(cur, sid, old, added)
           last == Len(cur) + 1
<1> DEFINE c == [cur EXCEPT ![sid] = old]
<1>1. c \in Seq(Slot) /\ Len(c) = Len(cur) /\ Len(cur) \in Nat /\ DOMAIN cur = 1..Len(cur)
  OBVIOUS
<1>2. c[sid] = old /\ \A i \in DOMAIN cur : i # sid => c[i] = cur[i]
  OBVIOUS
<1>3. new = Append(c, added) /\ last = Len(cur) + 1
  BY DEF Grown
<1> HIDE DEF c, new, last
<1>4. /\ DOMAIN new = 1..last /\ new[last] = added
      /\ \A i \in 1..Len(c) : new[i] = c[i]
  BY <1>1, <1>3, AppendProperties, SeqMonotonic
<1>5. new \in Seq(Slot) /\ Len(new) = last
  BY <1>1, <1>3, AppendProperties
<1>6. IsGrown(cur, sid, old, added, new, last)
  BY <1>1, <1>2, <1>3, <1>4, <1>5 DEF IsGrown
<1> QED
  BY <1>6 DEF new, last

(* SlotAfterJob gives such a list *)
LEMMA AfterGrows ==
  ASSUME NEW cur \in Seq(Slot), NEW sid \in DOMAIN cur, NEW job, End(job) \in Nat
  PROVE  \E old \in Slot, added \in Slot :
           /\ SlotAfterJob(cur, sid, job) = Grown(cur, sid, old, added)
           /\ old = [next |-> Len(cur) + 1, b |-> cur[sid].b, e |-> cur[sid].e,
                     itvs |-> cur[sid].itvs]
           /\ added = [next |-> cur[sid].next, b |-> End(job), e |-> cur[sid].e,
                       itvs |-> cur[sid].itvs]
<1> DEFINE N == Len(cur) + 1
           y == [cur[sid] EXCEPT !.next = N]
           x == [cur[sid] EXCEPT !.b = End(job)]
<1>1. N \in Nat
  OBVIOUS
<1>2. SlotAfterJob(cur, sid, job) = Append([cur EXCEPT ![sid].next = N], x)
  BY DEF SlotAfterJob
<1> HIDE DEF N
<1>3. /\ cur[sid].b \in Nat /\ cur[sid].e \in Nat /\ cur[sid].itvs \subseteq Resources
      /\ cur[sid].next \in Nat
      /\ cur[sid] = [next |-> cur[sid].next, b |-> cur[sid].b, e |-> cur[sid].e,
                     itvs |-> cur[sid].itvs]
  <2>1. cur[sid] \in Slot
    BY SlotTypes
  <2> QED
    BY <2>1 DEF Slot
<1>4. y = [next |-> N, b |-> cur[sid].b, e |-> cur[sid].e, itvs |-> cur[sid].itvs]
  BY <1>3
<1>5. x = [next |-> cur[sid].next, b |-> End(job), e |-> cur[sid].e, itvs |-> cur[sid].itvs]
  BY <1>3
<1>6. y \in Slot /\ x \in Slot
  <2>1. [next |-> N, b |-> cur[sid].b, e |-> cur[sid].e, itvs |-> cur[sid].itvs] \in Slot
    BY <1>1, <1>3 DEF Slot
  <2>2. [next |-> cur[sid].next, b |-> End(job), e |-> cur[sid].e, itvs |-> cur[sid].itvs] \in Slot
    BY <1>3 DEF Slot
  <2> QED
    BY <1>4, <1>5, <2>1, <2>2
<1>7. [cur EXCEPT ![sid].next = N] = [cur EXCEPT ![sid] = y]
  OBVIOUS
<1> HIDE DEF x, y
<1>8. SlotAfterJob(cur, sid, job) = Grown(cur, sid, y, x)
  BY <1>2, <1>7 DEF Grown
<1> QED
  BY <1>4, <1>5, <1>6, <1>8 DEF N

(* The same for SlotBeforeJob *)
LEMMA BeforeGrows ==
  ASSUME NEW cur \in Seq(Slot), NEW sid \in DOMAIN cur, NEW job, job.start - 1 \in Nat
  PROVE  \E old \in Slot, added \in Slot :
           /\ SlotBeforeJob(cur, sid, job) = Grown(cur, sid, old, added)
           /\ old = [next |-> Len(cur) + 1, b |-> cur[sid].b, e |-> job.start - 1,
                     itvs |-> cur[sid].itvs]
           /\ added = cur[sid]
<1> DEFINE N == Len(cur) + 1
           t == job.start - 1
           y == [next |-> N, b |-> cur[sid].b, e |-> t, itvs |-> cur[sid].itvs]
<1>1. N \in Nat /\ t \in Nat
  OBVIOUS
<1>2. SlotBeforeJob(cur, sid, job) = Append([cur EXCEPT ![sid].next = N, ![sid].e = t], cur[sid])
  BY DEF SlotBeforeJob
<1> HIDE DEF N, t
<1>3. /\ cur[sid].b \in Nat /\ cur[sid].e \in Nat /\ cur[sid].itvs \subseteq Resources
      /\ cur[sid].next \in Nat /\ cur[sid] \in Slot
      /\ cur[sid] = [next |-> cur[sid].next, b |-> cur[sid].b, e |-> cur[sid].e,
                     itvs |-> cur[sid].itvs]
  <2>1. cur[sid] \in Slot
    BY SlotTypes
  <2> QED
    BY <2>1 DEF Slot
<1>4. y \in Slot
  BY <1>1, <1>3 DEF Slot
<1>5. [cur EXCEPT ![sid].next = N, ![sid].e = t] = [cur EXCEPT ![sid] = y]
  <2> DEFINE f == [cur EXCEPT ![sid].next = N, ![sid].e = t]
             g == [cur EXCEPT ![sid] = y]
  <2>1. f[sid] = y
    BY <1>3
  <2> HIDE DEF y
  <2>2. f = g
    BY <2>1
  <2> QED
    BY <2>2
<1>6. SlotBeforeJob(cur, sid, job) = Grown(cur, sid, y, cur[sid])
  BY <1>2, <1>5 DEF Grown
<1>7. y = [next |-> N, b |-> cur[sid].b, e |-> t, itvs |-> cur[sid].itvs]
  OBVIOUS
<1> HIDE DEF y
<1> QED
  BY <1>3, <1>4, <1>6, <1>7 DEF N, t

(* Lists that differ in the begin of one slot, before a job *)
Alike(cur, other, sid, t) ==
  /\ cur \in Seq(Slot) /\ other \in Seq(Slot) /\ Len(other) = Len(cur)
  /\ sid \in DOMAIN cur /\ sid \in DOMAIN other
  /\ \A i \in DOMAIN cur : i # sid => cur[i] = other[i]
  /\ cur[sid].next = other[sid].next /\ cur[sid].e = other[sid].e
  /\ cur[sid].itvs = other[sid].itvs
  /\ cur[sid].b <= t /\ other[sid].b <= t

(* C of split_slots keeps two lists alike *)
LEMMA AlikeAfter ==
  ASSUME NEW cur, NEW other, NEW sid, NEW job, End(job) \in Nat,
         Alike(cur, other, sid, job.start)
  PROVE  Alike(SlotAfterJob(cur, sid, job), SlotAfterJob(other, sid, job), sid, job.start)
<1> DEFINE N == Len(cur) + 1
<1>0. N = Len(cur) + 1 /\ N = Len(other) + 1
  BY DEF Alike
<1>1. /\ cur \in Seq(Slot) /\ other \in Seq(Slot) /\ sid \in DOMAIN cur /\ sid \in DOMAIN other
      /\ DOMAIN cur = 1..Len(cur) /\ DOMAIN other = 1..Len(cur) /\ Len(cur) \in Nat
  BY DEF Alike
<1>2. PICK o1 \in Slot, a1 \in Slot :
        /\ SlotAfterJob(cur, sid, job) = Grown(cur, sid, o1, a1)
        /\ o1 = [next |-> N, b |-> cur[sid].b, e |-> cur[sid].e, itvs |-> cur[sid].itvs]
        /\ a1 = [next |-> cur[sid].next, b |-> End(job), e |-> cur[sid].e, itvs |-> cur[sid].itvs]
  BY <1>0, <1>1, AfterGrows
<1>3. PICK o2 \in Slot, a2 \in Slot :
        /\ SlotAfterJob(other, sid, job) = Grown(other, sid, o2, a2)
        /\ o2 = [next |-> N, b |-> other[sid].b, e |-> other[sid].e, itvs |-> other[sid].itvs]
        /\ a2 = [next |-> other[sid].next, b |-> End(job), e |-> other[sid].e,
                 itvs |-> other[sid].itvs]
  BY <1>0, <1>1, AfterGrows
<1> DEFINE x == SlotAfterJob(cur, sid, job)
           y == SlotAfterJob(other, sid, job)
<1>4. x = Grown(cur, sid, o1, a1) /\ y = Grown(other, sid, o2, a2)
  BY <1>2, <1>3
<1>b. o1 \in Slot /\ a1 \in Slot /\ o2 \in Slot /\ a2 \in Slot
  BY <1>2, <1>3
<1> HIDE DEF N, x, y
<1>5. /\ x \in Seq(Slot) /\ Len(x) = N /\ DOMAIN x = 1..N
      /\ x[N] = a1 /\ x[sid] = o1
      /\ \A i \in DOMAIN cur : i # sid => x[i] = cur[i]
  <2>1. IsGrown(cur, sid, o1, a1, x, N)
    BY <1>0, <1>1, <1>4, <1>b, GrownIs
  <2> QED
    BY <2>1 DEF IsGrown
<1>6. /\ y \in Seq(Slot) /\ Len(y) = N /\ DOMAIN y = 1..N
      /\ y[N] = a2 /\ y[sid] = o2
      /\ \A i \in DOMAIN other : i # sid => y[i] = other[i]
  <2>1. IsGrown(other, sid, o2, a2, y, N)
    BY <1>0, <1>1, <1>4, <1>b, GrownIs
  <2> QED
    BY <2>1 DEF IsGrown
<1>7. a1 = a2
  BY <1>2, <1>3 DEF Alike
<1>8. sid \in 1..N /\ \A i \in 1..N : i = N \/ i \in DOMAIN cur
  BY <1>0, <1>1
<1>9. /\ o1.next = o2.next /\ o1.e = o2.e /\ o1.itvs = o2.itvs
      /\ o1.b <= job.start /\ o2.b <= job.start
  BY <1>2, <1>3 DEF Alike
<1>10. \A i \in DOMAIN x : i # sid => x[i] = y[i]
  <2>1. \A i \in DOMAIN cur : i # sid => cur[i] = other[i]
    BY DEF Alike
  <2> QED
    BY <1>1, <1>5, <1>6, <1>7, <1>8, <2>1
<1>11. Alike(x, y, sid, job.start)
  BY <1>5, <1>6, <1>8, <1>9, <1>10 DEF Alike
<1> QED
  BY <1>11 DEF x, y

(* and B makes them equal: what was before the job is cut off *)
LEMMA AlikeDuring ==
  ASSUME NEW cur, NEW other, NEW sid, NEW job, End(job) \in Nat, job.start \in Nat,
         Alike(cur, other, sid, job.start)
  PROVE  SlotDuringJob(cur, sid, job, TRUE) = SlotDuringJob(other, sid, job, TRUE)
<1> DEFINE m1 == Max({cur[sid].b, job.start})
           m2 == Max({other[sid].b, job.start})
           n1 == Min({cur[sid].e, End(job) - 1})
           n2 == Min({other[sid].e, End(job) - 1})
<1>1. /\ cur \in Seq(Slot) /\ other \in Seq(Slot) /\ sid \in DOMAIN cur /\ sid \in DOMAIN other
      /\ DOMAIN cur = DOMAIN other
      /\ \A i \in DOMAIN cur : i # sid => cur[i] = other[i]
      /\ cur[sid].next = other[sid].next /\ cur[sid].e = other[sid].e
      /\ cur[sid].itvs = other[sid].itvs
      /\ cur[sid].b <= job.start /\ other[sid].b <= job.start
  BY DEF Alike
<1>2. cur[sid] \in Slot /\ other[sid] \in Slot /\ cur[sid].b \in Nat /\ other[sid].b \in Nat
  BY <1>1, SlotTypes
<1>3. m1 = job.start /\ m2 = job.start
  <2>1. Max({cur[sid].b, job.start}) = IF cur[sid].b >= job.start THEN cur[sid].b ELSE job.start
    BY <1>2, MaxOfTwo
  <2>2. Max({other[sid].b, job.start})
          = IF other[sid].b >= job.start THEN other[sid].b ELSE job.start
    BY <1>2, MaxOfTwo
  <2> QED
    BY <1>1, <1>2, <2>1, <2>2
<1>4. n1 = n2
  BY <1>1
<1> DEFINE d1 == [cur EXCEPT ![sid].b = Max({@, job.start}),
                             ![sid].e = Min({@, End(job) - 1}),
                             ![sid].itvs = @ \ job.res]
           d2 == [other EXCEPT ![sid].b = Max({@, job.start}),
                               ![sid].e = Min({@, End(job) - 1}),
                               ![sid].itvs = @ \ job.res]
<1>5. d1[sid] = [next |-> cur[sid].next, b |-> m1, e |-> n1, itvs |-> cur[sid].itvs \ job.res]
  BY <1>1, <1>2 DEF Slot
<1>6. d2[sid] = [next |-> other[sid].next, b |-> m2, e |-> n2, itvs |-> other[sid].itvs \ job.res]
  BY <1>1, <1>2 DEF Slot
<1>7. d1[sid] = d2[sid]
  <2> HIDE DEF m1, m2, n1, n2, d1, d2
  <2> QED
    BY <1>1, <1>3, <1>4, <1>5, <1>6
<1>8. DOMAIN d1 = DOMAIN cur /\ \A i \in DOMAIN cur : i # sid => d1[i] = cur[i]
  OBVIOUS
<1>9. DOMAIN d2 = DOMAIN other /\ \A i \in DOMAIN other : i # sid => d2[i] = other[i]
  OBVIOUS
<1>10. d1 = [i \in DOMAIN cur |-> d1[i]] /\ d2 = [i \in DOMAIN cur |-> d2[i]]
  <2>1. DOMAIN d1 = DOMAIN cur /\ DOMAIN d2 = DOMAIN cur
    BY <1>1, <1>8, <1>9
  <2>2. d1 = [i \in DOMAIN d1 |-> d1[i]]
    OBVIOUS
  <2>3. d2 = [i \in DOMAIN d2 |-> d2[i]]
    OBVIOUS
  <2> HIDE DEF d1, d2
  <2> QED
    BY <2>1, <2>2, <2>3
<1>11. SlotDuringJob(cur, sid, job, TRUE) = d1 /\ SlotDuringJob(other, sid, job, TRUE) = d2
  BY DEF SlotDuringJob
<1> HIDE DEF d1, d2
<1>12. \A i \in DOMAIN cur : d1[i] = d2[i]
  BY <1>1, <1>7, <1>8, <1>9
<1>13. d1 = d2
  BY <1>10, <1>12
<1> QED
  BY <1>11, <1>13

(* A turn of split_slots, in parts: the slots, and the id of the slot B *)
Begun(cur, sid, job) ==
  IF job.start > cur[sid].b THEN SlotBeforeJob(cur, sid, job) ELSE cur

HeldId(cur, sid, job) == IF job.start > cur[sid].b THEN Len(cur) + 1 ELSE sid

Ended(cur, sid, job, lasts) == IF lasts THEN SlotAfterJob(cur, sid, job) ELSE cur

NewSlots(cur, sid, job) ==
  SlotDuringJob(Ended(Begun(cur, sid, job), HeldId(cur, sid, job), job, End(job) <= cur[sid].e),
                HeldId(cur, sid, job), job, TRUE)

(* A turn is made of these parts *)
LEMMA TurnIs ==
  ASSUME NEW st, NEW sid, NEW job
  PROVE  SplitSlot(st, sid, job, TRUE)
           = [st EXCEPT !.slots = NewSlots(st.slots, sid, job),
                        !.at = IF @ = sid THEN HeldId(st.slots, sid, job) ELSE @]
  BY DEF SplitSlot, NewSlots, HeldId, Begun, Ended

(* The slot that is held, when the one with an id is B with another *)
Renamed(at, sid, id) == IF at = sid THEN id ELSE at

(* The same, for the state of one split *)
LEMMA TurnOfState ==
  ASSUME NEW cur, NEW at, NEW sid, NEW job
  PROVE  SplitSlot(State(cur, at), sid, job, TRUE)
           = State(NewSlots(cur, sid, job), Renamed(at, sid, HeldId(cur, sid, job)))
<1> DEFINE st == [slots |-> cur, at |-> at]
           x == NewSlots(cur, sid, job)
           h == HeldId(cur, sid, job)
<1>1. st = [slots |-> cur, at |-> at] /\ st.slots = cur
  OBVIOUS
<1> HIDE DEF st, x, h
<1>2. SplitSlot(st, sid, job, TRUE) = [st EXCEPT !.slots = x, !.at = IF @ = sid THEN h ELSE @]
  <2>1. NewSlots(st.slots, sid, job) = x /\ HeldId(st.slots, sid, job) = h
    BY <1>1 DEF x, h
  <2>2. SplitSlot(st, sid, job, TRUE)
          = [st EXCEPT !.slots = NewSlots(st.slots, sid, job),
                       !.at = IF @ = sid THEN HeldId(st.slots, sid, job) ELSE @]
    BY TurnIs
  <2> QED
    BY <2>1, <2>2
<1>3. SplitSlot(st, sid, job, TRUE) = [slots |-> x, at |-> IF at = sid THEN h ELSE at]
  BY <1>1, <1>2
<1> QED
  BY <1>3 DEF st, x, h, State, Renamed

(* A job that begins within the first slot: A of split_slots *)
LEMMA BeforeIsHalved ==
  ASSUME NEW slots, NEW order, NEW b, NEW e, Linked(slots, order, b, e),
         NEW m \in DOMAIN slots, NEW job, job.start \in Nat, End(job) \in Nat,
         slots[order[m]].b < job.start,
         NEW last, last = Len(slots) + 1,
         NEW new, IsHalved(slots, new, m, order, last, job.start)
  PROVE  /\ NewSlots(slots, order[m], job) = NewSlots(new, last, job)
         /\ HeldId(slots, order[m], job) = last
         /\ HeldId(new, last, job) = last
<1> DEFINE sid == order[m]
           cut == SlotBeforeJob(slots, sid, job)
<1>0. sid = order[m] /\ cut = SlotBeforeJob(slots, sid, job)
  OBVIOUS
<1>1. /\ DOMAIN slots = 1..Len(slots) /\ Len(slots) \in Nat \ {0}
      /\ sid \in DOMAIN slots
      /\ slots \in Seq(Slot)
  BY OrderTypes
<1> HIDE DEF sid, cut
<1>2. slots[sid] \in Slot /\ slots[sid].b \in Nat /\ slots[sid].e \in Nat
  BY <1>1, SlotTypes
<1>a. slots[sid].b < job.start
  BY <1>0
<1>b. job.start - 1 \in Nat
  BY <1>2, <1>a
<1>3. PICK old \in Slot, added \in Slot :
        /\ cut = Grown(slots, sid, old, added)
        /\ old = [next |-> Len(slots) + 1, b |-> slots[sid].b, e |-> job.start - 1,
                  itvs |-> slots[sid].itvs]
        /\ added = slots[sid]
  BY <1>0, <1>1, <1>b, BeforeGrows
<1>4. IsGrown(slots, sid, old, added, cut, last)
  BY <1>1, <1>3, GrownIs
<1>5. /\ cut \in Seq(Slot) /\ Len(cut) = last /\ DOMAIN cut = 1..last
      /\ cut[last] = slots[sid]
      /\ cut[sid].next = last /\ cut[sid].b = slots[sid].b /\ cut[sid].e = job.start - 1
      /\ cut[sid].itvs = slots[sid].itvs
      /\ \A i \in DOMAIN slots : i # sid => cut[i] = slots[i]
  BY <1>3, <1>4 DEF IsGrown
<1>6. /\ new \in Seq(Slot) /\ Len(new) = last /\ DOMAIN new = 1..last
      /\ new[last].next = slots[sid].next /\ new[last].b = job.start
      /\ new[last].e = slots[sid].e /\ new[last].itvs = slots[sid].itvs
      /\ new[sid].next = last /\ new[sid].b = slots[sid].b
      /\ new[sid].e = job.start - 1 /\ new[sid].itvs = slots[sid].itvs
      /\ \A i \in DOMAIN slots \ {sid} : new[i] = slots[i]
  BY <1>0 DEF IsHalved
<1>7. /\ sid # last /\ sid \in 1..last /\ last \in 1..last
      /\ \A i \in 1..last : i = last \/ i \in DOMAIN slots
  BY <1>1
<1>8. cut[sid] = new[sid]
  <2>1. cut[sid] \in Slot /\ new[sid] \in Slot
    BY <1>5, <1>6, <1>7, SlotTypes
  <2>2. /\ cut[sid].next = new[sid].next /\ cut[sid].b = new[sid].b /\ cut[sid].e = new[sid].e
        /\ cut[sid].itvs = new[sid].itvs
    BY <1>5, <1>6
  <2> QED
    BY <2>1, <2>2 DEF Slot
<1>9. Alike(cut, new, last, job.start)
  <2>1. \A i \in DOMAIN cut : i # last => cut[i] = new[i]
    BY <1>5, <1>6, <1>7, <1>8
  <2>2. cut[last].b <= job.start /\ new[last].b <= job.start
    BY <1>2, <1>5, <1>6, <1>a
  <2> QED
    BY <1>5, <1>6, <1>7, <2>1, <2>2 DEF Alike
<1>10. HeldId(slots, sid, job) = last /\ Begun(slots, sid, job) = cut
  BY <1>0, <1>2, <1>a DEF HeldId, Begun
<1>11. HeldId(new, last, job) = last /\ Begun(new, last, job) = new
  BY <1>6 DEF HeldId, Begun
<1> DEFINE lasts == End(job) <= slots[sid].e
<1>12. lasts = (End(job) <= new[last].e)
  BY <1>6
<1>13. Alike(Ended(cut, last, job, lasts), Ended(new, last, job, lasts), last, job.start)
  <2>1. CASE lasts
    BY <1>9, <2>1, AlikeAfter DEF Ended
  <2>2. CASE ~ lasts
    BY <1>9, <2>2 DEF Ended
  <2> QED
    BY <2>1, <2>2
<1> HIDE DEF lasts
<1>14. SlotDuringJob(Ended(cut, last, job, lasts), last, job, TRUE)
         = SlotDuringJob(Ended(new, last, job, lasts), last, job, TRUE)
  <2> DEFINE p == Ended(cut, last, job, lasts)
             q == Ended(new, last, job, lasts)
  <2>1. Alike(p, q, last, job.start)
    BY <1>13
  <2> HIDE DEF p, q
  <2>2. SlotDuringJob(p, last, job, TRUE) = SlotDuringJob(q, last, job, TRUE)
    BY <2>1, AlikeDuring, ZenonT(30)
  <2> QED
    BY <2>2 DEF p, q
<1>15. NewSlots(slots, sid, job) = SlotDuringJob(Ended(cut, last, job, lasts), last, job, TRUE)
  BY <1>10 DEF NewSlots, lasts
<1>16. NewSlots(new, last, job) = SlotDuringJob(Ended(new, last, job, lasts), last, job, TRUE)
  BY <1>11, <1>12 DEF NewSlots
<1>17. NewSlots(slots, sid, job) = NewSlots(new, last, job)
  BY <1>14, <1>15, <1>16
<1> QED
  BY <1>0, <1>10, <1>11, <1>17

(* What split_slots_jobs knows when a job has been put: the slot that is   *)
(* held ends with it, and the job begins with the slot at the left, or     *)
(* after it.                                                               *)
IsPut(slots, b, e, left, at, s, job) ==
  \E order : \E l, a \in DOMAIN slots :
    /\ Linked(slots, order, b, e) /\ NoObstacle(slots)
    /\ l <= a /\ order[l] = left /\ order[a] = at
    /\ slots[left].b <= s /\ s <= slots[left].e + 1
    /\ slots[at].e = End(job) - 1

(* A split that goes from a list to another where the job is               *)
Puts(slots, at, path, b, e, left, s, job, clipped) ==
  \E turn, new, held :
    /\ Splitting(turn, slots, at, path, job, new, held)
    /\ IsPut(new, b, e, left, held, s, job)
    /\ FreeBut(slots, new, clipped)

(* A job that begins with a slot, the one at the left or a later one *)
LEMMA WholeIsPut ==
  ASSUME NEW slots, NEW order, NEW b, NEW e, Linked(slots, order, b, e), NoObstacle(slots),
         NEW m \in DOMAIN slots, NEW n \in DOMAIN slots, NEW job,
         IsJobAt(slots, order, m, n, job), End(job) <= slots[order[n]].e,
         NEW given, AsGiven(job, given),
         NEW l \in DOMAIN slots, l <= m,
         slots[order[l]].b <= job.start, job.start <= slots[order[l]].e + 1
  PROVE  Puts(slots, order[n], Ids(order, m, n), b, e, order[l], job.start, given, job)
<1> DEFINE last == Len(slots) + 1
           new == Cut(slots, order, m, n, job)
           o == After(order, n, last)
<1>1. /\ DOMAIN slots = 1..Len(slots) /\ Len(slots) \in Nat \ {0}
      /\ \A k \in DOMAIN slots : /\ order[k] \in DOMAIN slots
                                 /\ slots[order[k]].b \in Nat /\ slots[order[k]].e \in Nat
  BY OrderTypes
<1>2. m <= n /\ job.start \in Nat /\ End(job) \in Nat /\ job.walltime \in Nat \ {0}
      /\ job.start = slots[order[m]].b /\ End(job) = job.start + job.walltime
  BY JobTypes
<1>3. last = Len(slots) + 1 /\ new = Cut(slots, order, m, n, job) /\ o = After(order, n, last)
  OBVIOUS
<1>4. Remains(slots, order, m, n, job) = new
  BY DEF Remains
<1> HIDE DEF last, new, o
<1>5. IsCutAt(slots, order, n, job)
  BY DEF IsCutAt
<1>6. Linked(new, o, b, e)
  BY <1>3, <1>5, CutIsLinked
<1>7. FreeBut(slots, new, job) /\ Loses(slots, new, order, m, n, job)
  BY <1>3, <1>5, CutKeeps
<1>8. NoObstacle(new)
  BY <1>7, NoNewObstacle
<1>9. PICK turn : Splitting(turn, slots, order[n], Ids(order, m, n), given, new, order[n])
  BY <1>4, TurnsFor
<1>10. IsAfter(slots, o, order, n, last)
  BY <1>3, AfterIs
<1>11. l <= n /\ l \in DOMAIN new /\ n \in DOMAIN new
  <2>1. DOMAIN new = 1..last
    BY <1>3, <1>5, CutTypes
  <2> QED
    BY <1>1, <1>2, <1>3, <2>1, SMTT(30)
<1>12. o[l] = order[l] /\ o[n] = order[n]
  <2>1. l \in 1..last /\ n \in 1..last
    BY <1>1, <1>3
  <2>2. \A k \in 1..last : k <= n => o[k] = order[k]
    BY <1>10 DEF IsAfter
  <2> QED
    BY <1>1, <1>11, <2>1, <2>2
<1>13. new[order[n]].e = End(job) - 1 /\ new[order[n]].b = slots[order[n]].b
  BY <1>3, <1>5, CutTypes
<1>14. new[order[l]].b <= job.start /\ job.start <= new[order[l]].e + 1
  <2>1. CASE order[l] = order[n]
    BY <1>1, <1>2, <1>13, <2>1, SMTT(30)
  <2>2. CASE order[l] # order[n]
    <3>1. new[order[l]].b = slots[order[l]].b /\ new[order[l]].e = slots[order[l]].e
      <4>1. \A i \in DOMAIN slots \ {order[n]} : new[i].b = slots[i].b /\ new[i].e = slots[i].e
        BY <1>3, <1>5, CutTypes
      <4> QED
        BY <1>1, <2>2, <4>1
    <3> QED
      BY <3>1
  <2> QED
    BY <2>1, <2>2
<1>15. End(given) = End(job)
  BY DEF AsGiven
<1>16. IsPut(new, b, e, order[l], order[n], job.start, given)
  BY <1>6, <1>8, <1>11, <1>12, <1>13, <1>14, <1>15 DEF IsPut
<1> QED
  BY <1>7, <1>9, <1>16 DEF Puts

(* The list when the slot in which a job begins has been halved *)
HalvedFor(slots, order, m, n, job, h, o, last) ==
  /\ last = Len(slots) + 1
  /\ IsHalved(slots, h, m, order, last, job.start)
  /\ o[m] = order[m] /\ o[m + 1] = last
  /\ o[n + 1] = IF order[n] = order[m] THEN last ELSE order[n]
  /\ \A k \in DOMAIN slots : m < k => o[k + 1] = order[k]

(* Its turns are those of the list as it was, but for the first state *)
LEMMA SameTurns ==
  ASSUME NEW slots, NEW order, NEW b, NEW e, Linked(slots, order, b, e),
         NEW m \in DOMAIN slots, NEW n \in DOMAIN slots, m <= n,
         NEW job, job.start \in Nat, End(job) \in Nat, slots[order[m]].b < job.start,
         NEW h, NEW o, NEW last, HalvedFor(slots, order, m, n, job, h, o, last),
         Linked(h, o, b, e), NEW path, path = Ids(o, m + 1, n + 1),
         NEW turn0, NEW new, NEW held, Splitting(turn0, h, o[n + 1], path, job, new, held)
  PROVE  \E turn : Splitting(turn, slots, order[n], Ids(order, m, n), job, new, held)
<1> DEFINE c == n - m + 1
           turn == [k \in 0..c |-> IF k = 0 THEN State(slots, order[n]) ELSE turn0[k]]
           old == Ids(order, m, n)
<1>1. /\ DOMAIN slots = 1..Len(slots) /\ Len(slots) \in Nat \ {0}
      /\ \A k \in DOMAIN slots : order[k] \in DOMAIN slots
  BY OrderTypes
<1>2. last = Len(slots) + 1 /\ IsHalved(slots, h, m, order, last, job.start)
  BY DEF HalvedFor
<1>3. DOMAIN h = 1..last
  BY <1>2 DEF IsHalved
<1>4. m + 1 \in DOMAIN h /\ n + 1 \in DOMAIN h /\ m + 1 <= n + 1 /\ c \in Nat /\ c # 0
      /\ (n + 1) - (m + 1) + 1 = c
  BY <1>1, <1>2, <1>3
<1>5. Len(old) = c /\ \A k \in 1..c : old[k] = order[m + k - 1]
  <2>1. Len(Ids(order, m, n)) = n - m + 1
    BY IdsStep
  <2> QED
    BY <2>1 DEF Ids
<1>6. Len(path) = c /\ \A k \in 1..c : path[k] = o[(m + 1) + k - 1]
  <2>1. Len(Ids(o, m + 1, n + 1)) = (n + 1) - (m + 1) + 1
    <3> DEFINE p == m + 1
               q == n + 1
    <3>1. p \in DOMAIN h /\ q \in DOMAIN h /\ p <= q
      BY <1>4
    <3> HIDE DEF p, q
    <3>2. Len(Ids(o, p, q)) = q - p + 1
      BY <3>1, IdsStep
    <3> QED
      BY <3>2 DEF p, q
  <2> QED
    BY <1>4, <2>1 DEF Ids
<1>7. old[1] = order[m] /\ path[1] = last
  <2>1. m + 1 - 1 = m /\ (m + 1) + 1 - 1 = m + 1 /\ 1 \in 1..c
    BY <1>1, <1>4
  <2>2. o[m + 1] = last
    BY DEF HalvedFor
  <2> QED
    BY <1>5, <1>6, <2>1, <2>2
<1>8. ASSUME NEW k \in 1..c, k # 1
      PROVE  old[k] = path[k]
  <2>1. m + k - 1 \in DOMAIN slots /\ m < m + k - 1 /\ (m + k - 1) + 1 = (m + 1) + k - 1
    BY <1>1, <1>4, <1>8, SMTT(30)
  <2>2. o[(m + k - 1) + 1] = order[m + k - 1]
    BY <2>1 DEF HalvedFor
  <2> QED
    BY <1>5, <1>6, <2>1, <2>2
<1>9. /\ turn0[0] = State(h, o[n + 1])
      /\ \A k \in 1..c : turn0[k] = SplitSlot(turn0[k - 1], path[k], job, TRUE)
      /\ turn0[c] = State(new, held)
      /\ \A k \in 0..c : \E cur, a : turn0[k] = State(cur, a)
  BY <1>6 DEF Splitting, Turns
<1>10. /\ turn[0] = State(slots, order[n])
       /\ \A k \in 1..c : turn[k] = turn0[k]
  BY <1>4
<1> HIDE DEF turn, old, c
<1>11. turn0[1] = SplitSlot(State(slots, order[n]), order[m], job, TRUE)
  <2>1. /\ NewSlots(slots, order[m], job) = NewSlots(h, last, job)
        /\ HeldId(slots, order[m], job) = last
        /\ HeldId(h, last, job) = last
    BY <1>2, BeforeIsHalved
  <2>2. turn0[1] = SplitSlot(State(h, o[n + 1]), last, job, TRUE)
    <3>1. 1 \in 1..c /\ 1 - 1 = 0
      BY <1>4
    <3> QED
      BY <1>7, <1>9, <3>1
  <2>3. SplitSlot(State(h, o[n + 1]), last, job, TRUE)
          = State(NewSlots(h, last, job),
                  Renamed(o[n + 1], last, HeldId(h, last, job)))
    BY TurnOfState, ZenonT(30)
  <2>4. SplitSlot(State(slots, order[n]), order[m], job, TRUE)
          = State(NewSlots(slots, order[m], job),
                  Renamed(order[n], order[m], HeldId(slots, order[m], job)))
    BY TurnOfState, ZenonT(30)
  <2>5. o[n + 1] = IF order[n] = order[m] THEN last ELSE order[n]
    BY DEF HalvedFor
  <2> QED
    BY <2>1, <2>2, <2>3, <2>4, <2>5 DEF Renamed
<1>12. ASSUME NEW k \in 1..c
       PROVE  turn[k] = SplitSlot(turn[k - 1], old[k], job, TRUE)
  <2>1. CASE k = 1
    <3>1. 1 - 1 = 0
      OBVIOUS
    <3> QED
      BY <1>7, <1>10, <1>11, <2>1, <3>1
  <2>2. CASE k # 1
    <3>1. k - 1 \in 1..c
      BY <1>4, <2>2
    <3> QED
      BY <1>8, <1>9, <1>10, <2>2, <3>1
  <2> QED
    BY <2>1, <2>2
<1>13. Turns(turn, State(slots, order[n]), old, job)
  BY <1>5, <1>10, <1>12 DEF Turns
<1>14. turn[Len(old)] = State(new, held)
  <2>1. c \in 1..c
    BY <1>4
  <2> QED
    BY <1>5, <1>9, <1>10, <2>1
<1>15. \A k \in 0..Len(old) : \E cur, a : turn[k] = State(cur, a)
  <2>1. \A k \in 0..c : k = 0 \/ k \in 1..c
    BY <1>4
  <2>2. \A k \in 1..c : k \in 0..c
    BY <1>4
  <2> QED
    BY <1>5, <1>9, <1>10, <2>1, <2>2
<1>16. Splitting(turn, slots, order[n], old, job, new, held)
  BY <1>13, <1>14, <1>15 DEF Splitting
<1> QED
  BY <1>16 DEF old

(* A job that begins in the slot at the left, or just after it *)
LEMMA HalvedIsPut ==
  ASSUME NEW slots, NEW order, NEW b, NEW e, Linked(slots, order, b, e), NoObstacle(slots),
         NEW m \in DOMAIN slots, NEW n \in DOMAIN slots, m <= n,
         NEW job, job.start \in Nat, job.walltime \in Nat \ {0},
         slots[order[m]].b < job.start, job.start <= slots[order[m]].e + 1,
         slots[order[n]].b <= End(job), End(job) <= slots[order[n]].e
  PROVE  Puts(slots, order[n], Ids(order, m, n), b, e, order[m], job.start, job, job)
<1> DEFINE last == Len(slots) + 1
           h == Halved(slots, order, m, job.start)
           o == After(order, m, last)
<1>1. /\ DOMAIN slots = 1..Len(slots) /\ Len(slots) \in Nat \ {0}
      /\ \A k \in DOMAIN slots : /\ order[k] \in DOMAIN slots
                                 /\ slots[order[k]].b \in Nat /\ slots[order[k]].e \in Nat
  BY OrderTypes
<1>2. End(job) \in Nat /\ End(job) = job.start + job.walltime
  BY DEF End
<1>3. last = Len(slots) + 1 /\ h = Halved(slots, order, m, job.start)
      /\ o = After(order, m, last)
  OBVIOUS
<1> HIDE DEF last, h, o
<1>4. /\ IsHalved(slots, h, m, order, last, job.start)
      /\ Linked(h, o, b, e)
      /\ NoObstacle(h)
      /\ \A u \in Int : FreeAt(h, u) = FreeAt(slots, u)
  BY <1>3, HalvedIs
<1>5. IsAfter(slots, o, order, m, last)
  BY <1>3, AfterIs
<1>6. /\ m \in 1..last /\ m + 1 \in 1..last /\ n + 1 \in 1..last /\ DOMAIN h = 1..last
      /\ m + 1 <= n + 1 /\ m <= m + 1
  <2>1. DOMAIN h = 1..last
    BY <1>4 DEF IsHalved
  <2>2. m \in 1..Len(slots) /\ n \in 1..Len(slots) /\ Len(slots) \in Nat /\ m <= n
    BY <1>1
  <2>3. m \in 1..last /\ m + 1 \in 1..last /\ n + 1 \in 1..last
    BY <1>3, <2>2
  <2> QED
    BY <2>1, <2>2, <2>3
<1>7. o[m] = order[m] /\ o[m + 1] = last
  <2>1. m <= m
    BY <1>1
  <2> QED
    BY <1>5, <1>6, <2>1 DEF IsAfter
<1>8. ASSUME NEW k \in DOMAIN slots, m < k
      PROVE  o[k + 1] = order[k]
  <2>1. k + 1 \in 1..last /\ k + 1 > m + 1 /\ (k + 1) - 1 = k
    BY <1>1, <1>3, <1>8, SMTT(30)
  <2>2. \A i \in 1..last : i > m + 1 => o[i] = order[i - 1]
    BY <1>5 DEF IsAfter
  <2> DEFINE p == k + 1
  <2>3. p \in 1..last /\ p > m + 1 /\ p - 1 = k
    BY <2>1
  <2> HIDE DEF p
  <2>4. o[p] = order[k]
    BY <2>2, <2>3
  <2> QED
    BY <2>4 DEF p
<1>9. order[n] = order[m] <=> n = m
  BY DEF Linked, InOrder
<1>10. o[n + 1] = IF order[n] = order[m] THEN last ELSE order[n]
  <2>1. CASE n = m
    BY <1>7, <2>1
  <2>2. CASE n # m
    <3>1. m < n
      BY <1>1, <2>2
    <3> QED
      BY <1>8, <1>9, <2>2, <3>1
  <2> QED
    BY <2>1, <2>2
<1>11. HalvedFor(slots, order, m, n, job, h, o, last)
  BY <1>3, <1>4, <1>7, <1>8, <1>10 DEF HalvedFor
<1>12. h[o[m + 1]].b = job.start /\ h[o[m]].b = slots[order[m]].b /\ h[o[m]].e = job.start - 1
  BY <1>4, <1>7 DEF IsHalved
<1>13. h[o[n + 1]].b <= End(job) /\ End(job) <= h[o[n + 1]].e /\ h[o[n + 1]].e \in Nat
  <2>1. CASE n = m
    <3>1. h[last].b = job.start /\ h[last].e = slots[order[m]].e
      BY <1>4 DEF IsHalved
    <3> QED
      BY <1>1, <1>2, <1>7, <2>1, <3>1, SMTT(30)
  <2>2. CASE n # m
    <3>1. o[n + 1] = order[n] /\ order[n] \in DOMAIN slots \ {order[m]}
      BY <1>1, <1>9, <1>10, <2>2
    <3>2. h[order[n]] = slots[order[n]]
      BY <1>4, <3>1 DEF IsHalved
    <3> QED
      BY <1>1, <3>1, <3>2
  <2> QED
    BY <2>1, <2>2
<1>14. IsJobAt(h, o, m + 1, n + 1, job)
  <2>1. End(job) - 1 <= h[o[n + 1]].e
    BY <1>2, <1>13
  <2> QED
    BY <1>6, <1>12, <1>13, <2>1 DEF IsJobAt
<1>15. AsGiven(job, job)
  BY DEF AsGiven
<1>16. h[o[m]].b <= job.start /\ job.start <= h[o[m]].e + 1
  BY <1>1, <1>12
<1> DEFINE p == m + 1
           q == n + 1
<1>17. /\ IsJobAt(h, o, p, q, job) /\ End(job) <= h[o[q]].e /\ p \in DOMAIN h /\ q \in DOMAIN h
       /\ m \in DOMAIN h /\ m <= p
  BY <1>6, <1>13, <1>14
<1> HIDE DEF p, q
<1>18. Puts(h, o[q], Ids(o, p, q), b, e, o[m], job.start, job, job)
  BY <1>4, <1>15, <1>16, <1>17, WholeIsPut
<1>19. PICK turn0, new, held :
         /\ Splitting(turn0, h, o[q], Ids(o, p, q), job, new, held)
         /\ IsPut(new, b, e, o[m], held, job.start, job)
         /\ FreeBut(h, new, job)
  BY <1>18 DEF Puts
<1> DEFINE path == Ids(o, p, q)
<1>20. path = Ids(o, m + 1, n + 1) /\ Splitting(turn0, h, o[n + 1], path, job, new, held)
  BY <1>19 DEF p, q
<1> HIDE DEF path
<1>21. PICK turn : Splitting(turn, slots, order[n], Ids(order, m, n), job, new, held)
  BY <1>2, <1>4, <1>11, <1>20, SameTurns
<1>22. FreeBut(slots, new, job)
  BY <1>4, <1>19 DEF FreeBut
<1> QED
  BY <1>7, <1>19, <1>21, <1>22 DEF Puts

(* A job that may have begun before the list does *)
LEMMA AimedIsPut ==
  ASSUME NEW slots, NEW order, NEW b, NEW e, Linked(slots, order, b, e), NoObstacle(slots),
         NEW m \in DOMAIN slots, NEW n \in DOMAIN slots, m <= n,
         NEW job, job.start \in Nat, job.walltime \in Nat \ {0},
         NEW s, s = Max({job.start, b}), s < End(job),
         slots[order[m]].b <= s, s <= slots[order[m]].e + 1,
         slots[order[n]].b <= End(job), End(job) <= slots[order[n]].e
  PROVE  Puts(slots, order[n], Ids(order, m, n), b, e, order[m], s, job, job)
<1>1. /\ DOMAIN slots = 1..Len(slots) /\ Len(slots) \in Nat \ {0} /\ b \in Nat
      /\ \A k \in DOMAIN slots : /\ order[k] \in DOMAIN slots
                                 /\ slots[order[k]].b \in Nat /\ slots[order[k]].e \in Nat
  BY OrderTypes
<1>2. End(job) \in Nat /\ End(job) = job.start + job.walltime
  BY DEF End
<1>3. (job.start >= b /\ s = job.start) \/ (job.start < b /\ s = b)
  <2>1. Max({job.start, b}) = IF job.start >= b THEN job.start ELSE b
    BY <1>1, MaxOfTwo, SMTT(30)
  <2> QED
    BY <1>1, <2>1
<1>4. b <= slots[order[m]].b
  BY SlotsWithin
<1>5. CASE slots[order[m]].b < s
  <2>1. s = job.start
    BY <1>1, <1>3, <1>4, <1>5
  <2> QED
    BY <1>5, <2>1, HalvedIsPut
<1>6. CASE slots[order[m]].b = s
  <2> DEFINE clipped == [start |-> s, walltime |-> End(job) - s, res |-> job.res]
  <2>1. /\ clipped.start = s /\ clipped.walltime = End(job) - s /\ clipped.res = job.res
    OBVIOUS
  <2> HIDE DEF clipped
  <2>2. s \in Nat /\ job.start <= s
    BY <1>1, <1>3
  <2>3. clipped.walltime \in Nat \ {0} /\ End(clipped) = End(job)
    BY <1>2, <2>1, <2>2 DEF End
  <2>4. IsJobAt(slots, order, m, n, clipped)
    <3>1. End(job) - 1 <= slots[order[n]].e
      BY <1>1, <1>2
    <3> QED
      BY <1>6, <2>1, <2>3, <3>1 DEF IsJobAt
  <2>5. AsGiven(clipped, job)
    BY <2>1, <2>2, <2>3 DEF AsGiven
  <2>6. m <= m /\ slots[order[m]].b <= clipped.start /\ clipped.start <= slots[order[m]].e + 1
    BY <1>1, <2>1
  <2>7. Puts(slots, order[n], Ids(order, m, n), b, e, order[m], clipped.start, job, clipped)
    BY <2>3, <2>4, <2>5, <2>6, WholeIsPut
  <2>8. PICK turn, new, held :
          /\ Splitting(turn, slots, order[n], Ids(order, m, n), job, new, held)
          /\ IsPut(new, b, e, order[m], held, s, job)
          /\ FreeBut(slots, new, clipped)
    BY <2>1, <2>7 DEF Puts
  <2>9. FreeBut(slots, new, job)
    <3> SUFFICES ASSUME NEW u \in Int
                 PROVE  FreeAt(new, u) = IF u \in job.start..End(job) - 1
                                         THEN FreeAt(slots, u) \ job.res ELSE FreeAt(slots, u)
      BY DEF FreeBut
    <3>1. FreeAt(new, u) = IF u \in s..End(job) - 1
                           THEN FreeAt(slots, u) \ job.res ELSE FreeAt(slots, u)
      BY <2>1, <2>3, <2>8 DEF FreeBut
    <3>2. CASE u < s /\ job.start <= u
      <4>1. u < b
        BY <1>1, <1>3, <3>2
      <4>2. FreeAt(slots, u) = {}
        <5>1. ~ (b <= u /\ u <= e)
          BY <1>1, <4>1
        <5> QED
          BY <5>1, FreeOutside
      <4> QED
        BY <3>1, <4>2
    <3>3. CASE ~ (u < s /\ job.start <= u)
      <4>1. u \in s..End(job) - 1 <=> u \in job.start..End(job) - 1
        BY <1>2, <2>2, <3>3
      <4> QED
        BY <3>1, <4>1
    <3> QED
      BY <3>2, <3>3
  <2> QED
    BY <2>8, <2>9 DEF Puts
<1>7. s \in Nat
  BY <1>1, <1>3
<1> QED
  BY <1>1, <1>5, <1>6, <1>7

(* What split_slots_jobs works on *)
LoadOf(cur, at, left, broken) == [slots |-> cur, at |-> at, left |-> left, broken |-> broken]

Load(cur, at, left) == LoadOf(cur, at, left, FALSE)

(* The fields of this state *)
LEMMA LoadParts ==
  ASSUME NEW cur, NEW at, NEW left
  PROVE  /\ Load(cur, at, left).slots = cur /\ Load(cur, at, left).at = at
         /\ Load(cur, at, left).left = left /\ ~ Load(cur, at, left).broken
<1>1. ~ LoadOf(cur, at, left, FALSE).broken
  BY DEF LoadOf
<1>2. /\ LoadOf(cur, at, left, FALSE).slots = cur /\ LoadOf(cur, at, left, FALSE).at = at
      /\ LoadOf(cur, at, left, FALSE).left = left
  BY DEF LoadOf
<1> QED
  BY <1>1, <1>2, Zenon DEF Load

(* The slot that is held and the one at the left move *)
Moved(st, at, left) == [st EXCEPT !.at = at, !.left = left]

(* The state in which they have moved *)
LEMMA LoadMoved ==
  ASSUME NEW cur, NEW at, NEW left, NEW broken, NEW a, NEW l
  PROVE  Moved(LoadOf(cur, at, left, broken), a, l) = LoadOf(cur, a, l, broken)
<1> DEFINE st == LoadOf(cur, at, left, broken)
<1>1. [st EXCEPT !.at = a, !.left = l] = [[st EXCEPT !.at = a] EXCEPT !.left = l]
  OBVIOUS
<1>2. [st EXCEPT !.at = a] = LoadOf(cur, a, left, broken)
  BY DEF LoadOf
<1>3. [LoadOf(cur, a, left, broken) EXCEPT !.left = l] = LoadOf(cur, a, l, broken)
  BY DEF LoadOf
<1> HIDE DEF st
<1> QED
  BY <1>1, <1>2, <1>3 DEF st, Moved

(* A turn, from a state to another *)
IsTurn(st, sid, job, next) == SplitSlot(st, sid, job, TRUE) = next

(* A turn changes the slots and, maybe, the id of the slot that is held *)
LEMMA TurnOfLoad ==
  ASSUME NEW cur, NEW at, NEW left, NEW sid, NEW job
  PROVE  IsTurn(Load(cur, at, left), sid, job,
                Load(NewSlots(cur, sid, job), Renamed(at, sid, HeldId(cur, sid, job)), left))
<1> DEFINE st == [slots |-> cur, at |-> at, left |-> left, broken |-> FALSE]
           x == NewSlots(cur, sid, job)
           h == HeldId(cur, sid, job)
<1>1. st = [slots |-> cur, at |-> at, left |-> left, broken |-> FALSE] /\ st.slots = cur
  OBVIOUS
<1> HIDE DEF st, x, h
<1>2. SplitSlot(st, sid, job, TRUE) = [st EXCEPT !.slots = x, !.at = IF @ = sid THEN h ELSE @]
  <2>1. NewSlots(st.slots, sid, job) = x /\ HeldId(st.slots, sid, job) = h
    BY <1>1 DEF x, h
  <2>2. SplitSlot(st, sid, job, TRUE)
          = [st EXCEPT !.slots = NewSlots(st.slots, sid, job),
                       !.at = IF @ = sid THEN HeldId(st.slots, sid, job) ELSE @]
    BY TurnIs
  <2> QED
    BY <2>1, <2>2
<1>3. SplitSlot(st, sid, job, TRUE)
        = [slots |-> x, at |-> IF at = sid THEN h ELSE at, left |-> left, broken |-> FALSE]
  BY <1>1, <1>2
<1> QED
  BY <1>3 DEF st, x, h, Load, LoadOf, Renamed, IsTurn

(* A split of it *)
IsSplit(st, l, r, job, next) == SplitSlots(st, l, r, job, TRUE) = next

(* The turns are the same in it *)
LEMMA LoadSplits ==
  ASSUME NEW slots, NEW at, NEW left, NEW l, NEW r, NEW job,
         Len(Path(slots, l, r)) \in Nat,
         NEW turn, NEW new, NEW held,
         Splitting(turn, slots, at, Path(slots, l, r), job, new, held)
  PROVE  IsSplit(Load(slots, at, left), l, r, job, Load(new, held, left))
<1> DEFINE path == Path(slots, l, r)
           c == Len(path)
           st == Load(slots, at, left)
           load == [k \in 0..c |-> Load(turn[k].slots, turn[k].at, left)]
<1>0. st.slots = slots
  BY LoadParts
<1>1. c \in Nat /\ c = Len(path) /\ path = Path(slots, l, r) /\ st.slots = slots
      /\ st = Load(slots, at, left)
  BY <1>0
<1> HIDE DEF c, path, st
<1>2. /\ turn[0] = State(slots, at)
      /\ \A k \in 1..c : turn[k] = SplitSlot(turn[k - 1], path[k], job, TRUE)
      /\ turn[c] = State(new, held)
      /\ \A k \in 0..c : \E cur, a : turn[k] = State(cur, a)
  BY <1>1 DEF Splitting, Turns
<1>3. \A k \in 0..c : load[k] = Load(turn[k].slots, turn[k].at, left)
  OBVIOUS
<1> HIDE DEF load
<1>4. \A cur, a : State(cur, a).slots = cur /\ State(cur, a).at = a
  BY DEF State
<1>5. load[0] = st /\ load[c] = Load(new, held, left)
  <2>1. 0 \in 0..c /\ c \in 0..c
    BY <1>1
  <2> QED
    BY <1>1, <1>2, <1>3, <1>4, <2>1
<1>6. ASSUME NEW k \in 1..c
      PROVE  load[k] = SplitSlot(load[k - 1], path[k], job, TRUE)
  <2>1. k \in 0..c /\ k - 1 \in 0..c
    BY <1>1
  <2>2. PICK cur, a : turn[k - 1] = State(cur, a)
    BY <1>2, <2>1
  <2>3. load[k - 1] = Load(cur, a, left)
    BY <1>3, <1>4, <2>1, <2>2
  <2> DEFINE sid == path[k]
             x == NewSlots(cur, sid, job)
             y == Renamed(a, sid, HeldId(cur, sid, job))
  <2>a. turn[k] = SplitSlot(State(cur, a), sid, job, TRUE)
    BY <1>2, <2>2
  <2>b. sid = path[k]
    OBVIOUS
  <2> HIDE DEF sid
  <2>4. turn[k] = State(x, y)
    BY <2>a, TurnOfState, ZenonT(30)
  <2>5. IsTurn(Load(cur, a, left), sid, job, Load(x, y, left))
    BY TurnOfLoad
  <2> HIDE DEF x, y
  <2>6. load[k] = Load(x, y, left)
    BY <1>3, <1>4, <2>1, <2>4
  <2> QED
    BY <2>3, <2>5, <2>6, <2>b DEF IsTurn
<1>7. Turns(load, st, path, job)
  BY <1>1, <1>5, <1>6 DEF Turns
<1>8. SplitSlots(st, l, r, job, TRUE) = load[Len(Path(st.slots, l, r))]
  <2>1. Len(Path(st.slots, l, r)) \in Nat /\ Turns(load, st, Path(st.slots, l, r), job)
    BY <1>1, <1>7
  <2> QED
    BY <2>1, SplitSlotsIs
<1> QED
  BY <1>1, <1>5, <1>8 DEF IsSplit

(* The slots that split_slots_jobs looks for: where the job begins, where  *)
(* it ends; and the slots that it finds                                    *)
StartsIn(slots, job) ==
  {i \in DOMAIN slots : slots[i].b > job.start \/ job.start <= slots[i].e}

EndsIn(slots, job) == {i \in DOMAIN slots : slots[i].e >= End(job)}

AtFor(slots, at, job) == Follow(slots, at, StartsIn(slots, job))

LeftFor(slots, at, left, job) ==
  IF AtFor(slots, at, job) = at THEN left ELSE AtFor(slots, at, job)

LastFor(slots, at, job) == Follow(slots, AtFor(slots, at, job), EndsIn(slots, job))

RightFor(slots, at, left, job) ==
  IF LastFor(slots, at, job) = AtFor(slots, at, job) THEN LeftFor(slots, at, left, job)
  ELSE LastFor(slots, at, job)

(* They are as a split needs them *)
IsAimed(slots, b, e, at, left, s, job) ==
  \E order : \E m, n \in DOMAIN slots :
    /\ Linked(slots, order, b, e) /\ m <= n
    /\ LeftFor(slots, at, left, job) = order[m]
    /\ LastFor(slots, at, job) = order[n] /\ RightFor(slots, at, left, job) = order[n]
    /\ slots[order[m]].b <= s /\ s <= slots[order[m]].e + 1
    /\ slots[order[n]].b <= End(job) /\ End(job) <= slots[order[n]].e

(* split_slots_jobs splits from the one at the left to the one at the      *)
(* right                                                                   *)
LEMMA SplitForJobIs ==
  ASSUME NEW slots, NEW at, NEW left, NEW job, NEW sub,
         LastFor(slots, at, job) # 0,
         Follow(slots, LeftFor(slots, at, left, job), {RightFor(slots, at, left, job)}) # 0
  PROVE  SplitForJob(Load(slots, at, left), job, sub)
           = SplitSlots(Load(slots, LastFor(slots, at, job), LeftFor(slots, at, left, job)),
                        LeftFor(slots, at, left, job), RightFor(slots, at, left, job), job, sub)
<1> DEFINE st == Load(slots, at, left)
           x == AtFor(slots, at, job)
           l == LeftFor(slots, at, left, job)
           y == LastFor(slots, at, job)
           r == RightFor(slots, at, left, job)
<1>1. st.slots = slots /\ st.at = at /\ st.left = left /\ ~ st.broken
  BY LoadParts
<1>2. [st EXCEPT !.at = y, !.left = l] = Load(slots, y, l)
  <2> DEFINE no == FALSE
  <2> HIDE DEF y, l, no
  <2>1. Moved(LoadOf(slots, at, left, no), y, l) = LoadOf(slots, y, l, no)
    BY LoadMoved
  <2> QED
    BY <2>1, Zenon DEF Load, Moved, no
<1> HIDE DEF st
<1>3. Follow(st.slots, st.at, {i \in DOMAIN st.slots :
                                 st.slots[i].b > job.start \/ job.start <= st.slots[i].e}) = x
  BY <1>1 DEF AtFor, StartsIn
<1>4. (IF x = st.at THEN st.left ELSE x) = l
  BY <1>1 DEF LeftFor
<1>5. Follow(st.slots, x, {i \in DOMAIN st.slots : st.slots[i].e >= End(job)}) = y
  BY <1>1 DEF LastFor, EndsIn
<1>6. (IF y = x THEN l ELSE y) = r
  BY DEF RightFor
<1>7. ~ (st.broken \/ y = 0 \/ Follow(st.slots, l, {r}) = 0)
  BY <1>1
<1> HIDE DEF x, l, y, r
<1>8. SplitForJob(st, job, sub) = SplitSlots([st EXCEPT !.at = y, !.left = l], l, r, job, sub)
  BY <1>3, <1>4, <1>5, <1>6, <1>7, Zenon DEF SplitForJob
<1> QED
  BY <1>2, <1>8 DEF st, l, y, r

(* A state of split_slots_jobs, and the next one *)
Becomes(st, job, next) == SplitForJob(st, job, TRUE) = next

(* The job is put *)
LEMMA AimedJobIsPut ==
  ASSUME NEW slots, NEW b, NEW e, NoObstacle(slots), NEW at, NEW left,
         NEW job, job.start \in Nat, job.walltime \in Nat \ {0},
         NEW s, s = Max({job.start, b}), s < End(job),
         IsAimed(slots, b, e, at, left, s, job)
  PROVE  \E new, held, l :
           /\ Becomes(Load(slots, at, left), job, Load(new, held, l))
           /\ IsPut(new, b, e, l, held, s, job)
           /\ FreeBut(slots, new, job)
<1> DEFINE x == LeftFor(slots, at, left, job)
           y == LastFor(slots, at, job)
           r == RightFor(slots, at, left, job)
<1>1. PICK order :
        \E m, n \in DOMAIN slots :
          /\ Linked(slots, order, b, e) /\ m <= n
          /\ x = order[m] /\ y = order[n] /\ r = order[n]
          /\ slots[order[m]].b <= s /\ s <= slots[order[m]].e + 1
          /\ slots[order[n]].b <= End(job) /\ End(job) <= slots[order[n]].e
  BY DEF IsAimed
<1>2. PICK m \in DOMAIN slots, n \in DOMAIN slots :
        /\ Linked(slots, order, b, e) /\ m <= n
        /\ x = order[m] /\ y = order[n] /\ r = order[n]
        /\ slots[order[m]].b <= s /\ s <= slots[order[m]].e + 1
        /\ slots[order[n]].b <= End(job) /\ End(job) <= slots[order[n]].e
  BY <1>1
<1>3. m \in Nat /\ n \in Nat /\ order[n] \in DOMAIN slots /\ DOMAIN slots = 1..Len(slots)
  <2>1. Linked(slots, order, b, e)
    BY <1>2
  <2>2. \A k \in DOMAIN slots : order[k] \in DOMAIN slots
    BY <2>1, OrderTypes
  <2>3. DOMAIN slots = 1..Len(slots) /\ Len(slots) \in Nat
    BY <2>1, OrderTypes
  <2> QED
    BY <2>2, <2>3
<1>4. Puts(slots, order[n], Ids(order, m, n), b, e, order[m], s, job, job)
  BY <1>2, AimedIsPut
<1>5. PICK turn, new, held :
        /\ Splitting(turn, slots, order[n], Ids(order, m, n), job, new, held)
        /\ IsPut(new, b, e, order[m], held, s, job)
        /\ FreeBut(slots, new, job)
  BY <1>4 DEF Puts
<1>6. Path(slots, order[m], order[n]) = Ids(order, m, n)
  BY <1>2, PathInOrder
<1>7. Len(Ids(order, m, n)) \in Nat
  <2>1. Len(Ids(order, m, n)) = n - m + 1
    BY <1>2, IdsStep, ZenonT(30)
  <2> QED
    BY <1>2, <1>3, <2>1
<1>8. SplitSlots(Load(slots, order[n], order[m]), order[m], order[n], job, TRUE)
        = Load(new, held, order[m])
  <2> DEFINE p == order[m]
             q == order[n]
             path == Path(slots, p, q)
  <2>1. Len(path) \in Nat /\ Splitting(turn, slots, q, path, job, new, held)
    BY <1>5, <1>6, <1>7
  <2> HIDE DEF p, q
  <2>2. IsSplit(Load(slots, q, p), p, q, job, Load(new, held, p))
    BY <2>1, LoadSplits
  <2> QED
    BY <2>2 DEF p, q, IsSplit
<1>9. Follow(slots, order[m], {order[n]}) # 0
  <2>1. Linked(slots, order, b, e) /\ m <= n
    BY <1>2
  <2>2. order[n] \in {order[n]}
    OBVIOUS
  <2> DEFINE ids == {order[n]}
  <2>3. order[n] \in ids
    OBVIOUS
  <2> HIDE DEF ids
  <2>4. \/ /\ Follow(slots, order[m], ids) = 0
           /\ \A k \in DOMAIN slots : m <= k => order[k] \notin ids
        \/ \E k \in DOMAIN slots :
             /\ m <= k /\ Follow(slots, order[m], ids) = order[k] /\ order[k] \in ids
             /\ \A j \in DOMAIN slots : m <= j /\ j < k => order[j] \notin ids
    BY <2>1, FollowFinds
  <2>5. \A k \in DOMAIN slots : order[k] # 0
    <3>1. \A k \in DOMAIN slots : order[k] \in DOMAIN slots
      BY <2>1, OrderTypes
    <3> QED
      BY <1>3, <3>1
  <2> QED
    BY <2>1, <2>3, <2>4, <2>5 DEF ids
<1>10. y # 0
  BY <1>2, <1>3
<1>11. Follow(slots, x, {r}) # 0
  BY <1>2, <1>9
<1>12. SplitForJob(Load(slots, at, left), job, TRUE)
         = SplitSlots(Load(slots, y, x), x, r, job, TRUE)
  <2> DEFINE sub == TRUE
  <2> HIDE DEF x, y, r, sub
  <2>1. SplitForJob(Load(slots, at, left), job, sub)
          = SplitSlots(Load(slots, y, x), x, r, job, sub)
    BY <1>10, <1>11, SplitForJobIs DEF x, y, r
  <2> QED
    BY <2>1 DEF sub
<1> HIDE DEF x, y, r
<1>13. SplitForJob(Load(slots, at, left), job, TRUE) = Load(new, held, order[m])
  BY <1>2, <1>8, <1>12
<1> QED
  BY <1>5, <1>13 DEF Becomes

(* A job to be put into a list: it is not over when the list begins *)
IsToPut(job, b, e, s) ==
  /\ job.start \in Nat /\ job.walltime \in Nat \ {0} /\ End(job) \in Nat
  /\ s = Max({job.start, b}) /\ s \in Nat /\ job.start <= s /\ b <= s
  /\ s = job.start \/ s = b
  /\ s < End(job) /\ End(job) <= e

(* Each job that is not over can be put into a list that lasts long enough *)
LEMMA ToPutIs ==
  ASSUME NEW job, job.start \in Nat, job.walltime \in Nat \ {0}, NEW b \in Nat, NEW e,
         b < End(job), End(job) <= e, NEW s, s = Max({job.start, b})
  PROVE  IsToPut(job, b, e, s)
<1>1. End(job) \in Nat /\ job.start < End(job)
  BY DEF End
<1>2. (job.start >= b /\ s = job.start) \/ (job.start < b /\ s = b)
  <2>1. Max({job.start, b}) = IF job.start >= b THEN job.start ELSE b
    BY MaxOfTwo
  <2> QED
    BY <2>1
<1>3. s \in Nat /\ job.start <= s /\ b <= s /\ s < End(job) /\ (s = job.start \/ s = b)
  BY <1>1, <1>2
<1> QED
  BY <1>1, <1>3 DEF IsToPut

(* The first slot that is not over when the job begins: the job begins in  *)
(* it, or just after it if it is empty                                     *)
LEMMA StartIsFound ==
  ASSUME NEW slots, NEW order, NEW b, NEW e, Linked(slots, order, b, e),
         NEW a \in DOMAIN slots, NEW job, NEW s, IsToPut(job, b, e, s),
         slots[order[a]].b <= s
  PROVE  \E p \in DOMAIN slots :
           /\ a <= p /\ AtFor(slots, order[a], job) = order[p]
           /\ order[p] \in StartsIn(slots, job)
           /\ slots[order[p]].b <= s /\ s <= slots[order[p]].e + 1
<1> DEFINE ids == StartsIn(slots, job)
<1>1. /\ DOMAIN slots = 1..Len(slots) /\ Len(slots) \in Nat \ {0} /\ b \in Nat /\ e \in Nat
      /\ \A k \in DOMAIN slots : /\ order[k] \in DOMAIN slots
                                 /\ slots[order[k]].b \in Nat /\ slots[order[k]].e \in Nat
  BY OrderTypes
<1>2. /\ job.start \in Nat /\ s \in Nat /\ job.start <= s /\ b <= s /\ (s = job.start \/ s = b)
      /\ s < End(job) /\ End(job) <= e /\ End(job) \in Nat
  BY DEF IsToPut
<1>3. \A k \in DOMAIN slots :
        order[k] \in ids <=> slots[order[k]].b > job.start \/ job.start <= slots[order[k]].e
  BY <1>1 DEF StartsIn
<1> HIDE DEF ids
<1>4. \/ /\ Follow(slots, order[a], ids) = 0
         /\ \A k \in DOMAIN slots : a <= k => order[k] \notin ids
      \/ \E k \in DOMAIN slots :
           /\ a <= k /\ Follow(slots, order[a], ids) = order[k] /\ order[k] \in ids
           /\ \A j \in DOMAIN slots : a <= j /\ j < k => order[j] \notin ids
  BY FollowFinds
<1>5. order[Len(slots)] \in ids /\ Len(slots) \in DOMAIN slots /\ a <= Len(slots)
  <2>1. Len(slots) \in DOMAIN slots /\ a <= Len(slots)
    BY <1>1
  <2>2. slots[order[Len(slots)]].e = e
    BY <2>1, NextInOrder
  <2>3. job.start <= e
    BY <1>1, <1>2
  <2> QED
    BY <1>3, <2>1, <2>2, <2>3
<1>6. PICK p \in DOMAIN slots :
        /\ a <= p /\ Follow(slots, order[a], ids) = order[p] /\ order[p] \in ids
        /\ \A j \in DOMAIN slots : a <= j /\ j < p => order[j] \notin ids
  BY <1>4, <1>5
<1>7. AtFor(slots, order[a], job) = order[p] /\ ids = StartsIn(slots, job)
  BY <1>6 DEF AtFor, ids
<1>8. slots[order[p]].b <= slots[order[p]].e + 1 /\ b <= slots[order[p]].b
  BY NextInOrder, SlotsWithin
<1>9. CASE p = a
  <2>1. slots[order[p]].b > job.start \/ job.start <= slots[order[p]].e
    BY <1>3, <1>6
  <2>2. s <= slots[order[p]].e + 1
    BY <1>1, <1>2, <1>8, <2>1, SMTT(30)
  <2> QED
    BY <1>6, <1>7, <1>9, <2>2
<1>10. CASE p # a
  <2> DEFINE o == p - 1
  <2>1. o \in DOMAIN slots /\ a <= o /\ o < p /\ o + 1 = p /\ o # Len(slots)
    BY <1>1, <1>6, <1>10
  <2> HIDE DEF o
  <2>2. order[o] \notin ids
    BY <1>6, <2>1
  <2>3. slots[order[o]].b <= job.start /\ slots[order[o]].e < job.start
    BY <1>1, <1>2, <1>3, <2>1, <2>2
  <2>4. slots[order[p]].b = slots[order[o]].e + 1 /\ b <= slots[order[o]].b
    BY <2>1, NextInOrder, SlotsWithin
  <2>5. slots[order[p]].b <= job.start /\ s = job.start
    BY <1>1, <1>2, <2>1, <2>3, <2>4, SMTT(30)
  <2>6. job.start <= slots[order[p]].e
    BY <1>1, <1>2, <1>3, <1>6, <2>5
  <2>7. slots[order[p]].b <= s /\ s <= slots[order[p]].e + 1
    BY <1>1, <1>2, <2>5, <2>6
  <2> QED
    BY <1>6, <1>7, <2>7
<1> QED
  BY <1>9, <1>10

(* The first slot after it that ends when the job is over, or later *)
LEMMA EndIsFound ==
  ASSUME NEW slots, NEW order, NEW b, NEW e, Linked(slots, order, b, e),
         NEW p \in DOMAIN slots, NEW job, NEW s, IsToPut(job, b, e, s),
         NEW at, AtFor(slots, at, job) = order[p], slots[order[p]].b <= End(job)
  PROVE  \E q \in DOMAIN slots :
           /\ p <= q /\ LastFor(slots, at, job) = order[q] /\ order[q] \in EndsIn(slots, job)
           /\ slots[order[q]].b <= End(job) /\ End(job) <= slots[order[q]].e
<1> DEFINE ids == EndsIn(slots, job)
<1>1. /\ DOMAIN slots = 1..Len(slots) /\ Len(slots) \in Nat \ {0} /\ e \in Nat
      /\ \A k \in DOMAIN slots : /\ order[k] \in DOMAIN slots
                                 /\ slots[order[k]].b \in Nat /\ slots[order[k]].e \in Nat
  BY OrderTypes
<1>2. End(job) <= e /\ End(job) \in Nat
  BY DEF IsToPut
<1>3. \A k \in DOMAIN slots : order[k] \in ids <=> slots[order[k]].e >= End(job)
  BY <1>1 DEF EndsIn
<1> HIDE DEF ids
<1>4. \/ /\ Follow(slots, order[p], ids) = 0
         /\ \A k \in DOMAIN slots : p <= k => order[k] \notin ids
      \/ \E k \in DOMAIN slots :
           /\ p <= k /\ Follow(slots, order[p], ids) = order[k] /\ order[k] \in ids
           /\ \A j \in DOMAIN slots : p <= j /\ j < k => order[j] \notin ids
  BY FollowFinds
<1>5. order[Len(slots)] \in ids /\ Len(slots) \in DOMAIN slots /\ p <= Len(slots)
  <2>1. Len(slots) \in DOMAIN slots /\ p <= Len(slots)
    BY <1>1
  <2>2. slots[order[Len(slots)]].e = e
    BY <2>1, NextInOrder
  <2> QED
    BY <1>1, <1>2, <1>3, <2>1, <2>2
<1>6. PICK q \in DOMAIN slots :
        /\ p <= q /\ Follow(slots, order[p], ids) = order[q] /\ order[q] \in ids
        /\ \A j \in DOMAIN slots : p <= j /\ j < q => order[j] \notin ids
  BY <1>4, <1>5
<1>7. LastFor(slots, at, job) = order[q] /\ ids = EndsIn(slots, job)
  BY <1>6 DEF LastFor, ids
<1>8. End(job) <= slots[order[q]].e
  BY <1>1, <1>2, <1>3, <1>6
<1>9. slots[order[q]].b <= End(job)
  <2>1. CASE q = p
    BY <2>1
  <2>2. CASE q # p
    <3> DEFINE o == q - 1
    <3>a. p <= q /\ p \in 1..Len(slots) /\ q \in 1..Len(slots) /\ Len(slots) \in Nat
      BY <1>1, <1>6
    <3>1. o \in DOMAIN slots /\ p <= o /\ o < q /\ o + 1 = q /\ o # Len(slots)
      BY <1>1, <2>2, <3>a
    <3> HIDE DEF o
    <3>2. order[o] \notin ids
      BY <1>6, <3>1
    <3>3. slots[order[o]].e < End(job)
      BY <1>1, <1>2, <1>3, <3>1, <3>2
    <3>4. slots[order[q]].b = slots[order[o]].e + 1
      BY <3>1, NextInOrder
    <3> QED
      BY <1>1, <1>2, <3>1, <3>3, <3>4
  <2> QED
    BY <2>1, <2>2
<1> QED
  BY <1>6, <1>7, <1>8, <1>9

(* From a slot that begins before the job: it is aimed at, or a later one  *)
LEMMA AimFrom ==
  ASSUME NEW slots, NEW order, NEW b, NEW e, Linked(slots, order, b, e),
         NEW a \in DOMAIN slots, NEW job, NEW s, IsToPut(job, b, e, s),
         slots[order[a]].b <= s, NEW left,
         left = order[a] \/ order[a] \notin StartsIn(slots, job)
  PROVE  IsAimed(slots, b, e, order[a], left, s, job)
<1> DEFINE at == order[a]
<1>0. at = order[a]
  OBVIOUS
<1>1. PICK p \in DOMAIN slots :
           /\ a <= p /\ AtFor(slots, at, job) = order[p]
           /\ order[p] \in StartsIn(slots, job)
           /\ slots[order[p]].b <= s /\ s <= slots[order[p]].e + 1
  BY StartIsFound
<1> HIDE DEF at
<1>2. LeftFor(slots, at, left, job) = order[p]
  BY <1>0, <1>1 DEF LeftFor
<1>3. slots[order[p]].b <= End(job)
  <2>1. slots[order[p]].b \in Nat
    BY OrderTypes
  <2>2. s < End(job) /\ s \in Nat /\ End(job) \in Nat
    BY DEF IsToPut
  <2> QED
    BY <1>1, <2>1, <2>2
<1>4. AtFor(slots, at, job) = order[p]
  BY <1>1
<1>5. PICK q \in DOMAIN slots :
           /\ p <= q /\ LastFor(slots, at, job) = order[q] /\ order[q] \in EndsIn(slots, job)
           /\ slots[order[q]].b <= End(job) /\ End(job) <= slots[order[q]].e
  BY <1>3, <1>4, EndIsFound
<1>6. RightFor(slots, at, left, job) = order[q]
  BY <1>2, <1>4, <1>5 DEF RightFor
<1> QED
  BY <1>0, <1>1, <1>2, <1>5, <1>6 DEF IsAimed

(* What is put in turn: after the job before, or with it and no shorter    *)
Follows(job, s, before, r) ==
  End(before) <= job.start \/ (r = s /\ End(before) <= End(job))

(* The first job, from the beginning of the list *)
LEMMA FirstIsAimed ==
  ASSUME NEW slots, NEW order, NEW b, NEW e, Linked(slots, order, b, e),
         NEW job, NEW s, IsToPut(job, b, e, s)
  PROVE  IsAimed(slots, b, e, 1, 1, s, job)
<1>1. 1 \in DOMAIN slots /\ order[1] = 1 /\ slots[1].b = b
  <2>1. DOMAIN slots = 1..Len(slots) /\ Len(slots) \in Nat \ {0}
    BY OrderTypes
  <2> QED
    BY <2>1 DEF Linked, InOrder
<1>2. b <= s
  BY DEF IsToPut
<1> DEFINE a == 1
<1>3. a \in DOMAIN slots /\ order[a] = 1 /\ slots[order[a]].b <= s
  BY <1>1, <1>2
<1> HIDE DEF a
<1> QED
  BY <1>3, AimFrom

(* The others, from the slots where the job before has been put *)
LEMMA NextIsAimed ==
  ASSUME NEW slots, NEW b, NEW e, NEW job, NEW s, IsToPut(job, b, e, s),
         NEW before, NEW r, IsToPut(before, b, e, r), Follows(job, s, before, r),
         NEW at, NEW left, IsPut(slots, b, e, left, at, r, before)
  PROVE  IsAimed(slots, b, e, at, left, s, job)
<1>1. PICK order : \E l, a \in DOMAIN slots :
        /\ Linked(slots, order, b, e)
        /\ l <= a /\ order[l] = left /\ order[a] = at
        /\ slots[left].b <= r /\ r <= slots[left].e + 1
        /\ slots[at].e = End(before) - 1
  BY DEF IsPut
<1>2. PICK l \in DOMAIN slots, a \in DOMAIN slots :
        /\ Linked(slots, order, b, e)
        /\ l <= a /\ order[l] = left /\ order[a] = at
        /\ slots[left].b <= r /\ r <= slots[left].e + 1
        /\ slots[at].e = End(before) - 1
  BY <1>1
<1>3. Linked(slots, order, b, e)
  BY <1>2
<1>4. /\ DOMAIN slots = 1..Len(slots) /\ Len(slots) \in Nat \ {0}
      /\ \A k \in DOMAIN slots : /\ order[k] \in DOMAIN slots
                                 /\ slots[order[k]].b \in Nat /\ slots[order[k]].e \in Nat
  BY <1>3, OrderTypes
<1>5. /\ job.start \in Nat /\ s \in Nat /\ job.start <= s /\ s < End(job) /\ End(job) \in Nat
      /\ End(before) \in Nat /\ r < End(before) /\ r \in Nat
  BY DEF IsToPut
<1>6. slots[order[a]].b <= End(before)
  <2>1. slots[order[a]].b <= slots[order[a]].e + 1
    BY <1>3, NextInOrder
  <2> QED
    BY <1>2, <1>4, <1>5, <2>1
<1>7. order[a] \in StartsIn(slots, job)
        <=> slots[order[a]].b > job.start \/ job.start <= slots[order[a]].e
  BY <1>4 DEF StartsIn
<1>8. CASE End(before) <= job.start
  <2>1. order[a] \notin StartsIn(slots, job)
    BY <1>2, <1>4, <1>5, <1>6, <1>7, <1>8
  <2>2. slots[order[a]].b <= s
    BY <1>4, <1>5, <1>6, <1>8
  <2>3. IsAimed(slots, b, e, order[a], left, s, job)
    BY <1>3, <2>1, <2>2, AimFrom
  <2> QED
    BY <1>2, <2>3
<1>9. CASE r = s /\ End(before) <= End(job)
  <2>1. order[a] \in StartsIn(slots, job)
    BY <1>2, <1>4, <1>5, <1>7, <1>9
  <2>2. AtFor(slots, at, job) = order[a]
    <3> DEFINE ids == StartsIn(slots, job)
    <3>1. order[a] \in ids
      BY <2>1
    <3>2. a <= a
      BY <1>4
    <3> HIDE DEF ids
    <3>3. \/ /\ Follow(slots, order[a], ids) = 0
             /\ \A k \in DOMAIN slots : a <= k => order[k] \notin ids
          \/ \E k \in DOMAIN slots :
               /\ a <= k /\ Follow(slots, order[a], ids) = order[k] /\ order[k] \in ids
               /\ \A j \in DOMAIN slots : a <= j /\ j < k => order[j] \notin ids
      BY <1>3, FollowFinds
    <3>4. \A k \in DOMAIN slots : a <= k => k = a \/ a < k
      BY <1>4
    <3>5. Follow(slots, order[a], ids) = order[a]
      BY <3>1, <3>2, <3>3, <3>4
    <3> QED
      BY <1>2, <3>5 DEF AtFor, ids
  <2>3. slots[order[a]].b <= End(job)
    BY <1>4, <1>5, <1>6, <1>9
  <2>4. PICK q \in DOMAIN slots :
           /\ a <= q /\ LastFor(slots, at, job) = order[q] /\ order[q] \in EndsIn(slots, job)
           /\ slots[order[q]].b <= End(job) /\ End(job) <= slots[order[q]].e
    BY <1>3, <2>2, <2>3, EndIsFound
  <2>5. order[q] # order[a]
    BY <1>2, <1>4, <1>5, <1>9, <2>4
  <2>6. LeftFor(slots, at, left, job) = order[l]
    BY <1>2, <2>2 DEF LeftFor
  <2>7. RightFor(slots, at, left, job) = order[q]
    BY <2>2, <2>4, <2>5 DEF RightFor
  <2>8. l <= q
    BY <1>2, <1>4, <2>4
  <2>9. slots[order[l]].b <= s /\ s <= slots[order[l]].e + 1
    BY <1>2, <1>9
  <2> QED
    BY <1>3, <2>4, <2>6, <2>7, <2>8, <2>9 DEF IsAimed
<1> QED
  BY <1>8, <1>9 DEF Follows

(* The turns of split_slots_jobs *)
JobTurns(state, st, list, sub, n) ==
  state[0] = st /\ \A k \in 1..n : state[k] = SplitForJob(state[k - 1], list[k], sub)

(* These turns are those of split_slots_jobs *)
LEMMA SplitSlotsJobsIs ==
  ASSUME NEW slots, NEW jobs, Len(jobs) \in Nat, NEW sub,
         NEW list, list = IF sub THEN jobs ELSE Reverse(jobs),
         NEW state, JobTurns(state, Load(slots, 1, 1), list, sub, Len(jobs))
  PROVE  SplitSlotsJobs(slots, jobs, sub) = state[Len(jobs)]
<1> DEFINE c == Len(jobs)
           st == [slots |-> slots, at |-> 1, left |-> 1, broken |-> FALSE]
           G == [k \in 0..c |-> state[k]]
           F == CHOOSE f : f = [k \in 0..Len(jobs) |->
                  IF k = 0 THEN st ELSE SplitForJob(f[k - 1], list[k], sub)]
<1>1. c \in Nat /\ c = Len(jobs)
  OBVIOUS
<1>2. SplitSlotsJobs(slots, jobs, sub) = F[Len(jobs)]
  BY DEF SplitSlotsJobs
<1>3. st = Load(slots, 1, 1)
  BY DEF Load, LoadOf
<1> HIDE DEF c, st
<1>a. JobTurns(state, st, list, sub, c)
  BY <1>1, <1>3
<1>4. ASSUME NEW k \in 0..c
      PROVE  G[k] = IF k = 0 THEN st ELSE SplitForJob(G[k - 1], list[k], sub)
  <2>1. CASE k = 0
    BY <1>1, <1>a, <2>1 DEF JobTurns
  <2>2. CASE k # 0
    <3>1. k \in 1..c /\ k - 1 \in 0..c
      BY <1>1, <2>2
    <3>2. state[k] = SplitForJob(state[k - 1], list[k], sub)
      BY <1>a, <3>1 DEF JobTurns
    <3>3. G[k] = state[k] /\ G[k - 1] = state[k - 1]
      BY <3>1
    <3> QED
      BY <2>2, <3>2, <3>3
  <2> QED
    BY <2>1, <2>2
<1>5. G = [k \in 0..Len(jobs) |-> IF k = 0 THEN st ELSE SplitForJob(G[k - 1], list[k], sub)]
  <2>1. DOMAIN G = 0..c /\ G = [k \in 0..c |-> G[k]]
    OBVIOUS
  <2> HIDE DEF G
  <2> QED
    BY <1>1, <1>4, <2>1
<1>6. F = [k \in 0..Len(jobs) |-> IF k = 0 THEN st ELSE SplitForJob(F[k - 1], list[k], sub)]
  <2> HIDE DEF G
  <2> QED
    BY <1>5
<1> HIDE DEF F, G
<1> DEFINE T == {k \in Nat : k <= c => F[k] = G[k]}
<1>7. 0 \in T
  <2>1. 0 \in 0..c
    BY <1>1
  <2> QED
    BY <1>1, <1>4, <1>6, <2>1
<1>8. ASSUME NEW k \in Nat, k \in T
      PROVE  k + 1 \in T
  <2> SUFFICES ASSUME k + 1 <= c
               PROVE  F[k + 1] = G[k + 1]
    OBVIOUS
  <2>1. k + 1 \in 0..c /\ k <= c /\ (k + 1) - 1 = k /\ k + 1 # 0
    BY <1>1
  <2>2. F[k] = G[k]
    BY <1>8, <2>1
  <2>3. G[k + 1] = SplitForJob(G[k], list[k + 1], sub)
    BY <1>4, <2>1
  <2>4. F[k + 1] = SplitForJob(F[k], list[k + 1], sub)
    BY <1>1, <1>6, <2>1
  <2> QED
    BY <2>2, <2>3, <2>4
<1>9. F[c] = G[c]
  <2>1. Nat \subseteq T
    <3> HIDE DEF T
    <3> QED
      BY <1>7, <1>8, SetInduction
  <2> QED
    BY <1>1, <2>1
<1>10. G[c] = state[c]
  <2>1. c \in 0..c
    BY <1>1
  <2> QED
    BY <2>1 DEF G
<1>11. SplitSlotsJobs(slots, jobs, sub) = state[Len(jobs)]
  BY <1>1, <1>2, <1>9, <1>10
<1> QED
  BY <1>11

(* Nothing more is free, and nothing of a job while it is there *)
NoMoreFree(slots, new) == \A u \in Int : FreeAt(new, u) \subseteq FreeAt(slots, u)

IsTaken(slots, job) ==
  \A u \in Int : job.start <= u /\ u < End(job) => job.res \cap FreeAt(slots, u) = {}

(* When n of the jobs have been put *)
Loading(slots, jobs, n, b, e, cur, at, left) ==
  /\ \E order : Linked(cur, order, b, e)
  /\ NoObstacle(cur) /\ NoMoreFree(slots, cur)
  /\ \A k \in 1..n : IsTaken(cur, jobs[k])
  /\ \/ n = 0 /\ at = 1 /\ left = 1
     \/ n # 0 /\ IsPut(cur, b, e, left, at, Max({jobs[n].start, b}), jobs[n])

(* One more job is put *)
LEMMA LoadingStep ==
  ASSUME NEW slots, NEW b \in Nat, NEW jobs, InTurn(jobs, b), NEW n \in Nat,
         NEW p, p = n + 1, p \in DOMAIN jobs,
         NEW cur, NEW at, NEW left, Loading(slots, jobs, n, b, MaxTime, cur, at, left)
  PROVE  \E new, held, l :
           /\ Becomes(Load(cur, at, left), jobs[p], Load(new, held, l))
           /\ Loading(slots, jobs, p, b, MaxTime, new, held, l)
<1> DEFINE job == jobs[p]
           s == Max({jobs[p].start, b})
<1>1. /\ job.start \in Nat /\ job.walltime \in Nat \ {0} /\ b < End(job) /\ End(job) <= MaxTime
  BY DEF InTurn
<1>2. IsToPut(job, b, MaxTime, s)
  <2>1. s = Max({job.start, b})
    OBVIOUS
  <2> HIDE DEF job, s
  <2> QED
    BY <1>1, <2>1, ToPutIs
<1>3. PICK order : Linked(cur, order, b, MaxTime)
  BY DEF Loading
<1>4. NoObstacle(cur) /\ NoMoreFree(slots, cur) /\ \A k \in 1..n : IsTaken(cur, jobs[k])
  BY DEF Loading
<1>5. IsAimed(cur, b, MaxTime, at, left, s, job)
  <2>1. CASE n = 0
    <3>1. at = 1 /\ left = 1
      BY <2>1 DEF Loading
    <3> HIDE DEF job, s
    <3>2. IsAimed(cur, b, MaxTime, 1, 1, s, job)
      BY <1>2, <1>3, FirstIsAimed
    <3> QED
      BY <3>1, <3>2
  <2>2. CASE n # 0
    <3> DEFINE before == jobs[n]
               r == Max({jobs[n].start, b})
    <3>1. IsPut(cur, b, MaxTime, left, at, r, before)
      BY <2>2 DEF Loading
    <3>2. n \in DOMAIN jobs /\ p - 1 = n /\ p > 1
      <4>1. jobs \in Seq(Range(jobs))
        BY DEF InTurn
      <4>2. DOMAIN jobs = 1..Len(jobs) /\ Len(jobs) \in Nat
        BY <4>1
      <4> QED
        BY <2>2, <4>2
    <3>3. /\ before.start \in Nat /\ before.walltime \in Nat \ {0}
          /\ b < End(before) /\ End(before) <= MaxTime
      BY <3>2 DEF InTurn
    <3>4. IsToPut(before, b, MaxTime, r)
      <4>1. r = Max({before.start, b})
        OBVIOUS
      <4> HIDE DEF before, r
      <4> QED
        BY <3>3, <4>1, ToPutIs
    <3>5. Follows(job, s, before, r)
      <4>1. \/ End(jobs[p - 1]) <= jobs[p].start
            \/ /\ Max({jobs[p - 1].start, b}) = Max({jobs[p].start, b})
               /\ End(jobs[p - 1]) <= End(jobs[p])
        BY <3>2 DEF InTurn
      <4> QED
        BY <3>2, <4>1 DEF Follows
    <3> HIDE DEF job, s, before, r
    <3> QED
      BY <1>2, <3>1, <3>4, <3>5, NextIsAimed
  <2> QED
    BY <2>1, <2>2
<1>6. s = Max({job.start, b}) /\ s < End(job)
  BY <1>2 DEF IsToPut
<1>7. job = jobs[p] /\ s = Max({jobs[p].start, b})
  OBVIOUS
<1> HIDE DEF job, s
<1>8. PICK new, held, l :
        /\ Becomes(Load(cur, at, left), job, Load(new, held, l))
        /\ IsPut(new, b, MaxTime, l, held, s, job)
        /\ FreeBut(cur, new, job)
  <2> DEFINE e == MaxTime
  <2>1. NoObstacle(cur) /\ job.start \in Nat /\ job.walltime \in Nat \ {0}
    BY <1>1, <1>4
  <2>2. IsAimed(cur, b, e, at, left, s, job)
    BY <1>5
  <2> HIDE DEF e
  <2>3. \E new, held, l :
          /\ Becomes(Load(cur, at, left), job, Load(new, held, l))
          /\ IsPut(new, b, e, l, held, s, job)
          /\ FreeBut(cur, new, job)
    BY <1>6, <2>1, <2>2, AimedJobIsPut
  <2> QED
    BY <2>3 DEF e
<1>9. (\E o : Linked(new, o, b, MaxTime)) /\ NoObstacle(new)
  BY <1>8 DEF IsPut
<1>10. NoMoreFree(cur, new)
  BY <1>8 DEF FreeBut, NoMoreFree
<1>11. NoMoreFree(slots, new)
  BY <1>4, <1>10 DEF NoMoreFree
<1>12. IsTaken(new, job)
  <2> SUFFICES ASSUME NEW u \in Int, job.start <= u, u < End(job)
               PROVE  job.res \cap FreeAt(new, u) = {}
    BY DEF IsTaken
  <2>1. End(job) \in Nat /\ job.start \in Nat
    BY <1>1 DEF End
  <2>2. u \in job.start..End(job) - 1
    BY <2>1
  <2>3. FreeAt(new, u) = FreeAt(cur, u) \ job.res
    BY <1>8, <2>2 DEF FreeBut
  <2> QED
    BY <2>3
<1>13. \A k \in 1..n : IsTaken(new, jobs[k])
  BY <1>4, <1>10 DEF IsTaken, NoMoreFree
<1>14. \A k \in 1..p : k = p \/ k \in 1..n
  OBVIOUS
<1>15. \A k \in 1..p : IsTaken(new, jobs[k])
  BY <1>7, <1>12, <1>13, <1>14
<1>16. p # 0
  OBVIOUS
<1>17. Loading(slots, jobs, p, b, MaxTime, new, held, l)
  BY <1>7, <1>8, <1>9, <1>11, <1>15, <1>16 DEF Loading
<1> QED
  BY <1>7, <1>8, <1>17

(* All of them are put *)
LEMMA AllAreLoaded ==
  ASSUME NEW slots, NEW b \in Nat, \E order : Linked(slots, order, b, MaxTime),
         NoObstacle(slots), NEW jobs, InTurn(jobs, b)
  PROVE  /\ \E order : Linked(SplitSlotsJobs(slots, jobs, TRUE).slots, order, b, MaxTime)
         /\ NoObstacle(SplitSlotsJobs(slots, jobs, TRUE).slots)
         /\ NoMoreFree(slots, SplitSlotsJobs(slots, jobs, TRUE).slots)
         /\ \A k \in DOMAIN jobs : IsTaken(SplitSlotsJobs(slots, jobs, TRUE).slots, jobs[k])
         /\ ~ SplitSlotsJobs(slots, jobs, TRUE).broken
<1> DEFINE c == Len(jobs)
           st == Load(slots, 1, 1)
           On(state, n) ==
             /\ JobTurns(state, st, jobs, TRUE, n)
             /\ \E cur, at, left : /\ state[n] = Load(cur, at, left)
                                   /\ Loading(slots, jobs, n, b, MaxTime, cur, at, left)
           T == {n \in Nat : n <= c => \E state : On(state, n)}
<1>1. c \in Nat /\ DOMAIN jobs = 1..c
  <2>1. jobs \in Seq(Range(jobs))
    BY DEF InTurn
  <2> QED
    BY <2>1
<1>2. c = Len(jobs) /\ st = Load(slots, 1, 1)
  OBVIOUS
<1> HIDE DEF c, st, On
<1>3. 0 \in T
  <2> DEFINE state == [k \in {0} |-> st]
             none == 0
             one == 1
  <2>1. state[none] = Load(slots, one, one)
    BY <1>2
  <2>2. NoMoreFree(slots, slots)
    BY DEF NoMoreFree
  <2>3. Loading(slots, jobs, none, b, MaxTime, slots, one, one)
    BY <2>2 DEF Loading
  <2>4. JobTurns(state, st, jobs, TRUE, none)
    BY DEF JobTurns
  <2> HIDE DEF state, one
  <2>5. On(state, none)
    BY <2>1, <2>3, <2>4 DEF On
  <2> QED
    BY <2>5
<1>4. ASSUME NEW n \in Nat, n \in T
      PROVE  n + 1 \in T
  <2> SUFFICES ASSUME n + 1 <= c
               PROVE  \E state : On(state, n + 1)
    OBVIOUS
  <2> DEFINE p == n + 1
  <2>1. p = n + 1 /\ p \in DOMAIN jobs /\ n <= c /\ n \in 0..n /\ p \in Nat
    BY <1>1
  <2> HIDE DEF p
  <2>2. PICK before : On(before, n)
    BY <1>4, <2>1
  <2>3. PICK cur, at, left : /\ before[n] = Load(cur, at, left)
                             /\ Loading(slots, jobs, n, b, MaxTime, cur, at, left)
    BY <2>2 DEF On
  <2>a. Loading(slots, jobs, n, b, MaxTime, cur, at, left)
    BY <2>3
  <2>4. PICK new, held, l :
          /\ Becomes(Load(cur, at, left), jobs[p], Load(new, held, l))
          /\ Loading(slots, jobs, p, b, MaxTime, new, held, l)
    BY <2>1, <2>a, LoadingStep
  <2> DEFINE state == [k \in 0..p |-> IF k = p THEN Load(new, held, l) ELSE before[k]]
  <2>5. state[p] = Load(new, held, l) /\ \A k \in 0..n : state[k] = before[k]
    BY <2>1
  <2> HIDE DEF state
  <2>6. JobTurns(before, st, jobs, TRUE, n)
    BY <2>2 DEF On
  <2>7. state[0] = st
    <3>1. 0 \in 0..n
      OBVIOUS
    <3> QED
      BY <2>5, <2>6, <3>1 DEF JobTurns
  <2>8. ASSUME NEW k \in 1..p
        PROVE  state[k] = SplitForJob(state[k - 1], jobs[k], TRUE)
    <3>1. CASE k = p
      <4>1. k - 1 = n /\ n \in 0..n
        BY <2>1, <3>1
      <4>2. state[k - 1] = Load(cur, at, left)
        BY <2>3, <2>5, <4>1
      <4> QED
        BY <2>4, <2>5, <3>1, <4>2 DEF Becomes
    <3>2. CASE k # p
      <4>1. k \in 1..n /\ k \in 0..n /\ k - 1 \in 0..n
        BY <2>1, <3>2
      <4>2. before[k] = SplitForJob(before[k - 1], jobs[k], TRUE)
        BY <2>6, <4>1 DEF JobTurns
      <4> QED
        BY <2>5, <4>1, <4>2
    <3> QED
      BY <3>1, <3>2
  <2>9. JobTurns(state, st, jobs, TRUE, p)
    BY <2>7, <2>8 DEF JobTurns
  <2>10. On(state, p)
    BY <2>4, <2>5, <2>9 DEF On
  <2> QED
    BY <2>1, <2>10
<1>5. PICK state : On(state, c)
  <2>1. Nat \subseteq T
    <3> HIDE DEF T
    <3> QED
      BY <1>3, <1>4, SetInduction
  <2> QED
    BY <1>1, <2>1
<1>6. PICK cur, at, left : /\ state[c] = Load(cur, at, left)
                           /\ Loading(slots, jobs, c, b, MaxTime, cur, at, left)
  BY <1>5 DEF On
<1>7. SplitSlotsJobs(slots, jobs, TRUE) = state[Len(jobs)]
  <2>1. JobTurns(state, Load(slots, 1, 1), jobs, TRUE, Len(jobs)) /\ Len(jobs) \in Nat
    BY <1>1, <1>2, <1>5 DEF On
  <2> DEFINE list == jobs
  <2>2. list = IF TRUE THEN jobs ELSE Reverse(jobs)
    OBVIOUS
  <2>3. JobTurns(state, Load(slots, 1, 1), list, TRUE, Len(jobs))
    BY <2>1
  <2> HIDE DEF list
  <2> QED
    BY <2>1, <2>2, <2>3, SplitSlotsJobsIs
<1>8. SplitSlotsJobs(slots, jobs, TRUE) = Load(cur, at, left)
  BY <1>2, <1>6, <1>7
<1>9. Load(cur, at, left).slots = cur /\ ~ Load(cur, at, left).broken
  BY LoadParts
<1> HIDE DEF T
<1>10. /\ \E order : Linked(cur, order, b, MaxTime)
       /\ NoObstacle(cur) /\ NoMoreFree(slots, cur)
       /\ \A k \in 1..c : IsTaken(cur, jobs[k])
  BY <1>6 DEF Loading
<1> QED
  BY <1>1, <1>8, <1>9, <1>10

(* Slots whose ids are in the order of time, none of them empty but the    *)
(* first one                                                               *)
IsRow(slots, last, e) ==
  /\ slots \in Seq(Slot) /\ last \in Nat \ {0} /\ Len(slots) = last
  /\ slots[1].b = 1 /\ slots[1].b <= slots[1].e + 1
  /\ slots[last].next = 0 /\ slots[last].e = e
  /\ \A i \in 1..last : i # 1 => slots[i].b <= slots[i].e
  /\ \A i \in 1..last : i # last => /\ slots[i].next = i + 1
                                    /\ slots[i + 1].b = slots[i].e + 1

(* They are a list of slots without an obstacle *)
LEMMA RowIsLinked ==
  ASSUME NEW slots, NEW last, NEW e \in Nat, IsRow(slots, last, e)
  PROVE  (\E order : Linked(slots, order, 1, e)) /\ NoObstacle(slots)
<1> DEFINE order == [i \in 1..last |-> i]
<1>1. /\ slots \in Seq(Slot) /\ last \in Nat \ {0} /\ Len(slots) = last
      /\ DOMAIN slots = 1..last /\ slots # <<>>
  BY DEF IsRow
<1>2. \A i \in 1..last : slots[i] \in Slot /\ slots[i].b \in Nat /\ slots[i].e \in Nat
  BY <1>1, SlotTypes
<1>3. \A i \in 1..last : i # last => i + 1 \in 1..last
  BY <1>1
<1>4. InOrder(slots, order, 1, e)
  <2>1. order \in [1..last -> 1..last] /\ \A i \in 1..last : order[i] = i
    OBVIOUS
  <2>2. 1 \in 1..last
    BY <1>1
  <2>3. \A i \in 1..last : slots[i].b <= slots[i].e + 1
    BY <1>2 DEF IsRow
  <2> HIDE DEF order
  <2>4. order[1] = 1 /\ slots[1].b = 1
    BY <2>1, <2>2 DEF IsRow
  <2>5. ASSUME NEW n \in 1..last
        PROVE  /\ slots[order[n]].b <= slots[order[n]].e + 1
               /\ IF n = last
                  THEN slots[order[n]].next = 0 /\ slots[order[n]].e = e
                  ELSE /\ slots[order[n]].next = order[n + 1]
                       /\ slots[order[n + 1]].b = slots[order[n]].e + 1
    <3>1. CASE n = last
      BY <2>1, <2>3, <3>1 DEF IsRow
    <3>2. CASE n # last
      <4>1. n + 1 \in 1..last
        BY <1>3, <3>2
      <4>2. order[n] = n /\ order[n + 1] = n + 1
        BY <2>1, <4>1
      <4>3. slots[n].next = n + 1 /\ slots[n + 1].b = slots[n].e + 1
        BY <3>2 DEF IsRow
      <4> QED
        BY <2>3, <3>2, <4>2, <4>3
    <3> QED
      BY <3>1, <3>2
  <2>6. \A m, n \in 1..last : order[m] = order[n] => m = n
    BY <2>1
  <2>7. \A i \in 1..last : \E n \in 1..last : order[n] = i
    BY <2>1
  <2> QED
    BY <1>1, <2>1, <2>4, <2>5, <2>6, <2>7 DEF InOrder
<1> HIDE DEF order
<1>5. Linked(slots, order, 1, e)
  BY <1>1, <1>4 DEF Linked
<1>6. FreeAt(slots, 0) = {}
  <2>1. 0 \in Int /\ ~ (1 <= 0 /\ 0 <= e)
    OBVIOUS
  <2> DEFINE t == 0
  <2>2. t \in Int /\ ~ (1 <= t /\ t <= e)
    BY <2>1
  <2> HIDE DEF t
  <2>3. FreeAt(slots, t) = {}
    BY <1>5, <2>2, FreeOutside
  <2> QED
    BY <2>3 DEF t
<1>7. NoObstacle(slots)
  <2> SUFFICES ASSUME NEW i \in DOMAIN slots, slots[i].b = slots[i].e + 1
               PROVE  FreeAt(slots, slots[i].b - 1) \cap FreeAt(slots, slots[i].b)
                        \subseteq slots[i].itvs
    BY DEF NoObstacle
  <2>1. i = 1
    <3>1. i # 1 => slots[i].b <= slots[i].e
      BY <1>1 DEF IsRow
    <3> QED
      BY <1>1, <1>2, <3>1
  <2>2. slots[i].b = 1
    BY <2>1 DEF IsRow
  <2>3. slots[i].b - 1 = 0
    BY <2>2
  <2> QED
    BY <1>6, <2>3
<1> QED
  BY <1>5, <1>7

(* Only one of the slots is free, in a time *)
OnlyIn(slots, h, res) ==
  h \in DOMAIN slots /\ \A i \in DOMAIN slots : slots[i].itvs # {} => i = h /\ slots[i].itvs \subseteq res

(* What is free then is free in that slot *)
LEMMA OnlyThen ==
  ASSUME NEW slots, NEW h, NEW res, OnlyIn(slots, h, res), NEW u, FreeAt(slots, u) # {}
  PROVE  slots[h].b <= u /\ u <= slots[h].e /\ FreeAt(slots, u) \subseteq res
<1>1. \A r \in FreeAt(slots, u) :
        \E i \in DOMAIN slots : slots[i].b <= u /\ u <= slots[i].e /\ r \in slots[i].itvs
  BY DEF FreeAt
<1>2. \A r \in FreeAt(slots, u) : slots[h].b <= u /\ u <= slots[h].e /\ r \in res
  BY <1>1 DEF OnlyIn
<1> QED
  BY <1>2

(* What add_slot_during_job makes of a list *)
Lent(cur, sid, job) == SlotDuringJob(cur, sid, job, FALSE)

IsLent(cur, sid, job, m, n, new) ==
  /\ new \in Seq(Slot) /\ Len(new) = Len(cur)
  /\ new[sid].next = cur[sid].next /\ new[sid].b = m /\ new[sid].e = n
  /\ new[sid].itvs = cur[sid].itvs \cup job.res
  /\ \A i \in DOMAIN cur : i # sid => new[i] = cur[i]

(* add_slot_during_job changes one slot: its dates and its resources *)
LEMMA LentIs ==
  ASSUME NEW cur \in Seq(Slot), NEW sid \in DOMAIN cur, NEW job, job.res \subseteq Resources,
         NEW m \in Nat, m = Max({cur[sid].b, job.start}),
         NEW n \in Nat, n = Min({cur[sid].e, End(job) - 1})
  PROVE  IsLent(cur, sid, job, m, n, Lent(cur, sid, job))
<1> DEFINE x == [next |-> cur[sid].next, b |-> m, e |-> n, itvs |-> cur[sid].itvs \cup job.res]
           new == [cur EXCEPT ![sid] = x]
           d == [cur EXCEPT ![sid].b = Max({@, job.start}),
                            ![sid].e = Min({@, End(job) - 1}),
                            ![sid].itvs = @ \cup job.res]
<1>1. cur[sid] \in Slot /\ cur[sid].next \in Nat /\ cur[sid].itvs \subseteq Resources
  <2>1. cur[sid] \in Slot
    BY SlotTypes
  <2> QED
    BY <2>1 DEF Slot
<1>2. x \in Slot
  BY <1>1 DEF Slot
<1>3. d[sid] = x
  BY <1>1 DEF Slot
<1>4. d = new
  <2> HIDE DEF x
  <2> QED
    BY <1>3
<1>5. Lent(cur, sid, job) = d
  BY DEF Lent, SlotDuringJob
<1>6. x.next = cur[sid].next /\ x.b = m /\ x.e = n /\ x.itvs = cur[sid].itvs \cup job.res
  OBVIOUS
<1> HIDE DEF x, d
<1>7. /\ new \in Seq(Slot) /\ Len(new) = Len(cur) /\ new[sid] = x
      /\ \A i \in DOMAIN cur : i # sid => new[i] = cur[i]
  BY <1>2
<1> HIDE DEF new
<1>8. IsLent(cur, sid, job, m, n, new)
  BY <1>6, <1>7 DEF IsLent
<1> QED
  BY <1>4, <1>5, <1>8

(* A job in the one slot of a container that was empty *)
IsInside(job) ==
  /\ job.start \in Nat /\ job.walltime \in Nat \ {0} /\ job.res \subseteq Resources
  /\ End(job) <= MaxTime

(* The slots of this container *)
IsContainer(new, job) ==
  /\ \E order : Linked(new, order, 1, MaxTime)
  /\ NoObstacle(new)
  /\ \A u \in Int : FreeAt(new, u) # {} =>
       job.start <= u /\ u < End(job) /\ FreeAt(new, u) \subseteq job.res

IsEmpty(slots) ==
  /\ slots \in Seq(Slot) /\ Len(slots) = 1 /\ DOMAIN slots = {1}
  /\ slots[1].next = 0 /\ slots[1].b = 1 /\ slots[1].e = MaxTime /\ slots[1].itvs = {}

(* The slots of a container before it has its resources *)
LEMMA OneSlotIsEmpty == MaxTime \in Nat => IsEmpty(OneSlot({}, 1, MaxTime))
<1> SUFFICES ASSUME MaxTime \in Nat
             PROVE  IsEmpty(OneSlot({}, 1, MaxTime))
  OBVIOUS
<1> DEFINE slots == OneSlot({}, 1, MaxTime)
           x == [next |-> 0, b |-> 1, e |-> MaxTime, itvs |-> {}]
<1>1. slots = <<x>>
  BY DEF OneSlot
<1>2. x \in Slot
  BY DEF Slot
<1>3. x.next = 0 /\ x.b = 1 /\ x.e = MaxTime /\ x.itvs = {}
  OBVIOUS
<1> HIDE DEF x, slots
<1>4. slots \in Seq(Slot) /\ Len(slots) = 1 /\ slots[1] = x
  BY <1>1, <1>2
<1>5. DOMAIN slots = {1}
  BY <1>4
<1>6. IsEmpty(slots)
  BY <1>3, <1>4, <1>5 DEF IsEmpty
<1> QED
  BY <1>6 DEF slots

(* It begins with the container's slots: C of split_slots *)
LEMMA InsideFromStart ==
  ASSUME NEW slots, IsEmpty(slots), MaxTime \in Nat, NEW job, IsInside(job), job.start <= 1,
         NEW new, new = Lent(SlotAfterJob(slots, 1, job), 1, job)
  PROVE  IsContainer(new, job)
<1>1. /\ slots \in Seq(Slot) /\ Len(slots) = 1 /\ DOMAIN slots = {1}
      /\ slots[1].next = 0 /\ slots[1].b = 1 /\ slots[1].e = MaxTime /\ slots[1].itvs = {}
  BY DEF IsEmpty
<1>2. /\ job.start \in Nat /\ job.res \subseteq Resources
      /\ End(job) <= MaxTime
      /\ End(job) \in Nat /\ End(job) - 1 \in Nat
  BY DEF IsInside, End
<1> DEFINE one == 1
           two == 2
           end == End(job) - 1
<1>3. one = 1 /\ two = 2 /\ two = Len(slots) + 1 /\ one \in DOMAIN slots /\ end = End(job) - 1
      /\ end \in Nat
  BY <1>1, <1>2
<1> HIDE DEF one, two, end
<1>4. PICK o \in Slot, a \in Slot :
        /\ SlotAfterJob(slots, one, job) = Grown(slots, one, o, a)
        /\ o = [next |-> Len(slots) + 1, b |-> slots[one].b, e |-> slots[one].e,
                itvs |-> slots[one].itvs]
        /\ a = [next |-> slots[one].next, b |-> End(job), e |-> slots[one].e,
                itvs |-> slots[one].itvs]
  BY <1>1, <1>2, <1>3, AfterGrows
<1>5. /\ o.next = 2 /\ o.b = 1 /\ o.e = MaxTime /\ o.itvs = {}
      /\ a.next = 0 /\ a.b = End(job) /\ a.e = MaxTime /\ a.itvs = {}
  BY <1>1, <1>3, <1>4
<1> DEFINE cut == SlotAfterJob(slots, one, job)
<1>6. cut = Grown(slots, one, o, a)
  BY <1>4
<1> HIDE DEF cut
<1>7. IsGrown(slots, one, o, a, cut, two)
  <2>1. o \in Slot /\ a \in Slot
    BY <1>4
  <2> QED
    BY <1>1, <1>3, <1>6, <2>1, GrownIs
<1>8. /\ cut \in Seq(Slot) /\ Len(cut) = 2 /\ DOMAIN cut = 1..2 /\ cut[2] = a /\ cut[1] = o
  BY <1>3, <1>7 DEF IsGrown
<1>9. 1 = Max({cut[one].b, job.start}) /\ end = Min({cut[one].e, End(job) - 1})
  <2>1. cut[one].b = 1 /\ cut[one].e = MaxTime
    BY <1>3, <1>5, <1>8
  <2>2. Max({cut[one].b, job.start}) = IF cut[one].b >= job.start THEN cut[one].b ELSE job.start
    BY <1>2, <2>1, MaxOfTwo
  <2>3. Min({cut[one].e, end}) = IF cut[one].e <= end THEN cut[one].e ELSE end
    BY <1>3, <2>1, MinOfTwo
  <2> QED
    BY <1>2, <1>3, <2>1, <2>2, <2>3
<1>10. IsLent(cut, one, job, 1, end, new)
  <2> DEFINE m == 1
  <2>1. m \in Nat /\ m = Max({cut[one].b, job.start})
    BY <1>9
  <2>2. end = Min({cut[one].e, End(job) - 1}) /\ end \in Nat /\ one \in DOMAIN cut
    BY <1>3, <1>8, <1>9
  <2>3. job.res \subseteq Resources /\ cut \in Seq(Slot)
    BY <1>2, <1>8
  <2> HIDE DEF m
  <2>4. IsLent(cut, one, job, m, end, Lent(cut, one, job))
    BY <2>1, <2>2, <2>3, LentIs
  <2>5. Lent(cut, one, job) = new
    BY <1>3 DEF cut
  <2> QED
    BY <2>4, <2>5 DEF m
<1>11. /\ new \in Seq(Slot) /\ Len(new) = 2 /\ DOMAIN new = 1..2
       /\ new[1].next = 2 /\ new[1].b = 1 /\ new[1].e = end /\ new[1].itvs = job.res
       /\ new[2].next = 0 /\ new[2].b = end + 1 /\ new[2].e = MaxTime /\ new[2].itvs = {}
  <2>1. new \in Seq(Slot) /\ Len(new) = 2
    BY <1>8, <1>10 DEF IsLent
  <2>2. new[2] = cut[2]
    BY <1>3, <1>8, <1>10 DEF IsLent
  <2>3. new[1].next = cut[1].next /\ new[1].b = 1 /\ new[1].e = end
        /\ new[1].itvs = cut[1].itvs \cup job.res
    BY <1>3, <1>10 DEF IsLent
  <2>4. End(job) = end + 1
    BY <1>2, <1>3
  <2>5. DOMAIN new = 1..2
    BY <2>1
  <2> QED
    BY <1>5, <1>8, <2>1, <2>2, <2>3, <2>4, <2>5
<1>12. \A i \in 1..2 : i = 1 \/ i = 2
  OBVIOUS
<1>13. IsRow(new, two, MaxTime)
  <2>1. \A i \in 1..two : i # 1 => new[i].b <= new[i].e
    BY <1>2, <1>3, <1>11, <1>12, SMTT(30)
  <2>2. \A i \in 1..two : i # two => new[i].next = i + 1 /\ new[i + 1].b = new[i].e + 1
    BY <1>2, <1>3, <1>11, <1>12, SMTT(30)
  <2> QED
    BY <1>2, <1>3, <1>11, <2>1, <2>2, SMTT(30) DEF IsRow
<1>14. (\E order : Linked(new, order, 1, MaxTime)) /\ NoObstacle(new)
  BY <1>13, RowIsLinked
<1>15. OnlyIn(new, 1, job.res)
  BY <1>11, <1>12 DEF OnlyIn
<1>16. ASSUME NEW u \in Int, FreeAt(new, u) # {}
       PROVE  job.start <= u /\ u < End(job) /\ FreeAt(new, u) \subseteq job.res
  <2>1. new[1].b <= u /\ u <= new[1].e /\ FreeAt(new, u) \subseteq job.res
    BY <1>15, <1>16, OnlyThen
  <2> QED
    BY <1>2, <1>3, <1>11, <2>1, SMTT(30)
<1> QED
  BY <1>14, <1>16 DEF IsContainer

(* It begins later: A, then C *)
LEMMA InsideAfterStart ==
  ASSUME NEW slots, IsEmpty(slots), MaxTime \in Nat, NEW job, IsInside(job), 1 < job.start,
         NEW new, new = Lent(SlotAfterJob(SlotBeforeJob(slots, 1, job), 2, job), 2, job)
  PROVE  IsContainer(new, job)
<1>1. /\ slots \in Seq(Slot) /\ Len(slots) = 1 /\ DOMAIN slots = {1}
      /\ slots[1].next = 0 /\ slots[1].b = 1 /\ slots[1].e = MaxTime /\ slots[1].itvs = {}
  BY DEF IsEmpty
<1>2. /\ job.start \in Nat /\ job.res \subseteq Resources /\ job.start - 1 \in Nat
      /\ job.start < End(job) /\ End(job) <= MaxTime
      /\ End(job) \in Nat /\ End(job) - 1 \in Nat
  BY DEF IsInside, End
<1> DEFINE one == 1
           two == 2
           three == 3
           end == End(job) - 1
           before == job.start - 1
<1>3. /\ one = 1 /\ two = 2 /\ two = Len(slots) + 1 /\ one \in DOMAIN slots
      /\ end = End(job) - 1 /\ three = 3 /\ end \in Nat
      /\ before = job.start - 1 /\ before \in Nat
  BY <1>1, <1>2
<1> HIDE DEF one, two, end, three, before
<1>4. PICK o \in Slot, a \in Slot :
        /\ SlotBeforeJob(slots, one, job) = Grown(slots, one, o, a)
        /\ o = [next |-> Len(slots) + 1, b |-> slots[one].b, e |-> job.start - 1,
                itvs |-> slots[one].itvs]
        /\ a = slots[one]
  BY <1>1, <1>2, <1>3, BeforeGrows
<1>5. /\ o.next = 2 /\ o.b = 1 /\ o.e = before /\ o.itvs = {}
      /\ a.next = 0 /\ a.b = 1 /\ a.e = MaxTime /\ a.itvs = {}
  BY <1>1, <1>3, <1>4
<1> DEFINE first == SlotBeforeJob(slots, one, job)
<1>6. first = Grown(slots, one, o, a)
  BY <1>4
<1> HIDE DEF first
<1>7. IsGrown(slots, one, o, a, first, two)
  <2>1. o \in Slot /\ a \in Slot
    BY <1>4
  <2> QED
    BY <1>1, <1>3, <1>6, <2>1, GrownIs
<1>8. /\ first \in Seq(Slot) /\ Len(first) = 2 /\ DOMAIN first = 1..2
      /\ first[2] = a /\ first[1] = o
  BY <1>3, <1>7 DEF IsGrown
<1>9. two \in DOMAIN first /\ three = Len(first) + 1
  BY <1>3, <1>8
<1>10. PICK p \in Slot, c \in Slot :
        /\ SlotAfterJob(first, two, job) = Grown(first, two, p, c)
        /\ p = [next |-> Len(first) + 1, b |-> first[two].b, e |-> first[two].e,
                itvs |-> first[two].itvs]
        /\ c = [next |-> first[two].next, b |-> End(job), e |-> first[two].e,
                itvs |-> first[two].itvs]
  BY <1>2, <1>8, <1>9, AfterGrows
<1>11. /\ p.next = 3 /\ p.b = 1 /\ p.e = MaxTime /\ p.itvs = {}
       /\ c.next = 0 /\ c.b = End(job) /\ c.e = MaxTime /\ c.itvs = {}
  BY <1>3, <1>5, <1>8, <1>10
<1> DEFINE cut == SlotAfterJob(first, two, job)
<1>12. cut = Grown(first, two, p, c)
  BY <1>10
<1> HIDE DEF cut
<1>13. IsGrown(first, two, p, c, cut, three)
  <2>1. p \in Slot /\ c \in Slot /\ first \in Seq(Slot)
    BY <1>8, <1>10
  <2> QED
    BY <1>9, <1>12, <2>1, GrownIs
<1>14. /\ cut \in Seq(Slot) /\ Len(cut) = 3 /\ DOMAIN cut = 1..3
       /\ cut[3] = c /\ cut[2] = p /\ cut[1] = o
  <2>1. 1 \in DOMAIN first /\ 1 # two
    BY <1>3, <1>8
  <2>2. cut[1] = first[1]
    BY <1>13, <2>1 DEF IsGrown
  <2> QED
    BY <1>3, <1>8, <1>13, <2>2 DEF IsGrown
<1>15. job.start = Max({cut[two].b, job.start}) /\ end = Min({cut[two].e, End(job) - 1})
  <2>1. cut[two].b = 1 /\ cut[two].e = MaxTime
    BY <1>3, <1>11, <1>14
  <2>2. Max({cut[two].b, job.start}) = IF cut[two].b >= job.start THEN cut[two].b ELSE job.start
    BY <1>2, <2>1, MaxOfTwo
  <2>3. Min({cut[two].e, end}) = IF cut[two].e <= end THEN cut[two].e ELSE end
    BY <1>3, <2>1, MinOfTwo
  <2> QED
    BY <1>2, <1>3, <2>1, <2>2, <2>3
<1>16. IsLent(cut, two, job, job.start, end, new)
  <2> DEFINE m == job.start
  <2>1. m \in Nat /\ m = Max({cut[two].b, job.start})
    BY <1>2, <1>15
  <2>2. end = Min({cut[two].e, End(job) - 1}) /\ end \in Nat /\ two \in DOMAIN cut
    BY <1>3, <1>14, <1>15
  <2>3. job.res \subseteq Resources /\ cut \in Seq(Slot)
    BY <1>2, <1>14
  <2> HIDE DEF m
  <2>4. IsLent(cut, two, job, m, end, Lent(cut, two, job))
    BY <2>1, <2>2, <2>3, LentIs
  <2>5. Lent(cut, two, job) = new
    BY <1>3 DEF cut, first
  <2> QED
    BY <2>4, <2>5 DEF m
<1>17. /\ new \in Seq(Slot) /\ Len(new) = 3 /\ DOMAIN new = 1..3
       /\ new[1].next = 2 /\ new[1].b = 1 /\ new[1].e = before /\ new[1].itvs = {}
       /\ new[2].next = 3 /\ new[2].b = before + 1 /\ new[2].e = end /\ new[2].itvs = job.res
       /\ new[3].next = 0 /\ new[3].b = end + 1 /\ new[3].e = MaxTime /\ new[3].itvs = {}
  <2>1. new \in Seq(Slot) /\ Len(new) = 3
    BY <1>14, <1>16 DEF IsLent
  <2>2. new[1] = cut[1] /\ new[3] = cut[3]
    BY <1>3, <1>14, <1>16 DEF IsLent
  <2>3. new[2].next = cut[2].next /\ new[2].b = job.start /\ new[2].e = end
        /\ new[2].itvs = cut[2].itvs \cup job.res
    BY <1>3, <1>16 DEF IsLent
  <2>4. End(job) = end + 1 /\ job.start = before + 1
    BY <1>2, <1>3
  <2>5. DOMAIN new = 1..3
    BY <2>1
  <2> QED
    BY <1>5, <1>11, <1>14, <2>1, <2>2, <2>3, <2>4, <2>5
<1>18. \A i \in 1..3 : i = 1 \/ i = 2 \/ i = 3
  OBVIOUS
<1>19. IsRow(new, three, MaxTime)
  <2>a. 1 <= before /\ before + 1 <= end /\ end + 1 <= MaxTime
    BY <1>2, <1>3
  <2>1. \A i \in 1..three : i # 1 => new[i].b <= new[i].e
    BY <1>3, <1>17, <1>18, <2>a
  <2>2. \A i \in 1..three : i # three => new[i].next = i + 1 /\ new[i + 1].b = new[i].e + 1
    BY <1>3, <1>17, <1>18
  <2> QED
    BY <1>3, <1>17, <2>1, <2>2, <2>a DEF IsRow
<1>20. (\E order : Linked(new, order, 1, MaxTime)) /\ NoObstacle(new)
  BY <1>19, RowIsLinked
<1>21. OnlyIn(new, 2, job.res)
  BY <1>17, <1>18 DEF OnlyIn
<1>22. ASSUME NEW u \in Int, FreeAt(new, u) # {}
       PROVE  job.start <= u /\ u < End(job) /\ FreeAt(new, u) \subseteq job.res
  <2>1. new[2].b <= u /\ u <= new[2].e /\ FreeAt(new, u) \subseteq job.res
    BY <1>21, <1>22, OnlyThen
  <2>2. new[2].b = before + 1 /\ new[2].e = end
    BY <1>17
  <2>3. before + 1 = job.start
    BY <1>2, <1>3
  <2>4. end \in Nat /\ End(job) = end + 1
    BY <1>2, <1>3
  <2>5. job.start <= u /\ u <= end
    BY <2>1, <2>2, <2>3
  <2>6. u < End(job)
    BY <2>4, <2>5
  <2> QED
    BY <2>1, <2>5, <2>6
<1> QED
  BY <1>20, <1>22 DEF IsContainer

(* The turn of split_slots that gives a container its resources *)
LEMMA TurnLends ==
  ASSUME NEW slots, NEW at, NEW left, NEW sid, NEW job
  PROVE  /\ SplitSlot(Load(slots, at, left), sid, job, FALSE).slots
              = Lent(Ended(Begun(slots, sid, job), HeldId(slots, sid, job), job,
                           End(job) <= slots[sid].e),
                     HeldId(slots, sid, job), job)
         /\ ~ SplitSlot(Load(slots, at, left), sid, job, FALSE).broken
<1> DEFINE st == [slots |-> slots, at |-> at, left |-> left, broken |-> FALSE]
           h == HeldId(slots, sid, job)
           x == Lent(Ended(Begun(slots, sid, job), h, job, End(job) <= slots[sid].e), h, job)
<1>1. st = Load(slots, at, left)
  BY DEF Load, LoadOf
<1>2. st.slots = slots
      /\ st = [slots |-> slots, at |-> at, left |-> left, broken |-> FALSE]
  OBVIOUS
<1> HIDE DEF st
<1>3. SplitSlot(st, sid, job, FALSE) = [st EXCEPT !.slots = x, !.at = IF @ = sid THEN h ELSE @]
  BY <1>2 DEF SplitSlot, HeldId, Begun, Ended, Lent
<1> HIDE DEF x, h
<1>4. \A y : LET next == [st EXCEPT !.slots = x, !.at = y]
              IN  next.slots = x /\ ~ next.broken
  BY DEF st
<1>5. SplitSlot(st, sid, job, FALSE).slots = x /\ ~ SplitSlot(st, sid, job, FALSE).broken
  <2> DEFINE y == IF at = sid THEN h ELSE at
             next == [st EXCEPT !.slots = x, !.at = y]
  <2>1. next.slots = x /\ ~ next.broken
    BY <1>4
  <2>2. st.at = at
    BY DEF st
  <2>3. SplitSlot(st, sid, job, FALSE) = next
    BY <1>3, <2>2
  <2> HIDE DEF next
  <2> QED
    BY <2>1, <2>3
<1> QED
  BY <1>1, <1>5 DEF x, h

(* A split of one slot is one turn *)
LEMMA OneTurn ==
  ASSUME NEW st, NEW left, NEW right, NEW job, NEW sub, NEW sid,
         Path(st.slots, left, right) = <<sid>>
  PROVE  SplitSlots(st, left, right, job, sub) = SplitSlot(st, sid, job, sub)
<1> DEFINE path == Path(st.slots, left, right)
           next == SplitSlot(st, sid, job, sub)
           G == [k \in 0..1 |-> IF k = 0 THEN st ELSE next]
           F == CHOOSE f : f = [k \in 0..Len(path) |->
                  IF k = 0 THEN st ELSE SplitSlot(f[k - 1], path[k], job, sub)]
<1>1. SplitSlots(st, left, right, job, sub) = F[Len(path)]
  BY DEF SplitSlots
<1>2. Len(path) = 1 /\ path[1] = sid
  OBVIOUS
<1>3. next = SplitSlot(st, sid, job, sub)
  OBVIOUS
<1> HIDE DEF path, next
<1>4. G = [k \in 0..Len(path) |->
             IF k = 0 THEN st ELSE SplitSlot(G[k - 1], path[k], job, sub)]
  <2>1. G[0] = st /\ G[1] = next
    OBVIOUS
  <2>2. \A k \in 0..1 : k = 0 \/ (k = 1 /\ k - 1 = 0)
    OBVIOUS
  <2>3. DOMAIN G = 0..1 /\ G = [k \in 0..1 |-> G[k]]
    OBVIOUS
  <2> HIDE DEF G
  <2>4. \A k \in 0..1 : G[k] = IF k = 0 THEN st ELSE SplitSlot(G[k - 1], path[k], job, sub)
    BY <1>2, <1>3, <2>1, <2>2
  <2> QED
    BY <1>2, <2>3, <2>4
<1>5. F = [k \in 0..Len(path) |->
             IF k = 0 THEN st ELSE SplitSlot(F[k - 1], path[k], job, sub)]
  <2> HIDE DEF G
  <2> QED
    BY <1>4
<1> HIDE DEF F
<1>6. F[0] = st
  <2>1. 0 \in 0..Len(path)
    BY <1>2
  <2> QED
    BY <1>5, <2>1
<1>7. F[1] = SplitSlot(F[0], path[1], job, sub)
  <2> DEFINE one == 1
  <2>1. one \in 0..Len(path) /\ one # 0 /\ one - 1 = 0 /\ one = 1
    BY <1>2
  <2> HIDE DEF one
  <2>2. F[one] = SplitSlot(F[one - 1], path[one], job, sub)
    BY <1>5, <2>1
  <2> QED
    BY <2>1, <2>2
<1> QED
  BY <1>1, <1>2, <1>3, <1>6, <1>7

(* The slots of a container that is there *)
Given(slots, job) == SplitSlotsJobs(slots, <<job>>, FALSE)

(* A container that is there has its resources in its time, and no more *)
LEMMA ContainerIs ==
  ASSUME NEW slots, IsEmpty(slots), MaxTime \in Nat, NEW job, IsInside(job)
  PROVE  IsContainer(Given(slots, job).slots, job) /\ ~ Given(slots, job).broken
<1>1. /\ slots \in Seq(Slot) /\ Len(slots) = 1 /\ DOMAIN slots = {1}
      /\ slots[1].next = 0 /\ slots[1].b = 1 /\ slots[1].e = MaxTime /\ slots[1].itvs = {}
  BY DEF IsEmpty
<1>2. /\ job.start \in Nat /\ job.walltime \in Nat \ {0} /\ job.res \subseteq Resources
      /\ job.start < End(job) /\ End(job) <= MaxTime /\ End(job) \in Nat
  BY DEF IsInside, End
<1>3. PICK order : Linked(slots, order, 1, MaxTime)
  <2> DEFINE one == 1
  <2>1. \A i \in 1..one : i = 1
    OBVIOUS
  <2>2. one \in Nat \ {0} /\ Len(slots) = one /\ slots[one].next = 0 /\ slots[one].e = MaxTime
    BY <1>1
  <2>3. 1 <= MaxTime + 1
    OBVIOUS
  <2>4. one = 1
    OBVIOUS
  <2> HIDE DEF one
  <2>5. IsRow(slots, one, MaxTime)
    BY <1>1, <2>1, <2>2, <2>3, <2>4 DEF IsRow
  <2> QED
    BY <2>5, RowIsLinked
<1>4. order[1] = 1
  BY <1>3 DEF Linked, InOrder
<1>5. ASSUME NEW ids, 1 \in ids
      PROVE  Follow(slots, 1, ids) = 1
  <2> DEFINE m == 1
  <2>1. m \in DOMAIN slots /\ order[m] = 1 /\ m <= m /\ \A n \in DOMAIN slots : n = m
    BY <1>1, <1>4
  <2> HIDE DEF m
  <2>2. \/ /\ Follow(slots, order[m], ids) = 0
           /\ \A n \in DOMAIN slots : m <= n => order[n] \notin ids
        \/ \E n \in DOMAIN slots :
             /\ m <= n /\ Follow(slots, order[m], ids) = order[n] /\ order[n] \in ids
             /\ \A k \in DOMAIN slots : m <= k /\ k < n => order[k] \notin ids
    BY <1>3, <2>1, FollowFinds
  <2> QED
    BY <1>5, <2>1, <2>2
<1>6. AtFor(slots, 1, job) = 1
  <2>1. 1 \in StartsIn(slots, job)
    BY <1>1, <1>2 DEF StartsIn
  <2> DEFINE ids == StartsIn(slots, job)
  <2>2. 1 \in ids
    BY <2>1
  <2> HIDE DEF ids
  <2>3. Follow(slots, 1, ids) = 1
    BY <1>5, <2>2
  <2> QED
    BY <2>3 DEF AtFor, ids
<1>7. LastFor(slots, 1, job) = 1
  <2>1. 1 \in EndsIn(slots, job)
    BY <1>1, <1>2 DEF EndsIn
  <2> DEFINE ids == EndsIn(slots, job)
  <2>2. 1 \in ids
    BY <2>1
  <2> HIDE DEF ids
  <2>3. Follow(slots, 1, ids) = 1
    BY <1>5, <2>2
  <2> QED
    BY <1>6, <2>3 DEF LastFor, ids
<1>8. LeftFor(slots, 1, 1, job) = 1 /\ RightFor(slots, 1, 1, job) = 1
  BY <1>6, <1>7 DEF LeftFor, RightFor
<1>9. Path(slots, 1, 1) = <<1>>
  <2> DEFINE m == 1
             right == 1
  <2>1. m \in DOMAIN slots /\ order[m] = 1 /\ m <= m /\ right = order[m] /\ m = 1 /\ right = 1
    BY <1>1, <1>4
  <2> HIDE DEF m, right
  <2>2. Path(slots, order[m], right) = Ids(order, m, m)
    BY <1>3, <2>1, PathInOrder
  <2>3. Ids(order, m, m) = <<order[m]>>
    <3>1. m <= m /\ m \in DOMAIN slots /\ m = m
      BY <2>1
    <3> DEFINE n == m
    <3>2. m <= n /\ n \in DOMAIN slots /\ m = n
      BY <3>1
    <3> HIDE DEF n
    <3>3. Ids(order, m, n) = <<order[m]>>
      BY <1>3, <3>1, <3>2, IdsStep
    <3> QED
      BY <3>2, <3>3
  <2> QED
    BY <2>1, <2>2, <2>3
<1> DEFINE no == FALSE
           one == 1
           st == Load(slots, one, one)
           next == SplitSlot(st, one, job, no)
<1>10. SplitForJob(st, job, no) = next
  <2>1. one = 1 /\ Path(slots, one, one) = <<one>>
    BY <1>9
  <2>2. /\ AtFor(slots, one, job) = one /\ LastFor(slots, one, job) = one
        /\ LeftFor(slots, one, one, job) = one /\ RightFor(slots, one, one, job) = one
    BY <1>6, <1>7, <1>8
  <2>3. Follow(slots, one, {one}) = one
    <3> DEFINE ids == {one}
    <3>1. 1 \in ids
      OBVIOUS
    <3> HIDE DEF ids
    <3>2. Follow(slots, 1, ids) = 1
      BY <1>5, <3>1
    <3> QED
      BY <3>2 DEF ids
  <2>4. one # 0
    OBVIOUS
  <2>5. st.slots = slots
    BY LoadParts
  <2>6. st = Load(slots, one, one)
    OBVIOUS
  <2> HIDE DEF one, no, st
  <2>7. SplitForJob(st, job, no) = SplitSlots(st, one, one, job, no)
    BY <2>2, <2>3, <2>4, <2>6, SplitForJobIs
  <2>8. SplitSlots(st, one, one, job, no) = SplitSlot(st, one, job, no)
    <3>1. Path(st.slots, one, one) = <<one>>
      BY <2>1, <2>5
    <3> QED
      BY <3>1, OneTurn
  <2> QED
    BY <2>7, <2>8
<1>11. Given(slots, job) = next
  <2> DEFINE jobs == <<job>>
             state == [k \in 0..1 |-> IF k = 0 THEN st ELSE next]
             n == Len(jobs)
  <2>1. n = 1 /\ n \in Nat /\ jobs[1] = job
    OBVIOUS
  <2>2. Reverse(jobs) = jobs
    BY DEF Reverse
  <2>3. state[0] = st /\ state[1] = next
    OBVIOUS
  <2>4. st = Load(slots, 1, 1)
    OBVIOUS
  <2> HIDE DEF state, st, next, jobs, n, one
  <2>5. JobTurns(state, Load(slots, 1, 1), jobs, no, n)
    <3> HIDE DEF no
    <3>1. \A k \in 1..n : k = 1 /\ k - 1 = 0
      BY <2>1
    <3>2. \A k \in 1..n : state[k] = SplitForJob(state[k - 1], jobs[k], no)
      BY <1>10, <2>1, <2>3, <3>1
    <3> QED
      BY <2>3, <2>4, <3>2 DEF JobTurns
  <2>6. jobs = IF no THEN jobs ELSE Reverse(jobs)
    BY <2>2
  <2> HIDE DEF no
  <2>7. SplitSlotsJobs(slots, jobs, no) = state[n]
    BY <2>1, <2>5, <2>6, SplitSlotsJobsIs, ZenonT(30) DEF n
  <2> QED
    BY <2>1, <2>3, <2>7 DEF Given, jobs, no
<1> DEFINE h == HeldId(slots, 1, job)
           new == Lent(Ended(Begun(slots, 1, job), h, job, End(job) <= slots[1].e), h, job)
<1>12. next.slots = new /\ ~ next.broken
  BY TurnLends
<1>13. IsContainer(new, job)
  <2>1. End(job) <= slots[1].e
    BY <1>1, <1>2
  <2>2. new = Lent(SlotAfterJob(Begun(slots, 1, job), h, job), h, job)
    BY <2>1 DEF Ended
  <2>3. CASE job.start <= 1
    <3>1. h = 1 /\ Begun(slots, 1, job) = slots
      BY <1>1, <1>2, <2>3 DEF HeldId, Begun
    <3>2. new = Lent(SlotAfterJob(slots, 1, job), 1, job)
      BY <2>2, <3>1
    <3> HIDE DEF new
    <3> QED
      BY <2>3, <3>2, InsideFromStart
  <2>4. CASE 1 < job.start
    <3>1. h = 2 /\ Begun(slots, 1, job) = SlotBeforeJob(slots, 1, job)
      BY <1>1, <1>2, <2>4 DEF HeldId, Begun
    <3>2. new = Lent(SlotAfterJob(SlotBeforeJob(slots, 1, job), 2, job), 2, job)
      BY <2>2, <3>1
    <3> HIDE DEF new
    <3> QED
      BY <2>4, <3>2, InsideAfterStart
  <2> QED
    BY <1>2, <2>3, <2>4
<1> HIDE DEF next, new
<1> QED
  BY <1>11, <1>12, <1>13

(* The jobs of a set, one more or not *)
Kept(list, job, name) == IF job.inner = name THEN Append(list, job) ELSE list

Choosing(chosen, jobs, name, n) ==
  chosen[0] = <<>> /\ \A k \in 1..n : chosen[k] = Kept(chosen[k - 1], jobs[k], name)

(* These turns are those of Booked *)
LEMMA BookedIs ==
  ASSUME NEW jobs, Len(jobs) \in Nat, NEW name,
         NEW chosen, Choosing(chosen, jobs, name, Len(jobs))
  PROVE  Booked(jobs, name) = chosen[Len(jobs)]
<1> DEFINE c == Len(jobs)
           G == [k \in 0..c |-> chosen[k]]
           F == CHOOSE f : f = [k \in 0..Len(jobs) |->
                  IF k = 0 THEN <<>>
                  ELSE IF jobs[k].inner = name THEN Append(f[k - 1], jobs[k])
                  ELSE f[k - 1]]
<1>1. c \in Nat /\ c = Len(jobs)
  OBVIOUS
<1>2. Booked(jobs, name) = F[Len(jobs)]
  BY DEF Booked
<1>a. Choosing(chosen, jobs, name, c)
  BY <1>1
<1> HIDE DEF c
<1>4. ASSUME NEW k \in 0..c
      PROVE  G[k] = IF k = 0 THEN <<>>
                    ELSE IF jobs[k].inner = name THEN Append(G[k - 1], jobs[k])
                    ELSE G[k - 1]
  <2>1. CASE k = 0
    BY <1>1, <1>a, <2>1 DEF Choosing
  <2>2. CASE k # 0
    <3>1. k \in 1..c /\ k - 1 \in 0..c
      BY <1>1, <2>2
    <3>2. chosen[k] = Kept(chosen[k - 1], jobs[k], name)
      BY <1>a, <3>1 DEF Choosing
    <3>3. G[k] = chosen[k] /\ G[k - 1] = chosen[k - 1]
      BY <3>1
    <3> QED
      BY <2>2, <3>2, <3>3 DEF Kept
  <2> QED
    BY <2>1, <2>2
<1>5. G = [k \in 0..Len(jobs) |->
             IF k = 0 THEN <<>>
             ELSE IF jobs[k].inner = name THEN Append(G[k - 1], jobs[k])
             ELSE G[k - 1]]
  <2>1. DOMAIN G = 0..c /\ G = [k \in 0..c |-> G[k]]
    OBVIOUS
  <2> HIDE DEF G
  <2> QED
    BY <1>1, <1>4, <2>1, SMTT(30)
<1>6. F = [k \in 0..Len(jobs) |->
             IF k = 0 THEN <<>>
             ELSE IF jobs[k].inner = name THEN Append(F[k - 1], jobs[k])
             ELSE F[k - 1]]
  <2> HIDE DEF G
  <2> QED
    BY <1>5, ZenonT(30)
<1> HIDE DEF F
<1>b. ASSUME NEW k \in 0..c
      PROVE  F[k] = IF k = 0 THEN <<>> ELSE Kept(F[k - 1], jobs[k], name)
  BY <1>1, <1>6 DEF Kept
<1>c. ASSUME NEW k \in 0..c
      PROVE  G[k] = IF k = 0 THEN <<>> ELSE Kept(G[k - 1], jobs[k], name)
  <2> HIDE DEF G
  <2> QED
    BY <1>4 DEF Kept
<1>10. G[c] = chosen[c]
  <2>1. c \in 0..c
    BY <1>1
  <2> QED
    BY <2>1 DEF G
<1> HIDE DEF G
<1> DEFINE T == {k \in Nat : k <= c => F[k] = G[k]}
<1>7. 0 \in T
  <2>1. 0 \in 0..c
    BY <1>1
  <2> QED
    BY <1>1, <1>b, <1>c, <2>1
<1>8. ASSUME NEW k \in Nat, k \in T
      PROVE  k + 1 \in T
  <2> SUFFICES ASSUME k + 1 <= c
               PROVE  F[k + 1] = G[k + 1]
    OBVIOUS
  <2>1. k + 1 \in 0..c /\ k <= c /\ (k + 1) - 1 = k /\ k + 1 # 0
    BY <1>1
  <2>2. F[k] = G[k]
    BY <1>8, <2>1
  <2>3. G[k + 1] = Kept(G[k], jobs[k + 1], name)
    BY <1>c, <2>1
  <2>4. F[k + 1] = Kept(F[k], jobs[k + 1], name)
    BY <1>b, <2>1
  <2> QED
    BY <2>2, <2>3, <2>4
<1>9. F[c] = G[c]
  <2>1. Nat \subseteq T
    <3> HIDE DEF T
    <3> QED
      BY <1>7, <1>8, SetInduction
  <2> QED
    BY <1>1, <2>1
<1>11. Booked(jobs, name) = chosen[c]
  BY <1>1, <1>2, <1>9, <1>10
<1> QED
  BY <1>11 DEF c

(* The jobs of the set are among those that are kept *)
AreKept(list, jobs, name, n) ==
  \A k \in 1..n : jobs[k].inner = name => \E i \in DOMAIN list : list[i] = jobs[k]

(* One more job is looked at, and kept if it is of the set *)
LEMMA KeptGrow ==
  ASSUME NEW S, NEW list \in Seq(S), NEW jobs, NEW name, NEW n \in Nat, NEW p, p = n + 1,
         jobs[p] \in S, AreKept(list, jobs, name, n)
  PROVE  /\ Kept(list, jobs[p], name) \in Seq(S)
         /\ AreKept(Kept(list, jobs[p], name), jobs, name, p)
<1> DEFINE job == jobs[p]
           new == Kept(list, job, name)
<1>1. job \in S /\ job = jobs[p]
  OBVIOUS
<1> HIDE DEF job
<1>2. CASE job.inner # name
  <2>1. new = list
    BY <1>2 DEF Kept
  <2>2. \A k \in 1..p : k = p \/ k \in 1..n
    OBVIOUS
  <2>3. AreKept(list, jobs, name, p)
    BY <1>1, <1>2, <2>2 DEF AreKept
  <2> QED
    BY <1>1, <2>1, <2>3
<1>3. CASE job.inner = name
  <2>1. new = Append(list, job)
    BY <1>3 DEF Kept
  <2> DEFINE last == Len(list) + 1
  <2> HIDE DEF new
  <2>2. /\ new \in Seq(S) /\ DOMAIN new = 1..last /\ new[last] = job
        /\ \A i \in 1..Len(list) : new[i] = list[i]
    BY <1>1, <2>1, AppendProperties
  <2>3. DOMAIN list = 1..Len(list) /\ Len(list) \in Nat
    OBVIOUS
  <2>4. last \in DOMAIN new /\ \A i \in DOMAIN list : i \in DOMAIN new /\ new[i] = list[i]
    BY <2>2, <2>3
  <2> HIDE DEF last
  <2>5. \A k \in 1..p : k = p \/ k \in 1..n
    OBVIOUS
  <2>6. AreKept(new, jobs, name, p)
    <3> SUFFICES ASSUME NEW k \in 1..p, jobs[k].inner = name
                 PROVE  \E i \in DOMAIN new : new[i] = jobs[k]
      BY DEF AreKept
    <3>1. CASE k = p
      BY <1>1, <2>2, <2>4, <3>1
    <3>2. CASE k \in 1..n
      <4>1. PICK i \in DOMAIN list : list[i] = jobs[k]
        BY <3>2 DEF AreKept
      <4> QED
        BY <2>4, <4>1
    <3> QED
      BY <2>5, <3>1, <3>2
  <2> QED
    BY <1>1, <2>2, <2>6 DEF new
<1> QED
  BY <1>2, <1>3

(* All the jobs of a set are kept *)
LEMMA BookedAreKept ==
  ASSUME NEW S, NEW jobs \in Seq(S), NEW name
  PROVE  \A k \in DOMAIN jobs : jobs[k].inner = name =>
           \E i \in DOMAIN Booked(jobs, name) : Booked(jobs, name)[i] = jobs[k]
<1> DEFINE c == Len(jobs)
           On(chosen, n) ==
             /\ Choosing(chosen, jobs, name, n)
             /\ chosen[n] \in Seq(S) /\ AreKept(chosen[n], jobs, name, n)
           T == {n \in Nat : n <= c => \E chosen : On(chosen, n)}
<1>1. c \in Nat /\ DOMAIN jobs = 1..c /\ c = Len(jobs) /\ \A k \in 1..c : jobs[k] \in S
  OBVIOUS
<1> HIDE DEF c, On
<1>2. 0 \in T
  <2> DEFINE chosen == [k \in {0} |-> <<>>]
             none == 0
  <2>1. chosen[none] = <<>> /\ chosen[none] \in Seq(S)
    OBVIOUS
  <2>2. AreKept(chosen[none], jobs, name, none)
    BY DEF AreKept
  <2>3. Choosing(chosen, jobs, name, none)
    BY DEF Choosing
  <2> HIDE DEF chosen
  <2>4. On(chosen, none)
    BY <2>1, <2>2, <2>3 DEF On
  <2> QED
    BY <2>4
<1>3. ASSUME NEW n \in Nat, n \in T
      PROVE  n + 1 \in T
  <2> SUFFICES ASSUME n + 1 <= c
               PROVE  \E chosen : On(chosen, n + 1)
    OBVIOUS
  <2> DEFINE p == n + 1
  <2>1. p = n + 1 /\ p \in 1..c /\ n <= c /\ n \in 0..n /\ p \in Nat
    BY <1>1
  <2> HIDE DEF p
  <2>2. PICK before : On(before, n)
    BY <1>3, <2>1
  <2>3. /\ Choosing(before, jobs, name, n)
        /\ before[n] \in Seq(S) /\ AreKept(before[n], jobs, name, n)
    BY <2>2 DEF On
  <2> DEFINE list == before[n]
             new == Kept(list, jobs[p], name)
             chosen == [k \in 0..p |-> IF k = p THEN new ELSE before[k]]
  <2>4. new \in Seq(S) /\ AreKept(new, jobs, name, p)
    <3>1. list \in Seq(S) /\ AreKept(list, jobs, name, n) /\ jobs[p] \in S
      BY <1>1, <2>1, <2>3
    <3> HIDE DEF list
    <3> QED
      BY <2>1, <3>1, KeptGrow
  <2>5. chosen[p] = new /\ \A k \in 0..n : chosen[k] = before[k]
    BY <2>1
  <2>6. new = Kept(before[n], jobs[p], name)
    OBVIOUS
  <2> HIDE DEF chosen, new, list
  <2>7. chosen[0] = <<>>
    <3>1. 0 \in 0..n
      OBVIOUS
    <3> QED
      BY <2>3, <2>5, <3>1 DEF Choosing
  <2>8. ASSUME NEW k \in 1..p
        PROVE  chosen[k] = Kept(chosen[k - 1], jobs[k], name)
    <3>1. CASE k = p
      <4>1. k - 1 = n /\ n \in 0..n
        BY <2>1, <3>1
      <4> QED
        BY <2>5, <2>6, <3>1, <4>1
    <3>2. CASE k # p
      <4>1. k \in 1..n /\ k \in 0..n /\ k - 1 \in 0..n
        BY <2>1, <3>2
      <4>2. before[k] = Kept(before[k - 1], jobs[k], name)
        BY <2>3, <4>1 DEF Choosing
      <4> QED
        BY <2>5, <4>1, <4>2
    <3> QED
      BY <3>1, <3>2
  <2>9. On(chosen, p)
    BY <2>4, <2>5, <2>7, <2>8 DEF On, Choosing
  <2> QED
    BY <2>1, <2>9
<1>4. PICK chosen : On(chosen, c)
  <2>1. Nat \subseteq T
    <3> HIDE DEF T
    <3> QED
      BY <1>2, <1>3, SetInduction
  <2> QED
    BY <1>1, <2>1
<1> HIDE DEF T
<1>5. Choosing(chosen, jobs, name, c) /\ AreKept(chosen[c], jobs, name, c)
  BY <1>4 DEF On
<1>6. Booked(jobs, name) = chosen[c]
  <2>1. Len(jobs) \in Nat /\ Choosing(chosen, jobs, name, Len(jobs))
    BY <1>1, <1>5
  <2>2. Booked(jobs, name) = chosen[Len(jobs)]
    BY <2>1, BookedIs
  <2> QED
    BY <1>1, <2>2
<1> QED
  BY <1>1, <1>5, <1>6 DEF AreKept

(* Path from the first id goes through a whole list of slots *)
LEMMA LinkedIsPartition ==
  ASSUME NEW slots, NEW b, NEW e, \E order : Linked(slots, order, b, e)
  PROVE  IsPartition(slots, b, e)
<1>1. PICK order : Linked(slots, order, b, e)
  OBVIOUS
<1>2. Len(slots) \in Nat \ {0} /\ DOMAIN slots = 1..Len(slots)
  BY <1>1, OrderTypes
<1>3. order[1] = 1 /\ order \in [DOMAIN slots -> DOMAIN slots]
  BY <1>1 DEF Linked, InOrder
<1>4. 1 \in DOMAIN slots /\ Len(slots) \in DOMAIN slots /\ 1 <= Len(slots)
  BY <1>2
<1> DEFINE last == Len(slots)
           right == 0
<1>5. /\ last \in DOMAIN slots /\ 1 <= last
      /\ right = order[last] \/ (right = 0 /\ last = Len(slots))
  BY <1>4
<1> HIDE DEF last, right
<1>6. Path(slots, order[1], right) = Ids(order, 1, last)
  BY <1>1, <1>4, <1>5, PathInOrder
<1>7. Ids(order, 1, last) = order
  <2>1. last \in Nat \ {0} /\ 1..last = DOMAIN slots
    BY <1>2 DEF last
  <2>2. 1..(last - 1 + 1) = DOMAIN slots
    BY <2>1
  <2>3. \A k \in 1..(last - 1 + 1) : order[1 + k - 1] = order[k]
    BY <2>1
  <2> QED
    BY <1>3, <2>2, <2>3 DEF Ids
<1>8. Path(slots, 1, 0) = order
  BY <1>3, <1>6, <1>7 DEF right
<1> QED
  BY <1>1, <1>8 DEF Linked, IsPartition

(* A set that has been loaded *)
IsLoaded(slots, base, jobs, b) ==
  /\ \E order : Linked(slots, order, b, MaxTime)
  /\ NoObstacle(slots) /\ NoMoreFree(base, slots)
  /\ \A k \in DOMAIN jobs : IsTaken(slots, jobs[k])

(* The slots of a set, before its jobs are put and after *)
Opened(schedule, name) ==
  IF name = "default" THEN SplitSlotsJobs(OneSlot(Resources, Now, MaxTime), schedule.leaving, TRUE)
  ELSE BookedContainer(CHOOSE c \in {job \in Range(schedule.booked) : job.container} : c.id = name)

Filled(schedule, name) ==
  SplitSlotsJobs(Opened(schedule, name).slots, Booked(schedule.booked, name), TRUE)

Names(schedule) ==
  {"default"} \cup {c.id : c \in {job \in Range(schedule.booked) : job.container}}

(* Loaded is made of these sets *)
LEMMA LoadedIs ==
  ASSUME NEW schedule
  PROVE  /\ DOMAIN Loaded(schedule).sets = Names(schedule)
         /\ \A name \in Names(schedule) :
              Loaded(schedule).sets[name].slots = Filled(schedule, name).slots
         /\ (\A name \in Names(schedule) : /\ ~ Opened(schedule, name).broken
                                           /\ ~ Filled(schedule, name).broken)
              => ~ Loaded(schedule).broken
<1> DEFINE names == Names(schedule)
           opened == [name \in names |-> Opened(schedule, name)]
           split == [name \in names |->
                       SplitSlotsJobs(opened[name].slots, Booked(schedule.booked, name), TRUE)]
           sets1 == [name \in DOMAIN split |-> [slots |-> split[name].slots, cache |-> NoCache]]
           broken1 == \E name \in DOMAIN split : split[name].broken \/ opened[name].broken
<1>1. Loaded(schedule) = [sets |-> sets1, broken |-> broken1]
  BY DEF Loaded, Opened, Names
<1>2. DOMAIN split = names /\ DOMAIN sets1 = names
  OBVIOUS
<1>3. \A name \in names : opened[name] = Opened(schedule, name)
  OBVIOUS
<1>4. \A name \in names : split[name] = Filled(schedule, name)
  BY <1>3 DEF Filled
<1>5. \A name \in names : sets1[name].slots = split[name].slots
  OBVIOUS
<1>6. Loaded(schedule).sets = sets1 /\ (Loaded(schedule).broken <=> broken1)
  <2> HIDE DEF sets1, broken1
  <2> QED
    BY <1>1
<1>7. names = Names(schedule)
  OBVIOUS
<1> HIDE DEF names, opened, split, sets1
<1> QED
  BY <1>2, <1>3, <1>4, <1>5, <1>6, <1>7

(* The jobs of a set are put among what is there *)
LEMMA FilledIs ==
  ASSUME NEW slots, NEW b \in Nat, \E order : Linked(slots, order, b, MaxTime),
         NoObstacle(slots), NEW jobs, InTurn(jobs, b),
         NEW new, new = SplitSlotsJobs(slots, jobs, TRUE)
  PROVE  IsLoaded(new.slots, slots, jobs, b) /\ ~ new.broken
  BY AllAreLoaded DEF IsLoaded

(* The slots of the default set: first what leaves, then the jobs of it *)
LEMMA DefaultIsLoaded ==
  ASSUME Table!Sizes, NEW schedule, IsInOrder(schedule)
  PROVE  /\ IsLoaded(Filled(schedule, "default").slots, Opened(schedule, "default").slots,
                     Booked(schedule.booked, "default"), Now)
         /\ ~ Filled(schedule, "default").broken /\ ~ Opened(schedule, "default").broken
<1> DEFINE name == "default"
           base == OneSlot(Resources, Now, MaxTime)
           opened == Opened(schedule, name)
           jobs == Booked(schedule.booked, name)
           filled == Filled(schedule, name)
<1>1. Now \in Nat /\ MaxTime \in Nat /\ Now <= MaxTime
  BY NowAssumption DEF Table!Sizes
<1>2. InTurn(schedule.leaving, Now) /\ InTurn(jobs, Now)
  BY DEF IsInOrder
<1>3. (\E order : Linked(base, order, Now, MaxTime)) /\ NoObstacle(base)
  <2> DEFINE res == Resources
  <2>1. res \in SUBSET Resources
    OBVIOUS
  <2>2. base = OneSlot(res, Now, MaxTime)
    OBVIOUS
  <2> HIDE DEF res, base
  <2> QED
    BY <1>1, <2>1, <2>2, OneSlotIs
<1>4. opened = SplitSlotsJobs(base, schedule.leaving, TRUE)
  BY DEF Opened
<1>5. filled = SplitSlotsJobs(opened.slots, jobs, TRUE)
  BY DEF Filled
<1> HIDE DEF base, opened, jobs, filled
<1>6. IsLoaded(opened.slots, base, schedule.leaving, Now) /\ ~ opened.broken
  BY <1>1, <1>2, <1>3, <1>4, FilledIs
<1> DEFINE slots == opened.slots
<1>7. (\E order : Linked(slots, order, Now, MaxTime)) /\ NoObstacle(slots)
  BY <1>6 DEF IsLoaded
<1>8. filled = SplitSlotsJobs(slots, jobs, TRUE)
  BY <1>5
<1>9. IsLoaded(filled.slots, slots, jobs, Now) /\ ~ filled.broken
  <2> HIDE DEF slots
  <2> QED
    BY <1>1, <1>2, <1>7, <1>8, FilledIs
<1> QED
  BY <1>6, <1>9 DEF opened, jobs, filled

(* Those of a container that is there: its resources, less its inner jobs *)
LEMMA ContainerIsLoaded ==
  ASSUME Table!Sizes, NEW schedule, IsInOrder(schedule),
         NEW c \in Range(schedule.booked), c.container
  PROVE  /\ IsLoaded(Filled(schedule, c.id).slots, Opened(schedule, c.id).slots,
                     Booked(schedule.booked, c.id), 1)
         /\ ~ Filled(schedule, c.id).broken /\ ~ Opened(schedule, c.id).broken
         /\ \A u \in Int : FreeAt(Filled(schedule, c.id).slots, u) # {} =>
              /\ c.start <= u /\ u < End(c)
              /\ FreeAt(Filled(schedule, c.id).slots, u) \subseteq c.res
<1> DEFINE name == c.id
           base == OneSlot({}, 1, MaxTime)
           opened == Opened(schedule, name)
           jobs == Booked(schedule.booked, name)
           filled == Filled(schedule, name)
           inside == [c EXCEPT !.start = Max({@, Now}), !.walltime = @ - Security]
<1>1. Now \in Nat /\ MaxTime \in Nat /\ Security \in Nat \ {0}
  BY NowAssumption DEF Table!Sizes
<1>2. /\ InTurn(jobs, 1) /\ c.id # "default"
      /\ c \in [id : {c.id}, start : Nat, walltime : Nat \ {0}, res : SUBSET Resources,
                container : BOOLEAN, inner : {c.inner}]
      /\ Now <= c.start /\ Security < c.walltime /\ End(c) <= MaxTime
      /\ \A job \in Range(schedule.booked) : job.id = c.id => job = c
  BY DEF IsInOrder
<1>a. c.start \in Nat /\ c.walltime \in Nat /\ c.res \subseteq Resources
  BY <1>2
<1>3. c = CHOOSE d \in {job \in Range(schedule.booked) : job.container} : d.id = name
  <2>1. c \in {job \in Range(schedule.booked) : job.container}
    OBVIOUS
  <2>2. \A d \in {job \in Range(schedule.booked) : job.container} : d.id = name <=> d = c
    BY <1>2
  <2> QED
    BY <2>1, <2>2
<1>4. opened = BookedContainer(c)
  BY <1>2, <1>3 DEF Opened
<1>5. opened = Given(base, inside)
  BY <1>4 DEF BookedContainer, Given
<1>6. filled = SplitSlotsJobs(opened.slots, jobs, TRUE)
  BY DEF Filled
<1>7. Max({c.start, Now}) = c.start
  <2>1. Max({c.start, Now}) = IF c.start >= Now THEN c.start ELSE Now
    BY <1>1, <1>a, MaxOfTwo
  <2> QED
    BY <1>1, <1>2, <1>a, <2>1
<1>8. inside.start = c.start /\ inside.walltime = c.walltime - Security /\ inside.res = c.res
  BY <1>2, <1>7
<1> HIDE DEF inside, base, opened, filled, jobs, name
<1>9. IsInside(inside) /\ End(inside) <= End(c)
  <2>1. inside.walltime \in Nat \ {0} /\ inside.walltime <= c.walltime
    BY <1>1, <1>2, <1>8, <1>a
  <2>2. End(inside) = c.start + (c.walltime - Security) /\ End(c) = c.start + c.walltime
    BY <1>8 DEF End
  <2>3. End(inside) <= End(c) /\ End(inside) <= MaxTime
    BY <1>1, <1>2, <1>a, <2>2
  <2> QED
    BY <1>8, <1>a, <2>1, <2>3 DEF IsInside
<1>10. IsEmpty(base)
  BY <1>1, OneSlotIsEmpty DEF base
<1>11. IsContainer(opened.slots, inside) /\ ~ opened.broken
  BY <1>1, <1>5, <1>9, <1>10, ContainerIs
<1> DEFINE slots == opened.slots
<1>12. (\E order : Linked(slots, order, 1, MaxTime)) /\ NoObstacle(slots)
  BY <1>11 DEF IsContainer
<1>13. IsLoaded(filled.slots, slots, jobs, 1) /\ ~ filled.broken
  <2> DEFINE one == 1
  <2>1. one \in Nat /\ InTurn(jobs, one) /\ (\E order : Linked(slots, order, one, MaxTime))
    BY <1>2, <1>12
  <2>2. filled = SplitSlotsJobs(slots, jobs, TRUE)
    BY <1>6
  <2> HIDE DEF one, slots
  <2>3. IsLoaded(filled.slots, slots, jobs, one) /\ ~ filled.broken
    BY <1>12, <2>1, <2>2, FilledIs
  <2> QED
    BY <2>3 DEF one
<1>14. ASSUME NEW u \in Int, FreeAt(filled.slots, u) # {}
       PROVE  c.start <= u /\ u < End(c) /\ FreeAt(filled.slots, u) \subseteq c.res
  <2>1. FreeAt(filled.slots, u) \subseteq FreeAt(slots, u)
    BY <1>13 DEF IsLoaded, NoMoreFree
  <2>2. FreeAt(slots, u) # {}
    BY <1>14, <2>1
  <2>3. inside.start <= u /\ u < End(inside) /\ FreeAt(slots, u) \subseteq inside.res
    BY <1>11, <2>2 DEF IsContainer
  <2>4. End(inside) \in Int /\ End(c) \in Int
    BY <1>1, <1>2, <1>8, <1>a DEF End
  <2> QED
    BY <1>8, <1>9, <2>1, <2>3, <2>4
<1> QED
  BY <1>11, <1>13, <1>14 DEF opened, jobs, filled, name

-----------------------------------------------------------------------------
(* The states of a round *)

(* The sets with which a round begins *)
LEMMA InitIsRound ==
  ASSUME Table!Sizes, Init
  PROVE  RoundInv /\ Table!Init
<1>1. PICK schedule \in Schedules : Begin(schedule)
  BY DEF Init
<1> DEFINE load == Loaded(schedule).sets
<1>2. sets = load /\ plan = NoCache /\ booked = Range(schedule.booked)
  BY <1>1 DEF Init, Begin
<1>3. raised \in {"none", "slots", "walltime", "set"}
  BY <1>1, SMTT(30) DEF Begin
<1>4. \A s \in DOMAIN sets : sets[s].cache = NoCache
  BY <1>1 DEF Begin, Loaded
<1>5. DOMAIN plan = {} /\ Planned = {}
  BY <1>2 DEF NoCache, Planned
<1>6. MaxTime \in Nat
  BY DEF Table!Sizes
<1>7. SoundLoad(schedule)
  BY LoadsAssumption
<1>8. \A s \in DOMAIN sets :
        /\ s \notin Jobs
        /\ sets[s].slots \in Seq(Slot) /\ sets[s].slots # <<>>
        /\ IsPartition(sets[s].slots, IF s = "default" THEN Now ELSE 1, MaxTime)
        /\ NoObstacle(sets[s].slots)
  BY <1>2, <1>7 DEF SoundLoad
<1>9. BookedInv
  BY <1>2, <1>7 DEF SoundLoad, BookedInv
<1> HIDE DEF load
<1>10. SetsInv
  <2> SUFFICES ASSUME NEW s \in DOMAIN sets
               PROVE  /\ SoundSlots(sets[s].slots, Span(s)[1], Span(s)[2])
                      /\ EarlyCache(sets[s])
    BY DEF SetsInv
  <2>1. EarlyCache(sets[s])
    BY <1>4 DEF EarlyCache, NoCache
  <2>2. Span(s)[1] = (IF s = "default" THEN Now ELSE 1) /\ Span(s)[2] = MaxTime
    BY <1>5 DEF Span
  <2>3. Linked(sets[s].slots, Path(sets[s].slots, 1, 0), Span(s)[1], Span(s)[2])
    BY <1>8, <2>2 DEF Linked, IsPartition
  <2> QED
    BY <1>6, <1>8, <2>1, <2>2, <2>3 DEF SoundSlots
<1>11. PlanInv
  BY <1>5, <1>8 DEF PlanInv
<1>12. ApartFromBooked /\ WithinBooked
  BY <1>5 DEF ApartFromBooked, WithinBooked
<1>13. Table!Init
  <2>1. DOMAIN Free = DOMAIN sets /\ DOMAIN Free \cap Jobs = {}
    BY <1>8, FreeIs
  <2>2. ASSUME NEW s \in DOMAIN sets
        PROVE  Free[s] \in [0..MaxTime -> SUBSET Resources]
    <3>1. \A t \in 0..MaxTime : FreeAt(sets[s].slots, t) \subseteq Resources
      BY <1>8, FreeTypes
    <3> QED
      BY <3>1, FreeIs
  <2> QED
    BY <1>2, <2>1, <2>2 DEF Table!Init, Table!Times, NoCache
<1> QED
  BY <1>3, <1>9, <1>10, <1>11, <1>12, <1>13 DEF RoundInv

(* The sets of slots are sound in all states of the invariant *)
LEMMA RoundIsSound ==
  ASSUME Table!Sizes, RoundInv
  PROVE  SlotsAreSound
<1>1. TypeOK
  <2>1. ASSUME NEW s \in DOMAIN sets
        PROVE  /\ sets[s].slots \in Seq(Slot)
               /\ \A r \in DOMAIN sets[s].cache : sets[s].cache[r] \in DOMAIN sets[s].slots
    <3>1. sets[s].slots \in Seq(Slot) /\ EarlyCache(sets[s])
      BY RoundTypes
    <3> QED
      BY <3>1 DEF EarlyCache
  <2> QED
    BY <2>1 DEF TypeOK, RoundInv, PlanInv
<1>2. ASSUME NEW s \in DOMAIN sets
      PROVE  IsPartition(sets[s].slots, Span(s)[1], Span(s)[2])
  <2>1. \E order : Linked(sets[s].slots, order, Span(s)[1], Span(s)[2])
    BY RoundTypes
  <2> QED
    BY <2>1, LinkedIsPartition
<1> QED
  BY <1>1, <1>2 DEF SlotsAreSound, SlotsPartitionTime

-----------------------------------------------------------------------------
(* The theorems of a round *)

(* A load whose jobs are in turn is sound and does not end the program: in *)
(* the set of each job none of its resources is free while it lasts, and a *)
(* container gives what it has, only while it is there                     *)
(* (set_slots_with_prev_scheduled_jobs, split_slots_jobs).                 *)
THEOREM InOrderLoadsAreSound ==
  ASSUME NEW schedule, IsInOrder(schedule)
  PROVE  SoundLoad(schedule) /\ ~ Loaded(schedule).broken
<1>1. Table!Sizes
  BY ConstantsAssumption
<1> DEFINE load == Loaded(schedule).sets
           names == Names(schedule)
<1>2. /\ DOMAIN load = names
      /\ \A name \in names : load[name].slots = Filled(schedule, name).slots
  BY LoadedIs
<1>3. ASSUME NEW name \in names
      PROVE  name = "default" \/ \E c \in Range(schedule.booked) : c.container /\ name = c.id
  BY DEF Names
<1>4. \A c \in Range(schedule.booked) :
        /\ c \in [id : {c.id}, start : Nat, walltime : Nat \ {0}, res : SUBSET Resources,
                  container : BOOLEAN, inner : {c.inner}]
        /\ c.id \notin Jobs \cup {"default"} /\ c.inner \notin Jobs
  BY DEF IsInOrder
<1>a. \A c \in Range(schedule.booked) : c.start \in Nat /\ c.walltime \in Nat \ {0}
  BY <1>4
<1>5. ASSUME NEW name \in names
      PROVE  /\ name \notin Jobs
             /\ IsLoaded(Filled(schedule, name).slots, Opened(schedule, name).slots,
                         Booked(schedule.booked, name), IF name = "default" THEN Now ELSE 1)
             /\ ~ Filled(schedule, name).broken /\ ~ Opened(schedule, name).broken
  <2>1. CASE name = "default"
    BY <1>1, <2>1, NamesAssumption, DefaultIsLoaded
  <2>2. CASE name # "default"
    <3>1. PICK c \in Range(schedule.booked) : c.container /\ name = c.id
      BY <1>3, <2>2
    <3>2. c.id \notin Jobs
      BY <1>4
    <3> QED
      BY <1>1, <2>2, <3>1, <3>2, ContainerIsLoaded
  <2> QED
    BY <2>1, <2>2
<1>6. ~ Loaded(schedule).broken
  BY <1>5, LoadedIs
<1> HIDE DEF load, names
<1>7. ASSUME NEW name \in DOMAIN load
      PROVE  /\ name \notin Jobs
             /\ load[name].slots \in Seq(Slot) /\ load[name].slots # <<>>
             /\ IsPartition(load[name].slots, IF name = "default" THEN Now ELSE 1, MaxTime)
             /\ NoObstacle(load[name].slots)
  <2> DEFINE b == IF name = "default" THEN Now ELSE 1
             slots == load[name].slots
  <2>1. name \in names /\ slots = Filled(schedule, name).slots
    BY <1>2
  <2>2. (\E order : Linked(slots, order, b, MaxTime)) /\ NoObstacle(slots) /\ name \notin Jobs
    BY <1>5, <2>1 DEF IsLoaded
  <2> HIDE DEF b, slots
  <2>3. IsPartition(slots, b, MaxTime)
    BY <2>2, LinkedIsPartition
  <2>4. slots \in Seq(Slot) /\ slots # <<>>
    BY <2>2 DEF Linked
  <2> QED
    BY <2>2, <2>3, <2>4 DEF b, slots
<1>8. ASSUME NEW job \in Range(schedule.booked), job.inner \in DOMAIN load,
             NEW t \in 0..MaxTime, job.start <= t, t < End(job)
      PROVE  job.res \cap FreeAt(load[job.inner].slots, t) = {}
  <2> DEFINE name == job.inner
             jobs == schedule.booked
             kept == Booked(jobs, name)
             slots == load[name].slots
  <2>1. name \in names /\ slots = Filled(schedule, name).slots
    BY <1>2, <1>8
  <2>2. \A k \in DOMAIN kept : IsTaken(slots, kept[k])
    BY <1>5, <2>1 DEF IsLoaded
  <2>3. jobs \in Seq(Range(jobs))
    BY DEF IsInOrder
  <2>4. PICK k \in DOMAIN jobs : jobs[k] = job
    BY <1>8 DEF Range
  <2>5. jobs[k].inner = name
    BY <2>4
  <2> DEFINE S == Range(jobs)
  <2>6. jobs \in Seq(S)
    BY <2>3
  <2> HIDE DEF S, jobs, name, kept, slots
  <2>7. \E i \in DOMAIN kept : kept[i] = jobs[k]
    BY <2>4, <2>5, <2>6, BookedAreKept DEF kept
  <2>8. IsTaken(slots, job)
    BY <2>2, <2>4, <2>7
  <2>9. t \in Int
    OBVIOUS
  <2> QED
    BY <1>8, <2>8, <2>9 DEF IsTaken, slots, name
<1>9. ASSUME NEW job \in Range(schedule.booked), job.id \in DOMAIN load,
             NEW t \in 0..MaxTime, FreeAt(load[job.id].slots, t) # {}
      PROVE  job.start <= t /\ t < End(job) /\ FreeAt(load[job.id].slots, t) \subseteq job.res
  <2>1. job.id \in names /\ load[job.id].slots = Filled(schedule, job.id).slots
    BY <1>2, <1>9
  <2>2. job.id # "default"
    BY <1>4
  <2>3. PICK c \in Range(schedule.booked) : c.container /\ job.id = c.id
    BY <1>3, <2>1, <2>2
  <2>4. job = c
    BY <2>3 DEF IsInOrder
  <2>5. t \in Int /\ FreeAt(Filled(schedule, job.id).slots, t) # {}
    BY <1>9, <2>1
  <2> QED
    BY <1>1, <2>1, <2>3, <2>4, <2>5, ContainerIsLoaded
<1>10. SoundLoad(schedule)
  <2>1. \A job \in Range(schedule.booked) : job.id \notin Jobs /\ job.inner \notin Jobs
    BY <1>4
  <2>2. \A job \in Range(schedule.booked) : job.start \in Int /\ job.walltime \in Nat \ {0}
    BY <1>a
  <2> QED
    BY <1>7, <1>8, <1>9, <2>1, <2>2 DEF SoundLoad, load
<1> QED
  BY <1>6, <1>10

(* Each step of a round is one of the table, or none that the table sees:  *)
(* a job has the first interval where its request is free all along, and   *)
(* no place only if there is none (assign_resources_mld_job_split_slots,   *)
(* find_first_suitable_contiguous_slots and split_slots).                  *)
THEOREM RoundImplementsTimetable == Spec => ImplementsTimetable
<1>1. Table!Sizes /\ Table!SoundRequests
  BY ConstantsAssumption
<1>2. Init => RoundInv /\ Table!Init
  BY <1>1, InitIsRound
<1>3. RoundInv /\ [Next]_vars => RoundInv' /\ [Table!Next]_<<Free, plan>>
  BY <1>1, NextKeepsRound
<1> QED
  BY <1>2, <1>3, PTL DEF Spec, ImplementsTimetable, Table!Spec

(* However slots are cut, they follow one another without gap nor overlap  *)
(* from the first date of the set to its last one, and the cache of a      *)
(* request names a slot that is there (split_slots, slot.py).              *)
THEOREM SlotsSound == Spec => []SlotsAreSound
<1>1. Table!Sizes /\ Table!SoundRequests
  BY ConstantsAssumption
<1>2. Init => RoundInv
  BY <1>1, InitIsRound
<1>3. RoundInv /\ [Next]_vars => RoundInv'
  BY <1>1, NextKeepsRound
<1>4. RoundInv => SlotsAreSound
  BY <1>1, RoundIsSound
<1> QED
  BY <1>2, <1>3, <1>4, PTL DEF Spec

(* No resource of a set is given to two jobs at the same time, be they     *)
(* there already or planned in the round (schedule_id_jobs_ct).            *)
THEOREM RoundNeverDoubleBooks == Spec => []NoDoubleBooking
<1>1. Table!Sizes /\ Table!SoundRequests
  BY ConstantsAssumption
<1>2. Init => RoundInv
  BY <1>1, InitIsRound
<1>3. RoundInv /\ [Next]_vars => RoundInv'
  BY <1>1, NextKeepsRound
<1>4. Table!Spec => []Promise
  BY <1>1, PromiseKept
<1>5. Spec => Table!Spec
  BY RoundImplementsTimetable DEF ImplementsTimetable
<1>6. RoundInv /\ Promise => NoDoubleBooking
  BY DEF RoundInv, ApartFromBooked, NoDoubleBooking, Promise
<1> QED
  BY <1>2, <1>3, <1>4, <1>5, <1>6, PTL DEF Spec

(* An inner job has its place in its container, new or there already, in   *)
(* time as in resources (schedule_id_jobs_ct).                             *)
THEOREM InnerJobsStayInside == Spec => []InnerWithinContainer
<1>1. Table!Sizes /\ Table!SoundRequests
  BY ConstantsAssumption
<1>2. Init => RoundInv
  BY <1>1, InitIsRound
<1>3. RoundInv /\ [Next]_vars => RoundInv'
  BY <1>1, NextKeepsRound
<1>4. Table!Spec => []Promise
  BY <1>1, PromiseKept
<1>5. Spec => Table!Spec
  BY RoundImplementsTimetable DEF ImplementsTimetable
<1>6. RoundInv /\ Promise => InnerWithinContainer
  BY DEF RoundInv, WithinBooked, InnerWithinContainer, Promise
<1> QED
  BY <1>2, <1>3, <1>4, <1>5, <1>6, PTL DEF Spec

=============================================================================
