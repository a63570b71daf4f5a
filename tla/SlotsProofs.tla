---------------------------- MODULE SlotsProofs ----------------------------
(***************************************************************************)
(* Proofs about kernel address space, for any number of threads, structs   *)
(* and sizes: what kinstall and kuninstall account for as long as no call  *)
(* uses a head of the list that has changed since it was read.             *)
(*                                                                         *)
(* A walk along the links is shown to meet the slots up to the first at    *)
(* which it may stop, by ascending address; the rest is about intervals.   *)
(***************************************************************************)
EXTENDS Slots, FiniteSetTheorems, WellFoundedInduction, TLAPS

Structs == [base : Nat, pages : Nat, next : Nodes \cup {NoSlot}]

End(r) == r.base + r.pages
Clear(r, q) == End(r) <= q.base \/ End(q) <= r.base

\* The structs sl of set A are a list from hd, by ascending address and without overlap.
Linked(sl, A, hd) ==
    /\ sl \in [Nodes -> Structs]
    /\ A \subseteq Nodes
    /\ hd \in A \cup {NoSlot}
    /\ hd = NoSlot => A = {}
    /\ \A s \in A :
          /\ sl[s].pages > 0
          /\ sl[hd].base <= sl[s].base
          /\ sl[s].next \in A \cup {NoSlot}
          /\ sl[s].next # NoSlot => sl[s].base < sl[sl[s].next].base
    /\ \A s, u \in A :
          /\ s # u => Clear(sl[s], sl[u])
          /\ sl[s].base < sl[u].base => sl[s].next # NoSlot /\ sl[sl[s].next].base <= sl[u].base

\* No slot ends where another begins.
NoneTouch(sl, A) == \A s, u \in A : End(sl[s]) # sl[u].base

Inside(r, a) == r.base <= a /\ a < End(r)

\* Address a is in a slot.
Open(sl, A, a) == \E s \in A : Inside(sl[s], a)

Types ==
    /\ slot \in [Nodes -> Structs]
    /\ empty_slot \in Nodes \cup {NoSlot}
    /\ virtual_pointer \in Nat
    /\ mapped \subseteq [base : Nat, pages : Counts, by : Callers]
    /\ call \in [Callers -> [slot : Nodes \cup {NoSlot}, pages : Counts] \cup {NoSlot}]

\* Of the address space that is used, every address is mapped once or in a slot.
Covered ==
    /\ \A r, q \in mapped : \A a \in Nat : Inside(r, a) /\ Inside(q, a) => r = q
    /\ \A a \in Nat :
          /\ Open(slot, allocated, a) => a < virtual_pointer /\ \A r \in mapped : ~Inside(r, a)
          /\ \A r \in mapped : Inside(r, a) => a < virtual_pointer
          /\ a < virtual_pointer => Open(slot, allocated, a) \/ \E r \in mapped : Inside(r, a)

SlotsInv ==
    /\ Types
    /\ Linked(slot, allocated, empty_slot)
    /\ NoneTouch(slot, allocated)
    /\ Covered

\* The head that a call searches from is still the head.
HeadFresh == \A t \in Callers : call[t] # NoSlot => call[t].slot \in {empty_slot, NoSlot}

-----------------------------------------------------------------------------
(* Slots in order                                                          *)

\* A set of numbers has a least element.
LEMMA LeastOf ==
    ASSUME NEW T \in SUBSET Nat, T # {}
    PROVE  \E x \in T : \A y \in T : x <= y
  <1> DEFINE R == OpToRel(<, Nat)
  <1>1. IsWellFoundedOn(R, Nat)
      BY NatLessThanWellFounded
  <1>2. \A x, y \in Nat : x < y => <<x, y>> \in R
      BY DEF OpToRel
  <1> HIDE DEF R
  <1>3. PICK x \in T : \A y \in T : ~(<<y, x>> \in R)
      BY <1>1, WFMin
  <1>4. ASSUME NEW y \in T PROVE x <= y
    <2>1. x \in Nat /\ y \in Nat
        OBVIOUS
    <2>2. ~(y < x)
        BY <1>2, <1>3, <2>1
    <2> QED
        BY <2>1, <2>2
  <1> QED
      BY <1>4

\* Some slots have a first one, and a last one when their addresses are bounded.
LEMMA LowestSlot ==
    ASSUME NEW sl \in [Nodes -> Structs], NEW S \in SUBSET Nodes, S # {}
    PROVE  \E s \in S : \A u \in S : sl[s].base <= sl[u].base
  <1> DEFINE T == {sl[s].base : s \in S}
  <1>1. \A s \in S : sl[s].base \in Nat
      BY DEF Structs
  <1>2. T \in SUBSET Nat /\ T # {}
      BY <1>1
  <1>3. PICK x \in T : \A y \in T : x <= y
      BY <1>2, LeastOf
  <1>4. PICK s \in S : x = sl[s].base
      BY <1>3
  <1> QED
      BY <1>3, <1>4

LEMMA HighestSlot ==
    ASSUME NEW sl \in [Nodes -> Structs], NEW S \in SUBSET Nodes, S # {},
           NEW b \in Nat, \A s \in S : sl[s].base <= b
    PROVE  \E s \in S : \A u \in S : sl[u].base <= sl[s].base
  <1> DEFINE T == {b - sl[s].base : s \in S}
  <1>1. \A s \in S : sl[s].base \in Nat /\ b - sl[s].base \in Nat
      BY DEF Structs
  <1>2. T \in SUBSET Nat /\ T # {}
      BY <1>1
  <1>3. PICK x \in T : \A y \in T : x <= y
      BY <1>2, LeastOf
  <1>4. PICK s \in S : x = b - sl[s].base
      BY <1>3
  <1>5. \A u \in S : b - sl[s].base <= b - sl[u].base
      BY <1>3, <1>4
  <1> QED
      BY <1>1, <1>5

\* Different slots begin at different addresses.
LEMMA BasesDiffer ==
    ASSUME NEW sl, NEW A, NEW hd, Linked(sl, A, hd), NEW s \in A, NEW u \in A
    PROVE  /\ sl[s].base \in Nat /\ sl[s].pages \in Nat \ {0} /\ s \in Nodes /\ s # NoSlot
           /\ s # u => sl[s].base # sl[u].base
  <1>1. /\ s \in Nodes /\ u \in Nodes
        /\ sl[s].base \in Nat /\ sl[u].base \in Nat
        /\ sl[s].pages \in Nat \ {0} /\ sl[u].pages \in Nat \ {0}
      BY DEF Linked, Structs
  <1>2. s # u => Clear(sl[s], sl[u])
      BY DEF Linked
  <1> QED
      BY <1>1, <1>2, SlotsAssumption DEF Clear, End

\* Every slot but the head is the next of one before it.
LEMMA HasPrevious ==
    ASSUME NEW sl, NEW A, NEW hd, Linked(sl, A, hd), NEW x \in A, x # hd
    PROVE  \E p \in A : sl[p].next = x /\ sl[p].base < sl[x].base
  <1> DEFINE S == {u \in A : sl[u].base < sl[x].base}
  <1>1. hd \in A /\ hd # NoSlot /\ sl[hd].base <= sl[x].base
      BY DEF Linked
  <1>2. \A u \in A : sl[u].base \in Nat
      BY BasesDiffer
  <1>3. hd \in S
      BY <1>1, <1>2, BasesDiffer
  <1>4. S \in SUBSET Nodes /\ sl \in [Nodes -> Structs]
      BY DEF Linked
  <1>5. sl[x].base \in Nat /\ \A u \in S : sl[u].base <= sl[x].base
      BY <1>2
  <1> HIDE DEF S
  <1>6. \E p \in S : \A u \in S : sl[u].base <= sl[p].base
      BY <1>5, <1>3, <1>4, HighestSlot
  <1> USE DEF S
  <1>7. PICK p \in S : \A u \in S : sl[u].base <= sl[p].base
      BY <1>6
  <1>8. sl[p].next \in A /\ sl[sl[p].next].base <= sl[x].base /\ sl[p].base < sl[sl[p].next].base
      BY <1>7 DEF Linked
  <1>9. sl[p].next \notin S
      BY <1>2, <1>7, <1>8
  <1>10. sl[sl[p].next].base = sl[x].base
      BY <1>2, <1>8, <1>9
  <1>11. sl[p].next = x
      BY <1>8, <1>10, BasesDiffer
  <1> QED
      BY <1>7, <1>11


-----------------------------------------------------------------------------
(* Walks                                                                   *)

\* The slots of A that a walk meets when it may stop at a slot of `stop`.
Passed(A, stop) ==
    {s \in A : \A u \in A \cap stop : slot[s].base <= slot[u].base}
      \cup {x \in {NoSlot} : A \cap stop = {}}

LEMMA PassedGoesOn ==
    ASSUME NEW A, NEW hd, Linked(slot, A, hd), NEW stop
    PROVE  GoesOn(Passed(A, stop), hd, stop)
  <1> DEFINE P == Passed(A, stop)
  <1>1. \A s \in A : slot[s].base \in Nat /\ s \in Nodes /\ s # NoSlot
      BY BasesDiffer
  <1>2. hd \in P
      BY DEF Linked, Passed
  <1>3. ASSUME NEW x \in P, ~Ends(x, stop) PROVE slot[x].next \in P
    <2>1. x \in A /\ x \notin stop
        BY <1>3 DEF Ends, Passed
    <2>2. \A u \in A \cap stop : slot[x].base < slot[u].base
        BY <1>1, <2>1, BasesDiffer DEF Passed
    <2>3. \A u \in A \cap stop : slot[x].next # NoSlot /\ slot[slot[x].next].base <= slot[u].base
        BY <2>1, <2>2 DEF Linked
    <2>4. slot[x].next \in A \cup {NoSlot}
        BY <2>1 DEF Linked
    <2>5. CASE slot[x].next = NoSlot
        BY <2>3, <2>5 DEF Passed
    <2>6. CASE slot[x].next # NoSlot
        BY <2>3, <2>4, <2>6 DEF Passed
    <2> QED
        BY <2>5, <2>6
  <1> QED
      BY <1>2, <1>3 DEF GoesOn

LEMMA PassedLeast ==
    ASSUME NEW A, NEW hd, Linked(slot, A, hd), NEW stop, NEW S, GoesOn(S, hd, stop),
           NEW b \in Nat, \A s \in A : slot[s].base <= b
    PROVE  Passed(A, stop) \subseteq S
  <1>1. \A s \in A : slot[s].base \in Nat /\ s \in Nodes /\ s # NoSlot
      BY BasesDiffer
  <1>2. slot \in [Nodes -> Structs] /\ A \subseteq Nodes
      BY DEF Linked
  <1> DEFINE bad == (A \cap Passed(A, stop)) \ S
  <1>3. bad = {}
    <2>1. SUFFICES ASSUME bad # {} PROVE FALSE
        OBVIOUS
    <2>2. bad \in SUBSET Nodes
        BY <1>2
    <2> HIDE DEF bad
    <2>3. PICK x \in bad : \A u \in bad : slot[x].base <= slot[u].base
        BY <1>2, <2>1, <2>2, LowestSlot
    <2> USE DEF bad
    <2>4. x \in A /\ x \notin S /\ x # hd /\ \A u \in A \cap stop : slot[x].base <= slot[u].base
        BY <1>1, <2>3 DEF GoesOn, Passed
    <2>5. PICK p \in A : slot[p].next = x /\ slot[p].base < slot[x].base
        BY <2>4, HasPrevious
    <2>6. p \in Passed(A, stop)
        BY <1>1, <2>4, <2>5 DEF Passed
    <2>7. p \notin stop
        BY <1>1, <2>4, <2>5
    <2>8. p \in S
        BY <1>1, <2>3, <2>5, <2>6
    <2> QED
        BY <1>1, <2>4, <2>5, <2>7, <2>8 DEF GoesOn, Ends
  <1>4. ASSUME A \cap stop = {} PROVE NoSlot \in S
    <2>1. CASE A = {}
        BY <2>1 DEF Linked, GoesOn
    <2>2. CASE A # {}
      <3>1. A \in SUBSET Nodes
          BY <1>2
      <3>2. PICK l \in A : \A u \in A : slot[u].base <= slot[l].base
          BY <1>2, <2>2, <3>1, HighestSlot
      <3>3. l \in S /\ l \notin stop
          BY <1>3, <1>4 DEF Passed
      <3>4. slot[l].next = NoSlot
          BY <1>1, <3>2 DEF Linked
      <3> QED
          BY <1>1, <3>3, <3>4 DEF GoesOn, Ends
    <2> QED
        BY <2>1, <2>2
  <1> QED
      BY <1>3, <1>4 DEF Passed

\* What a walk meets: the slots up to the first that it may stop at.
LEMMA WalkPassed ==
    ASSUME NEW A, NEW hd, Linked(slot, A, hd), NEW stop,
           NEW b \in Nat, \A s \in A : slot[s].base <= b
    PROVE  Walk(hd, stop) = Passed(A, stop)
  <1>1. Passed(A, stop) \in SUBSET (Nodes \cup {NoSlot})
      BY DEF Linked, Passed
  <1>2. GoesOn(Passed(A, stop), hd, stop)
      BY PassedGoesOn
  <1>3. \A S : GoesOn(S, hd, stop) => Passed(A, stop) \subseteq S
      BY PassedLeast
  <1>4. Walk(hd, stop) \subseteq Passed(A, stop)
      BY <1>1, <1>2 DEF Walk
  <1>5. Passed(A, stop) \subseteq Walk(hd, stop)
      BY <1>1, <1>3 DEF Walk
  <1> QED
      BY <1>4, <1>5

\* The loop finds the first slot it may stop at, or none.
LEMMA FoundFirst ==
    ASSUME NEW A, NEW hd, Linked(slot, A, hd), NEW stop,
           NEW b \in Nat, \A s \in A : slot[s].base <= b
    PROVE  /\ A \cap stop = {} => Found(hd, stop) = NoSlot
           /\ A \cap stop # {} => Found(hd, stop) \in A \cap stop
           /\ \A u \in A \cap stop : slot[Found(hd, stop)].base <= slot[u].base
  <1>1. Walk(hd, stop) = Passed(A, stop)
      BY WalkPassed
  <1>2. \A s \in A : slot[s].base \in Nat /\ s \in Nodes /\ s # NoSlot
      BY BasesDiffer
  <1>3. \E x \in Passed(A, stop) : Ends(x, stop)
    <2>1. CASE A \cap stop = {}
        BY <2>1 DEF Passed, Ends
    <2>2. CASE A \cap stop # {}
      <3> DEFINE S == A \cap stop
      <3>1. S \in SUBSET Nodes /\ S # {} /\ slot \in [Nodes -> Structs]
          BY <1>2, <2>2 DEF Linked
      <3> HIDE DEF S
      <3>2. PICK x \in S : \A u \in S : slot[x].base <= slot[u].base
          BY <3>1, LowestSlot
      <3> USE DEF S
      <3> QED
          BY <3>2 DEF Passed, Ends
    <2> QED
        BY <2>1, <2>2
  <1>4. Found(hd, stop) \in Passed(A, stop) /\ Ends(Found(hd, stop), stop)
      BY <1>1, <1>3 DEF Found
  <1> QED
      BY <1>2, <1>4 DEF Passed, Ends

\* The slot before it, if the head is not it.
LEMMA PreviousFirst ==
    ASSUME NEW A, NEW hd, Linked(slot, A, hd), NEW stop,
           NEW b \in Nat, \A s \in A : slot[s].base <= b
    PROVE  LET f == Found(hd, stop)
               p == Previous(hd, stop)
           IN  /\ p = NoSlot => f = hd
               /\ p # NoSlot => /\ p \in A \ stop /\ slot[p].next = f
                                /\ \A u \in A \cap stop : slot[p].base < slot[u].base
  <1> DEFINE f == Found(hd, stop)
             p == Previous(hd, stop)
  <1>1. Walk(hd, stop) = Passed(A, stop)
      BY WalkPassed
  <1>2. \A s \in A : slot[s].base \in Nat /\ s \in Nodes /\ s # NoSlot
      BY BasesDiffer
  <1>3. /\ A \cap stop = {} => f = NoSlot
        /\ A \cap stop # {} => f \in A \cap stop
        /\ \A u \in A \cap stop : slot[f].base <= slot[u].base
      BY FoundFirst
  <1>4. CASE Ends(hd, stop)
    <2>1. p = NoSlot
        BY <1>4 DEF Previous
    <2>2. CASE hd = NoSlot
        BY <1>3, <2>1, <2>2 DEF Linked
    <2>3. CASE hd # NoSlot
      <3>1. hd \in A \cap stop /\ f \in A
          BY <1>3, <1>4, <2>3 DEF Linked, Ends
      <3>2. slot[f].base <= slot[hd].base /\ slot[hd].base <= slot[f].base
          BY <1>3, <3>1 DEF Linked
      <3> QED
          BY <1>2, <2>1, <3>1, <3>2, BasesDiffer
    <2> QED
        BY <2>2, <2>3
  <1>5. CASE ~Ends(hd, stop)
    <2>1. hd \in A /\ hd \notin stop /\ A # {}
        BY <1>5 DEF Linked, Ends
    <2>2. \E x \in Passed(A, stop) : ~Ends(x, stop) /\ slot[x].next = f
      <3>1. CASE A \cap stop = {}
        <4>1. A \in SUBSET Nodes /\ slot \in [Nodes -> Structs]
            BY DEF Linked
        <4>2. PICK l \in A : \A u \in A : slot[u].base <= slot[l].base
            BY <2>1, <4>1, HighestSlot
        <4>3. slot[l].next = NoSlot
            BY <1>2, <4>2 DEF Linked
        <4> QED
            BY <1>2, <1>3, <3>1, <4>3 DEF Passed, Ends
      <3>2. CASE A \cap stop # {}
        <4>1. f \in A \cap stop /\ f # hd
            BY <1>3, <2>1, <3>2
        <4>2. PICK x \in A : slot[x].next = f /\ slot[x].base < slot[f].base
            BY <4>1, HasPrevious
        <4>3. \A u \in A \cap stop : slot[x].base < slot[u].base
            BY <1>2, <1>3, <4>1, <4>2
        <4> QED
            BY <1>2, <4>2, <4>3 DEF Passed, Ends
      <3> QED
          BY <3>1, <3>2
    <2>3. p \in Passed(A, stop) /\ ~Ends(p, stop) /\ slot[p].next = f
        BY <1>1, <1>5, <2>2 DEF Previous
    <2>4. p \in A \ stop /\ p # NoSlot
        BY <2>3 DEF Passed, Ends
    <2>5. \A u \in A \cap stop : slot[p].base < slot[u].base
        BY <1>2, <2>3, <2>4, BasesDiffer DEF Passed
    <2> QED
        BY <2>3, <2>4, <2>5
  <1> QED
      BY <1>4, <1>5

-----------------------------------------------------------------------------
(* Changes of the list                                                     *)

\* The numbers of a slot.
LEMMA SlotNumbers ==
    ASSUME NEW sl, NEW A, NEW hd, Linked(sl, A, hd)
    PROVE  \A s \in A :
              /\ s \in Nodes /\ s # NoSlot /\ sl[s] \in Structs
              /\ sl[s].base \in Nat /\ sl[s].pages \in Nat /\ sl[s].pages > 0
              /\ End(sl[s]) \in Nat /\ sl[s].base < End(sl[s])
              /\ sl[s].next # NoSlot => sl[s].next \in A /\ End(sl[s]) <= sl[sl[s].next].base
  <1> SUFFICES ASSUME NEW s \in A
               PROVE  /\ s \in Nodes /\ s # NoSlot /\ sl[s] \in Structs
                      /\ sl[s].base \in Nat /\ sl[s].pages \in Nat /\ sl[s].pages > 0
                      /\ End(sl[s]) \in Nat /\ sl[s].base < End(sl[s])
                      /\ sl[s].next # NoSlot =>
                            sl[s].next \in A /\ End(sl[s]) <= sl[sl[s].next].base
      OBVIOUS
  <1>1. s \in Nodes /\ s # NoSlot /\ sl[s] \in Structs /\ sl[s].pages > 0
      BY SlotsAssumption DEF Linked
  <1>2. sl[s].base \in Nat /\ sl[s].pages \in Nat
      BY <1>1 DEF Structs
  <1>3. ASSUME sl[s].next # NoSlot
        PROVE  sl[s].next \in A /\ End(sl[s]) <= sl[sl[s].next].base
    <2> DEFINE u == sl[s].next
    <2>1. u \in A /\ sl[s].base < sl[u].base
        BY <1>3 DEF Linked
    <2>2. sl[u].base \in Nat /\ sl[u].pages \in Nat
        BY <2>1 DEF Linked, Structs
    <2>3. Clear(sl[s], sl[u])
        BY <1>2, <2>1, <2>2 DEF Linked
    <2> QED
        BY <1>2, <2>1, <2>2, <2>3 DEF Clear, End
  <1> QED
      BY <1>1, <1>2, <1>3 DEF End

\* Only one slot is before another.
LEMMA OnePrevious ==
    ASSUME NEW sl, NEW A, NEW hd, Linked(sl, A, hd),
           NEW p \in A, NEW q \in A, sl[p].next # NoSlot, sl[p].next = sl[q].next
    PROVE  p = q
  <1>1. \A s \in A : sl[s].base \in Nat
      BY SlotNumbers
  <1>2. sl[p].next \in A /\ sl[p].base < sl[sl[p].next].base /\ sl[q].base < sl[sl[p].next].base
      BY DEF Linked
  <1>3. ~(sl[p].base < sl[q].base) /\ ~(sl[q].base < sl[p].base)
      BY <1>1, <1>2 DEF Linked
  <1>4. sl[p].base = sl[q].base
      BY <1>1, <1>3
  <1> QED
      BY <1>4, BasesDiffer

\* The head leaves the list.
LEMMA HeadLeaves ==
    ASSUME NEW sl, NEW A, NEW hd \in A, Linked(sl, A, hd)
    PROVE  Linked(sl, A \ {hd}, sl[hd].next)
  <1>1. \A s \in A : sl[s].base \in Nat
      BY SlotNumbers
  <1>2. \A s \in A : s # hd => sl[hd].base < sl[s].base
      BY <1>1, BasesDiffer DEF Linked
  <1>3. \A s \in A : s # hd => sl[hd].next # NoSlot /\ sl[sl[hd].next].base <= sl[s].base
      BY <1>2 DEF Linked
  <1>4. \A s \in A : sl[s].next # hd
      BY <1>1 DEF Linked
  <1> QED
      BY <1>1, <1>3, <1>4, SlotNumbers DEF Linked

\* Slot x leaves the list behind slot p.
LEMMA SlotLeaves ==
    ASSUME NEW sl, NEW A, NEW hd, Linked(sl, A, hd),
           NEW p \in A, NEW x \in A, sl[p].next = x,
           NEW new, new = [sl EXCEPT ![p].next = sl[x].next]
    PROVE  /\ Linked(new, A \ {x}, hd)
           /\ \A s \in Nodes : new[s].base = sl[s].base /\ new[s].pages = sl[s].pages
  <1>1. \A s \in A : sl[s].base \in Nat /\ s # NoSlot /\ s \in Nodes
      BY SlotNumbers
  <1>2. sl \in [Nodes -> Structs] /\ A \subseteq Nodes /\ sl[x].next \in A \cup {NoSlot}
      BY DEF Linked
  <1>3. /\ new \in [Nodes -> Structs]
        /\ \A s \in Nodes : /\ new[s].base = sl[s].base /\ new[s].pages = sl[s].pages
                            /\ new[s].next = IF s = p THEN sl[x].next ELSE sl[s].next
      BY <1>1, <1>2 DEF Structs
  <1>4. p # x /\ hd # x /\ hd \in A
      BY <1>1 DEF Linked
  <1>5. \A s \in A : s # p => sl[s].next # x
      BY <1>1, OnePrevious
  <1>6. sl[p].base < sl[x].base
      BY <1>1 DEF Linked
  <1>7. \A s \in A \ {x} : /\ new[s].next \in (A \ {x}) \cup {NoSlot}
                           /\ new[s].next # NoSlot => sl[s].base < sl[new[s].next].base
    <2> SUFFICES ASSUME NEW s \in A \ {x}
                 PROVE  /\ new[s].next \in (A \ {x}) \cup {NoSlot}
                        /\ new[s].next # NoSlot => sl[s].base < sl[new[s].next].base
        OBVIOUS
    <2>1. CASE s = p
      <3>1. new[s].next = sl[x].next /\ sl[x].next # x
          BY <1>1, <1>3, <2>1 DEF Linked
      <3>2. sl[x].next # NoSlot => sl[x].next \in A /\ sl[x].base < sl[sl[x].next].base
          BY DEF Linked
      <3> QED
          BY <1>1, <1>2, <1>6, <2>1, <3>1, <3>2
    <2>2. CASE s # p
        BY <1>1, <1>3, <1>5, <2>2 DEF Linked
    <2> QED
        BY <2>1, <2>2
  <1>8. \A s, u \in A \ {x} : sl[s].base < sl[u].base =>
            new[s].next # NoSlot /\ sl[new[s].next].base <= sl[u].base
    <2> SUFFICES ASSUME NEW s \in A \ {x}, NEW u \in A \ {x}, sl[s].base < sl[u].base
                 PROVE  new[s].next # NoSlot /\ sl[new[s].next].base <= sl[u].base
        OBVIOUS
    <2>1. CASE s = p
      <3>1. sl[x].base <= sl[u].base
          BY <2>1 DEF Linked
      <3>2. sl[x].base < sl[u].base
          BY <1>1, <3>1, BasesDiffer
      <3>3. sl[x].next # NoSlot /\ sl[sl[x].next].base <= sl[u].base
          BY <3>2 DEF Linked
      <3> QED
          BY <1>1, <1>3, <2>1, <3>3
    <2>2. CASE s # p
        BY <1>1, <1>3, <2>2 DEF Linked
    <2> QED
        BY <2>1, <2>2
  <1>9. \A s \in A \ {x} : new[s].next # NoSlot => new[new[s].next].base = sl[new[s].next].base
      BY <1>1, <1>3, <1>7
  <1>10. \A s, u \in A : s # u => Clear(new[s], new[u])
      BY <1>1, <1>3 DEF Linked, Clear, End
  <1>11. \A s \in A \ {x} : new[s].pages > 0 /\ new[hd].base <= new[s].base
      BY <1>1, <1>3, <1>4 DEF Linked
  <1>12. \A s, u \in A \ {x} : new[s].base < new[u].base =>
            new[s].next # NoSlot /\ new[new[s].next].base <= new[u].base
      BY <1>1, <1>3, <1>8, <1>9
  <1>13. \A s \in A \ {x} : new[s].next # NoSlot => new[s].base < new[new[s].next].base
      BY <1>1, <1>3, <1>7, <1>9
  <1>14. hd \in (A \ {x}) \cup {NoSlot} /\ (hd = NoSlot => A \ {x} = {})
      BY <1>1, <1>4
  <1> QED
      BY <1>2, <1>3, <1>7, <1>10, <1>11, <1>12, <1>13, <1>14 DEF Linked

\* Slot x loses its first n pages.
LEMMA SlotShrinks ==
    ASSUME NEW sl, NEW A, NEW hd, Linked(sl, A, hd), NEW x \in A,
           NEW n \in Nat, n < sl[x].pages,
           NEW new \in [Nodes -> Structs], \A s \in Nodes : s # x => new[s] = sl[s],
           new[x].base = sl[x].base + n, new[x].pages = sl[x].pages - n, new[x].next = sl[x].next
    PROVE  Linked(new, A, hd)
  <1>1. /\ \A s \in A : sl[s].base \in Nat /\ sl[s].pages \in Nat /\ sl[s].pages > 0
        /\ \A s \in A : s # NoSlot /\ s \in Nodes /\ sl[s].next \in A \cup {NoSlot}
        /\ sl \in [Nodes -> Structs] /\ A \subseteq Nodes
      BY SlotNumbers DEF Linked
  <1>2. \A s \in Nodes : new[s].next = sl[s].next
      OBVIOUS
  <1>3. \A s \in A : /\ End(new[s]) = End(sl[s]) /\ new[s].pages > 0 /\ new[s].base \in Nat
                     /\ new[s].base < End(sl[s]) /\ sl[s].base <= new[s].base
      BY <1>1, <1>2 DEF End
  <1>4. \A s, u \in A : s # u => Clear(new[s], new[u])
      BY <1>1, <1>2, <1>3 DEF Linked, Clear, End
  <1>5. \A s, u \in A : sl[s].base < sl[u].base <=> new[s].base < new[u].base
      BY <1>1, <1>2, <1>3 DEF Linked, Clear, End
  <1>6. \A s, u \in A : sl[s].base <= sl[u].base <=> new[s].base <= new[u].base
      BY <1>1, <1>3, <1>5
  <1>7. /\ hd \in A \cup {NoSlot} /\ (hd = NoSlot => A = {})
        /\ \A s \in A : new[hd].base <= new[s].base
      BY <1>6 DEF Linked
  <1>8. \A s \in A : new[s].next # NoSlot => new[s].base < new[new[s].next].base
      BY <1>1, <1>2, <1>5 DEF Linked
  <1>9. \A s, u \in A : new[s].base < new[u].base =>
            new[s].next # NoSlot /\ new[new[s].next].base <= new[u].base
    <2> SUFFICES ASSUME NEW s \in A, NEW u \in A, new[s].base < new[u].base
                 PROVE  new[s].next # NoSlot /\ new[new[s].next].base <= new[u].base
        OBVIOUS
    <2>1. sl[s].base < sl[u].base /\ new[s].next = sl[s].next
        BY <1>1, <1>2, <1>5
    <2>2. sl[s].next # NoSlot /\ sl[s].next \in A /\ sl[sl[s].next].base <= sl[u].base
        BY <1>1, <2>1 DEF Linked
    <2> QED
        BY <1>6, <2>1, <2>2
  <1> QED
      BY <1>1, <1>2, <1>3, <1>4, <1>7, <1>8, <1>9 DEF Linked

\* Struct r overlaps no slot of a list, and belongs behind prev and before now.
Place(sl, A, hd, r, prev, now) ==
    /\ r.base \in Nat /\ r.pages \in Nat /\ r.pages > 0
    /\ \A s \in A : Clear(r, sl[s])
    /\ now # NoSlot => now \in A /\ r.base <= sl[now].base
    /\ \A u \in A : r.base <= sl[u].base => now # NoSlot /\ sl[now].base <= sl[u].base
    /\ prev = NoSlot => now = hd
    /\ prev # NoSlot => prev \in A /\ sl[prev].base < r.base /\ sl[prev].next = now

\* The structs with struct n, that describes r, between prev and now.
Entered(sl, n, r, prev, now) ==
    LET one == [sl EXCEPT ![n] = [base |-> r.base, pages |-> r.pages, next |-> now]]
    IN  IF prev = NoSlot THEN one ELSE [one EXCEPT ![prev].next = n]

Merged(sl, A, s) == MergeSlots([slot |-> sl, allocated |-> A], s)

\* A new slot n goes into its place.
LEMMA SlotEnters ==
    ASSUME NEW sl, NEW A, NEW hd, NEW r, NEW prev, NEW now, Place(sl, A, hd, r, prev, now),
           Linked(sl, A, hd), NEW n, n \in Nodes, n \notin A
    PROVE  LET new == Entered(sl, n, r, prev, now)
               h == IF prev = NoSlot THEN n ELSE hd
           IN  /\ Linked(new, A \cup {n}, h)
               /\ \A s \in A : new[s].base = sl[s].base /\ new[s].pages = sl[s].pages
               /\ new[n].base = r.base /\ new[n].pages = r.pages
               /\ prev # NoSlot => new[prev].next = n
  <1> DEFINE one == [sl EXCEPT ![n] = [base |-> r.base, pages |-> r.pages, next |-> now]]
             new == Entered(sl, n, r, prev, now)
             h == IF prev = NoSlot THEN n ELSE hd
  <1> USE DEF Place
  <1>1. /\ \A s \in A : sl[s].base \in Nat /\ sl[s].pages \in Nat /\ sl[s].pages > 0
        /\ \A s \in A : s # NoSlot /\ s \in Nodes /\ sl[s].next \in A \cup {NoSlot}
        /\ sl \in [Nodes -> Structs] /\ A \subseteq Nodes
        /\ r.base \in Nat /\ r.pages \in Nat /\ r.pages > 0 /\ \A s \in A : Clear(r, sl[s])
      BY SlotNumbers DEF Linked
  <1>2. now \in Nodes \cup {NoSlot} /\ n # NoSlot /\ prev # n
      BY <1>1, SlotsAssumption DEF Linked
  <1>3. /\ one \in [Nodes -> Structs]
        /\ one[n].base = r.base /\ one[n].pages = r.pages /\ one[n].next = now
        /\ \A s \in Nodes : s # n => one[s] = sl[s]
      BY <1>1, <1>2 DEF Structs
  <1>4. /\ new \in [Nodes -> Structs]
        /\ new[n].base = r.base /\ new[n].pages = r.pages /\ new[n].next = now
        /\ \A s \in Nodes : s # n => new[s].base = sl[s].base /\ new[s].pages = sl[s].pages
        /\ \A s \in Nodes : s # n => new[s].next = IF s = prev THEN n ELSE sl[s].next
    <2>1. CASE prev = NoSlot
        BY <1>1, <1>2, <1>3, <2>1, SlotsAssumption DEF Entered
    <2>2. CASE prev # NoSlot
      <3>1. prev \in Nodes /\ prev # n /\ new = [one EXCEPT ![prev].next = n]
          BY <1>1, <1>2, <2>2 DEF Entered
      <3> HIDE DEF one, new
      <3> QED
          BY <1>2, <1>3, <3>1 DEF Structs
    <2> QED
        BY <2>1, <2>2
  <1> HIDE DEF Place, one, new
  <1>5. \A s \in A : s # n /\ new[s].base = sl[s].base /\ new[s].pages = sl[s].pages
      BY <1>1, <1>4
  <1>6. \A s, u \in A \cup {n} : s # u => Clear(new[s], new[u])
      BY <1>1, <1>4, <1>5 DEF Linked, Clear, End
  <1>7. /\ h \in A \cup {n} /\ h # NoSlot
        /\ \A s \in A \cup {n} : new[h].base <= new[s].base
    <2>1. CASE prev = NoSlot
      <3>1. h = n /\ now = hd
          BY <2>1 DEF Place
      <3>2. \A s \in A : r.base <= sl[s].base
          BY <1>1, <3>1 DEF Place, Linked
      <3>3. \A s \in A : new[h].base <= new[s].base
          BY <1>4, <1>5, <3>1, <3>2
      <3>4. new[h].base <= new[n].base
          BY <1>1, <1>4, <3>1
      <3> QED
          BY <1>2, <3>1, <3>3, <3>4
    <2>2. CASE prev # NoSlot
      <3>1. h = hd /\ hd \in A /\ sl[hd].base <= sl[prev].base /\ sl[prev].base < r.base
          BY <2>2 DEF Place, Linked
      <3>2. sl[hd].base <= r.base
          BY <1>1, <2>2, <3>1 DEF Place
      <3> QED
          BY <1>1, <1>4, <1>5, <3>1, <3>2 DEF Linked
    <2> QED
        BY <2>1, <2>2
  <1>8. \A s \in A \cup {n} : new[s].next \in (A \cup {n}) \cup {NoSlot}
      BY <1>1, <1>4 DEF Place
  <1>9. \A s \in A \cup {n} : new[s].next # NoSlot => new[s].base < new[new[s].next].base
    <2> SUFFICES ASSUME NEW s \in A \cup {n}, new[s].next # NoSlot
                 PROVE  new[s].base < new[new[s].next].base
        OBVIOUS
    <2>1. CASE s = n
      <3>1. now \in A /\ r.base <= sl[now].base /\ Clear(r, sl[now])
          BY <1>4, <2>1 DEF Place
      <3> QED
          BY <1>1, <1>4, <1>5, <2>1, <3>1 DEF Clear, End
    <2>2. CASE s # n /\ s = prev
      <3>1. s \in A /\ s # NoSlot /\ sl[s].base < r.base
          BY <1>1, <2>2 DEF Place
      <3>2. new[s].next = n /\ new[s].base < new[n].base
          BY <1>1, <1>4, <1>5, <2>2, <3>1
      <3> QED
          BY <3>2
    <2>3. CASE s # n /\ s # prev
      <3>1. s \in A /\ new[s].next = sl[s].next /\ sl[s].next \in A
          BY <1>1, <1>4, <2>3
      <3>2. sl[s].base < sl[sl[s].next].base
          BY <3>1, <1>1 DEF Linked
      <3> QED
          BY <1>5, <3>1, <3>2
    <2> QED
        BY <2>1, <2>2, <2>3
  <1>10. \A s, u \in A \cup {n} : new[s].base < new[u].base =>
            new[s].next # NoSlot /\ new[new[s].next].base <= new[u].base
    <2> SUFFICES ASSUME NEW s \in A \cup {n}, NEW u \in A \cup {n}, new[s].base < new[u].base
                 PROVE  new[s].next # NoSlot /\ new[new[s].next].base <= new[u].base
        OBVIOUS
    <2>1. CASE s = n
      <3>1. u \in A /\ r.base <= sl[u].base
          BY <1>1, <1>4, <1>5, <2>1
      <3>2. now # NoSlot /\ now \in A /\ sl[now].base <= sl[u].base
          BY <3>1 DEF Place
      <3> QED
          BY <1>1, <1>4, <1>5, <2>1, <3>2
    <2>2. CASE s # n /\ s = prev
      <3>1. s \in A /\ new[s].next = n /\ prev # NoSlot /\ sl[s].next = now
          BY <1>1, <1>4, <2>2 DEF Place
      <3>2. CASE u = n
        <4>1. new[new[s].next].base = new[u].base /\ new[u].base = r.base
            BY <1>4, <3>1, <3>2
        <4>2. new[s].next # NoSlot
            BY <1>2, <3>1
        <4> QED
            BY <1>1, <4>1, <4>2
      <3>3. CASE u # n
        <4>1. u \in A /\ sl[s].base < sl[u].base
            BY <1>5, <3>1, <3>3
        <4>2. now # NoSlot /\ now \in A /\ sl[now].base <= sl[u].base /\ r.base <= sl[now].base
            BY <3>1, <4>1 DEF Linked, Place
        <4>3. r.base <= sl[u].base
            BY <1>1, <4>1, <4>2
        <4> QED
            BY <1>2, <1>4, <1>5, <3>1, <4>1, <4>3
      <3> QED
          BY <3>2, <3>3
    <2>3. CASE s # n /\ s # prev
      <3>1. s \in A /\ new[s].next = sl[s].next
          BY <1>1, <1>4, <2>3
      <3>2. CASE u \in A
        <4>1. sl[s].base < sl[u].base
            BY <1>5, <3>1, <3>2
        <4>2. sl[s].next # NoSlot /\ sl[s].next \in A /\ sl[sl[s].next].base <= sl[u].base
            BY <1>1, <3>1, <3>2, <4>1 DEF Linked
        <4> QED
            BY <1>5, <3>1, <3>2, <4>2
      <3>3. CASE u = n
        <4>1. sl[s].base < r.base
            BY <1>4, <1>5, <3>1, <3>3
        <4>2. prev # NoSlot
            BY <1>1, <3>1, <4>1 DEF Place, Linked
        <4>3. prev \in A /\ sl[prev].base < r.base /\ sl[prev].next = now
            BY <4>2 DEF Place
        <4>4. ~(sl[prev].base < sl[s].base)
          <5> SUFFICES ASSUME sl[prev].base < sl[s].base PROVE FALSE
              OBVIOUS
          <5>1. now # NoSlot /\ now \in A /\ sl[now].base <= sl[s].base /\ r.base <= sl[now].base
              BY <3>1, <4>3 DEF Linked, Place
          <5> QED
              BY <1>1, <3>1, <4>1, <5>1
        <4>5. sl[s].base < sl[prev].base
            BY <1>1, <2>3, <3>1, <4>3, <4>4, BasesDiffer
        <4>6. sl[s].next # NoSlot /\ sl[s].next \in A /\ sl[sl[s].next].base <= sl[prev].base
            BY <1>1, <3>1, <4>3, <4>5 DEF Linked
        <4>7. sl[sl[s].next].base <= r.base
            BY <1>1, <4>3, <4>6
        <4> QED
            BY <1>4, <1>5, <3>1, <3>3, <4>6, <4>7
      <3> QED
          BY <3>2, <3>3
    <2> QED
        BY <2>1, <2>2, <2>3
  <1>11. \A s \in A \cup {n} : new[s].pages > 0
      BY <1>1, <1>4, <1>5
  <1>12. prev # NoSlot => new[prev].next = n
      BY <1>1, <1>2, <1>4 DEF Place
  <1>13. Linked(new, A \cup {n}, h)
      BY <1>1, <1>4, <1>6, <1>7, <1>8, <1>9, <1>10, <1>11 DEF Linked
  <1>14. \A s \in A : new[s].base = sl[s].base /\ new[s].pages = sl[s].pages
      BY <1>5
  <1> QED
      BY <1>4, <1>12, <1>13, <1>14 DEF new

\* _merge_free_slots on slot s: the list stays in order, no address is lost or gained,
\* and a slot that s touches is gone.
LEMMA SlotsMerge ==
    ASSUME NEW sl, NEW A, NEW hd, Linked(sl, A, hd), NEW s \in A
    PROVE  LET m == Merged(sl, A, s)
           IN  /\ Linked(m.slot, m.allocated, hd)
               /\ m.allocated \subseteq A
               /\ \A x \in A : sl[x].base <= sl[s].base => x \in m.allocated
               /\ \A x \in m.allocated : m.slot[x].base = sl[x].base
               /\ \A x \in m.allocated : x # s => m.slot[x] = sl[x]
               /\ \A a \in Nat : Open(m.slot, m.allocated, a) <=> Open(sl, A, a)
               /\ \A x, z \in m.allocated : End(m.slot[x]) = m.slot[z].base =>
                     \E w \in A \ {s} : End(sl[w]) = sl[z].base
  <1> DEFINE m == Merged(sl, A, s)
             y == sl[s].next
             touching == y # NoSlot /\ sl[s].base + sl[s].pages = sl[y].base
  <1>1. /\ \A x \in A : sl[x].base \in Nat /\ sl[x].pages \in Nat /\ sl[x].pages > 0
        /\ \A x \in A : x # NoSlot /\ x \in Nodes /\ sl[x].next \in A \cup {NoSlot}
        /\ \A x \in A : End(sl[x]) \in Nat
        /\ sl \in [Nodes -> Structs] /\ A \subseteq Nodes
      BY SlotNumbers DEF Linked
  <1>2. CASE ~touching
    <2>1. m.slot = sl /\ m.allocated = A
        BY <1>2 DEF Merged, MergeSlots
    <2>2. ASSUME NEW x \in A, NEW z \in A, End(sl[x]) = sl[z].base
          PROVE  x # s
      <3> SUFFICES ASSUME x = s PROVE FALSE
          OBVIOUS
      <3>1. sl[s].base < sl[z].base /\ sl[s].base + sl[s].pages = sl[z].base
          BY <1>1, <2>2 DEF End
      <3>2. y # NoSlot /\ y \in A /\ sl[y].base <= sl[z].base
          BY <1>1, <3>1 DEF Linked
      <3>3. End(sl[s]) <= sl[y].base
          BY <3>2, SlotNumbers
      <3> QED
          BY <1>1, <1>2, <3>1, <3>2, <3>3 DEF End
    <2> HIDE DEF m
    <2>3. /\ Linked(m.slot, m.allocated, hd)
          /\ m.allocated \subseteq A
          /\ \A x \in A : sl[x].base <= sl[s].base => x \in m.allocated
          /\ \A x \in m.allocated : m.slot[x].base = sl[x].base
          /\ \A x \in m.allocated : x # s => m.slot[x] = sl[x]
          /\ \A a \in Nat : Open(m.slot, m.allocated, a) <=> Open(sl, A, a)
          /\ \A x, z \in m.allocated : End(m.slot[x]) = m.slot[z].base =>
                \E w \in A \ {s} : End(sl[w]) = sl[z].base
        BY <2>1, <2>2
    <2> QED
        BY <2>3 DEF m
  <1>3. CASE touching
    <2> DEFINE new == m.slot
    <2>1. /\ new = [sl EXCEPT ![s].pages = @ + sl[y].pages, ![s].next = sl[y].next]
          /\ m.allocated = A \ {y}
        BY <1>3 DEF Merged, MergeSlots
    <2> HIDE DEF m
    <2> DEFINE cut == [sl EXCEPT ![s].next = sl[y].next]
    <2>2. y \in A /\ sl[s].next = y /\ y # s /\ sl[s].base < sl[y].base
        BY <1>1, <1>3 DEF Linked
    <2>3. /\ Linked(cut, A \ {y}, hd)
          /\ \A x \in Nodes : cut[x].base = sl[x].base /\ cut[x].pages = sl[x].pages
        BY <2>2, SlotLeaves
    <2>4. /\ new \in [Nodes -> Structs]
          /\ \A x \in Nodes : new[x].base = sl[x].base /\ new[x].next = cut[x].next
          /\ \A x \in Nodes : x # s => new[x] = sl[x]
          /\ new[s].pages = sl[s].pages + sl[y].pages
      <3>1. s \in Nodes /\ sl[s] \in Structs /\ y \in Nodes /\ sl[y] \in Structs
          BY <1>1, <2>2
      <3>2. sl[s].pages + sl[y].pages \in Nat /\ sl[y].next \in Nodes \cup {NoSlot}
          BY <3>1 DEF Structs
      <3> HIDE DEF y
      <3>3. cut \in [Nodes -> Structs] /\ cut[s].next = sl[y].next
          BY <1>1, <3>1, <3>2 DEF Structs
      <3>4. \A x \in Nodes : x # s => cut[x] = sl[x]
          BY <1>1
      <3> DEFINE more == [sl EXCEPT ![s].pages = @ + sl[y].pages]
      <3>5. /\ more \in [Nodes -> Structs]
            /\ more[s].base = sl[s].base /\ more[s].pages = sl[s].pages + sl[y].pages
            /\ \A x \in Nodes : x # s => more[x] = sl[x]
          BY <1>1, <3>1, <3>2 DEF Structs
      <3>6. new = [more EXCEPT ![s].next = sl[y].next]
          BY <1>1, <2>1, <3>1, <3>2 DEF Structs
      <3> HIDE DEF more, new, cut
      <3>7. /\ new \in [Nodes -> Structs]
            /\ new[s].base = more[s].base /\ new[s].next = sl[y].next
            /\ new[s].pages = more[s].pages
            /\ \A x \in Nodes : x # s => new[x] = more[x]
          BY <3>1, <3>2, <3>5, <3>6 DEF Structs
      <3> QED
          BY <3>1, <3>3, <3>4, <3>5, <3>7
    <2> HIDE DEF cut, new
    <2>5. End(new[s]) = End(sl[y]) /\ \A x \in A : x # s => End(new[x]) = End(sl[x])
        BY <1>1, <1>3, <2>4 DEF End
    <2>6. \A x \in A \ {y} : x # s => Clear(new[x], new[s]) /\ Clear(new[s], new[x])
      <3> SUFFICES ASSUME NEW x \in A \ {y}, x # s
                   PROVE  Clear(new[x], new[s]) /\ Clear(new[s], new[x])
          OBVIOUS
      <3>1. Clear(sl[x], sl[s]) /\ Clear(sl[x], sl[y])
          BY <2>2 DEF Linked
      <3> QED
          BY <1>1, <1>3, <2>2, <2>4, <2>5, <3>1 DEF Clear, End
    <2>7. Linked(new, A \ {y}, hd)
      <3>1. \A x, u \in A \ {y} : x # u => Clear(new[x], new[u])
          BY <1>1, <2>4, <2>6 DEF Linked
      <3>2. \A x \in A \ {y} : new[x].pages > 0
          BY <1>1, <2>2, <2>4
      <3>3. \A x \in A \ {y} : x \in Nodes /\ cut[x].next \in (A \ {y}) \cup {NoSlot}
          BY <1>1, <2>3 DEF Linked
      <3>4. \A x \in A \ {y} : cut[x].next # NoSlot => new[new[x].next].base = cut[cut[x].next].base
          BY <1>1, <2>3, <2>4, <3>3
      <3>5. hd \in (A \ {y}) \cup {NoSlot} /\ (hd = NoSlot => A \ {y} = {})
          BY <2>3 DEF Linked
      <3>6. \A x \in A \ {y} : new[hd].base <= new[x].base
          BY <1>1, <2>3, <2>4, <3>3, <3>5 DEF Linked
      <3>7. \A x \in A \ {y} :
              /\ new[x].next \in (A \ {y}) \cup {NoSlot}
              /\ new[x].next # NoSlot => new[x].base < new[new[x].next].base
          BY <2>3, <2>4, <3>3, <3>4 DEF Linked
      <3>8. \A x, u \in A \ {y} : new[x].base < new[u].base =>
              new[x].next # NoSlot /\ new[new[x].next].base <= new[u].base
          BY <2>3, <2>4, <3>3, <3>4 DEF Linked
      <3>9. A \ {y} \subseteq Nodes
          BY <1>1
      <3> QED
          BY <2>4, <3>1, <3>2, <3>5, <3>6, <3>7, <3>8, <3>9 DEF Linked
    <2>8. \A a \in Nat : Open(new, A \ {y}, a) <=> Open(sl, A, a)
      <3> SUFFICES ASSUME NEW a \in Nat PROVE Open(new, A \ {y}, a) <=> Open(sl, A, a)
          OBVIOUS
      <3>1. Inside(new[s], a) <=> Inside(sl[s], a) \/ Inside(sl[y], a)
          BY <1>1, <1>3, <2>2, <2>4, <2>5 DEF Inside, End
      <3>2. \A x \in A : x # s => (Inside(new[x], a) <=> Inside(sl[x], a))
          BY <1>1, <2>4
      <3> QED
          BY <2>2, <3>1, <3>2 DEF Open
    <2>9. \A x, z \in A \ {y} : End(new[x]) = new[z].base =>
              \E w \in A \ {s} : End(sl[w]) = sl[z].base
        BY <1>1, <2>2, <2>4, <2>5
    <2>10. \A x \in A : sl[x].base <= sl[s].base => x # y
        BY <1>1, <2>2
    <2>11. new = m.slot
        BY DEF new
    <2>12. \A x \in A : x \in m.allocated <=> x # y
        BY <2>1
    <2>13. \A x \in m.allocated : x \in Nodes /\ x \in A
        BY <1>1, <2>1
    <2> HIDE DEF y
    <2>14. Linked(m.slot, m.allocated, hd)
        BY <2>1, <2>7, <2>11
    <2>15. \A a \in Nat : Open(m.slot, m.allocated, a) <=> Open(sl, A, a)
        BY <2>1, <2>8, <2>11
    <2>16. \A x, z \in m.allocated : End(m.slot[x]) = m.slot[z].base =>
              \E w \in A \ {s} : End(sl[w]) = sl[z].base
        BY <2>1, <2>9, <2>11
    <2>17. \A x \in m.allocated :
              m.slot[x].base = sl[x].base /\ (x # s => m.slot[x] = sl[x])
        BY <2>4, <2>11, <2>13
    <2>18. \A x \in A : sl[x].base <= sl[s].base => x \in m.allocated
        BY <2>10, <2>12
    <2> QED
        BY <2>13, <2>14, <2>15, <2>16, <2>17, <2>18 DEF m
  <1> HIDE DEF touching
  <1> QED
      BY <1>2, <1>3

-----------------------------------------------------------------------------
(* The inductive invariant                                                 *)

LEMMA CountFacts == \A n \in Counts : n \in Nat /\ n > 0
  BY SlotsAssumption

LEMMA SlotsInitInv == SlotsInit => SlotsInv
  <1> SUFFICES ASSUME SlotsInit PROVE SlotsInv
      OBVIOUS
  <1> USE DEF SlotsInit
  <1>1. Types
      BY DEF Types, Structs
  <1>2. Linked(slot, allocated, empty_slot) /\ NoneTouch(slot, allocated)
      BY DEF Linked, NoneTouch, Structs
  <1>3. Covered
      BY DEF Covered, Open
  <1> QED
      BY <1>1, <1>2, <1>3 DEF SlotsInv

\* Every slot lies in the address space that is used.
LEMMA SlotsBelow ==
    ASSUME SlotsInv
    PROVE  \A s \in allocated : slot[s].base <= virtual_pointer
  <1> SUFFICES ASSUME NEW s \in allocated PROVE slot[s].base <= virtual_pointer
      OBVIOUS
  <1>1. slot[s].base \in Nat /\ slot[s].base < End(slot[s])
      BY SlotNumbers DEF SlotsInv
  <1>2. Open(slot, allocated, slot[s].base)
      BY <1>1 DEF Open, Inside
  <1>3. slot[s].base < virtual_pointer
      BY <1>1, <1>2 DEF SlotsInv, Covered
  <1> QED
      BY <1>1, <1>3 DEF SlotsInv, Types

\* A mapping and a slot are apart.
LEMMA MappedClear ==
    ASSUME SlotsInv, NEW r \in mapped, NEW s \in allocated
    PROVE  Clear(r, slot[s])
  <1> DEFINE q == slot[s]
  <1>0. r.base \in Nat /\ r.pages \in Counts
      BY DEF SlotsInv, Types
  <1>1. r.base \in Nat /\ r.pages \in Nat /\ r.pages > 0
      BY <1>0, CountFacts
  <1>2. q.base \in Nat /\ q.pages \in Nat /\ q.pages > 0
      BY SlotNumbers DEF SlotsInv
  <1>3. \A a \in Nat : Inside(q, a) => ~Inside(r, a)
      BY DEF SlotsInv, Covered, Open
  <1>4. ~(Inside(q, q.base) /\ Inside(r, q.base)) /\ ~(Inside(q, r.base) /\ Inside(r, r.base))
      BY <1>1, <1>2, <1>3
  <1> HIDE DEF q
  <1>5. ~(q.base < End(r) /\ r.base <= q.base) /\ ~(r.base < End(q) /\ q.base <= r.base)
      BY <1>1, <1>2, <1>4 DEF Inside, End
  <1>6. End(r) \in Nat /\ End(q) \in Nat
      BY <1>1, <1>2 DEF End
  <1>7. Clear(r, q)
      BY <1>1, <1>2, <1>5, <1>6 DEF Clear
  <1> QED
      BY <1>7 DEF q

\* Address space that was a slot is mapped.
LEMMA SpaceTaken ==
    ASSUME Covered, NEW r, mapped' = mapped \cup {r}, virtual_pointer' = virtual_pointer,
           \A a \in Nat : Open(slot', allocated', a) <=> Open(slot, allocated, a) /\ ~Inside(r, a),
           \A a \in Nat : Inside(r, a) => Open(slot, allocated, a)
    PROVE  Covered'
  <1>1. \A p, q \in mapped' : \A a \in Nat : Inside(p, a) /\ Inside(q, a) => p = q
      BY DEF Covered
  <1>2. ASSUME NEW a \in Nat
        PROVE  /\ Open(slot', allocated', a) =>
                    a < virtual_pointer' /\ \A q \in mapped' : ~Inside(q, a)
               /\ \A q \in mapped' : Inside(q, a) => a < virtual_pointer'
               /\ a < virtual_pointer' =>
                    Open(slot', allocated', a) \/ \E q \in mapped' : Inside(q, a)
      BY DEF Covered
  <1> QED
      BY <1>1, <1>2 DEF Covered, Open, Inside, End

\* Address space that was mapped is a slot.
LEMMA SpaceReturned ==
    ASSUME Covered, NEW r \in mapped, mapped' = mapped \ {r}, virtual_pointer' = virtual_pointer,
           \A a \in Nat : Open(slot', allocated', a) <=> Open(slot, allocated, a) \/ Inside(r, a)
    PROVE  Covered'
  <1>1. \A p, q \in mapped' : \A a \in Nat : Inside(p, a) /\ Inside(q, a) => p = q
      BY DEF Covered
  <1>2. ASSUME NEW a \in Nat
        PROVE  /\ Open(slot', allocated', a) =>
                    a < virtual_pointer' /\ \A q \in mapped' : ~Inside(q, a)
               /\ \A q \in mapped' : Inside(q, a) => a < virtual_pointer'
               /\ a < virtual_pointer' =>
                    Open(slot', allocated', a) \/ \E q \in mapped' : Inside(q, a)
      BY DEF Covered
  <1> QED
      BY <1>1, <1>2 DEF Covered, Open, Inside, End

LEMMA KinstallReadInv ==
    ASSUME SlotsInv, NEW t \in Callers, KinstallRead(t)
    PROVE  SlotsInv'
  <1> USE DEF SlotsInv, KinstallRead
  <1>1. Types'
      BY DEF Types
  <1>2. (Linked(slot, allocated, empty_slot) /\ NoneTouch(slot, allocated))'
      BY DEF Linked, NoneTouch, Clear, End
  <1>3. Covered'
      BY DEF Covered, Open, Inside, End
  <1> QED
      BY <1>1, <1>2, <1>3

LEMMA KinstallSlotInv ==
    ASSUME SlotsInv, HeadFresh, NEW t \in Callers, KinstallSlot(t)
    PROVE  SlotsInv'
  <1> DEFINE n == call[t].pages
             stop == LargeEnough(n)
             s == Found(empty_slot, stop)
             prev == Previous(empty_slot, stop)
             r == [base |-> slot[s].base, pages |-> n, by |-> t]
             A == allocated
  <1>1. call[t] # NoSlot /\ call[t].slot = empty_slot /\ n \in Counts /\ n \in Nat /\ n > 0
      BY SlotsAssumption DEF SlotsInv, Types, KinstallSlot, HeadFresh
  <1>2. Linked(slot, A, empty_slot) /\ virtual_pointer \in Nat
        /\ \A u \in A : slot[u].base <= virtual_pointer
      BY SlotsBelow DEF SlotsInv, Types
  <1>3. s # NoSlot
        /\ (A \cap stop = {} => s = NoSlot) /\ (A \cap stop # {} => s \in A \cap stop)
      BY <1>1, <1>2, FoundFirst DEF KinstallSlot
  <1>4. s \in A /\ slot[s].pages >= n
      BY <1>3 DEF LargeEnough
  <1>5. /\ prev = NoSlot => s = empty_slot
        /\ prev # NoSlot => prev \in A /\ slot[prev].next = s
      BY <1>2, PreviousFirst
  <1>6. /\ IF slot[s].pages = n
             THEN /\ allocated' = allocated \ {s}
                  /\ IF prev # NoSlot
                       THEN slot' = [slot EXCEPT ![prev].next = slot[s].next]
                            /\ empty_slot' = empty_slot
                       ELSE empty_slot' = slot[s].next /\ slot' = slot
             ELSE /\ slot' = [slot EXCEPT ![s].pages = @ - n, ![s].base = @ + n]
                  /\ allocated' = allocated /\ empty_slot' = empty_slot
        /\ mapped' = mapped \cup {r}
        /\ call' = [call EXCEPT ![t] = NoSlot]
        /\ virtual_pointer' = virtual_pointer
      BY <1>1 DEF KinstallSlot
  <1> HIDE DEF n, stop, s, prev
  <1>7. \A u \in A : /\ slot[u].base \in Nat /\ slot[u].pages \in Nat /\ slot[u].pages > 0
                     /\ u \in Nodes /\ End(slot[u]) \in Nat
      BY <1>2, SlotNumbers
  <1>8. /\ Linked(slot', allocated', empty_slot')
        /\ NoneTouch(slot', allocated')
        /\ \A a \in Nat : Open(slot', allocated', a) <=> Open(slot, allocated, a) /\ ~Inside(r, a)
    <2>1. CASE slot[s].pages = n
      <3>1. allocated' = A \ {s} /\ Linked(slot', allocated', empty_slot')
            /\ \A u \in Nodes : slot'[u].base = slot[u].base /\ slot'[u].pages = slot[u].pages
        <4>1. CASE prev = NoSlot
            BY <1>2, <1>4, <1>5, <1>6, <2>1, <4>1, HeadLeaves
        <4>2. CASE prev # NoSlot
          <5> DEFINE new == [slot EXCEPT ![prev].next = slot[s].next]
          <5>1. slot' = new /\ allocated' = A \ {s} /\ empty_slot' = empty_slot
              BY <1>6, <2>1, <4>2
          <5>2. prev \in A /\ slot[prev].next = s
              BY <1>5, <4>2
          <5>3. /\ Linked(new, A \ {s}, empty_slot)
                /\ \A u \in Nodes : new[u].base = slot[u].base /\ new[u].pages = slot[u].pages
              BY <1>2, <1>4, <5>2, SlotLeaves
          <5> HIDE DEF new
          <5> QED
              BY <5>1, <5>3
        <4> QED
            BY <4>1, <4>2
      <3>2. \A u \in A : End(slot'[u]) = End(slot[u]) /\ slot'[u].base = slot[u].base
          BY <1>7, <3>1 DEF End
      <3>3. NoneTouch(slot', allocated')
          BY <3>1, <3>2 DEF SlotsInv, NoneTouch
      <3>4. ASSUME NEW a \in Nat
            PROVE  Open(slot', allocated', a) <=> Open(slot, allocated, a) /\ ~Inside(r, a)
        <4>1. \A u \in A : Inside(slot'[u], a) <=> Inside(slot[u], a)
            BY <3>2 DEF Inside
        <4>2. Inside(r, a) <=> Inside(slot[s], a)
            BY <2>1 DEF Inside, End
        <4>3. \A u \in A : u # s => ~(Inside(slot[u], a) /\ Inside(slot[s], a))
            BY <1>2, <1>4, <1>7 DEF Linked, Clear, Inside
        <4> QED
            BY <1>4, <3>1, <4>1, <4>2, <4>3 DEF Open
      <3> QED
          BY <3>1, <3>3, <3>4
    <2>2. CASE slot[s].pages # n
      <3> DEFINE new == [slot EXCEPT ![s].pages = @ - n, ![s].base = @ + n]
      <3>0. slot' = new
          BY <1>6, <2>2
      <3>1. allocated' = A /\ empty_slot' = empty_slot /\ n < slot[s].pages
          BY <1>1, <1>4, <1>6, <1>7, <2>2
      <3>2. /\ Linked(slot', A, empty_slot)
            /\ \A u \in Nodes : u # s => slot'[u] = slot[u]
            /\ slot'[s].base = slot[s].base + n /\ slot'[s].pages = slot[s].pages - n
        <4>1. slot \in [Nodes -> Structs] /\ s \in Nodes /\ slot[s] \in Structs
            BY <1>4, <1>7 DEF SlotsInv, Types
        <4>2. slot[s].base + n \in Nat /\ slot[s].pages - n \in Nat
            BY <1>1, <1>4, <1>7, <3>1
        <4>3. /\ new \in [Nodes -> Structs]
              /\ \A u \in Nodes : u # s => new[u] = slot[u]
              /\ new[s].base = slot[s].base + n /\ new[s].pages = slot[s].pages - n
              /\ new[s].next = slot[s].next
            BY <4>1, <4>2 DEF Structs
        <4> HIDE DEF new
        <4>4. Linked(new, A, empty_slot)
            BY <1>1, <1>2, <1>4, <3>1, <4>3, SlotShrinks
        <4> QED
            BY <3>0, <4>3, <4>4
      <3>3. \A u \in A : End(slot'[u]) = End(slot[u]) /\ (u # s => slot'[u] = slot[u])
          BY <1>1, <1>4, <1>7, <3>2 DEF End
      <3>4. ASSUME NEW u \in A PROVE End(slot[u]) # slot[s].base + n
        <4>1. CASE u = s
            BY <1>1, <1>4, <1>7, <3>1, <4>1 DEF End
        <4>2. CASE u # s
          <5>1. Clear(slot[u], slot[s])
              BY <1>2, <1>4, <4>2 DEF Linked
          <5> QED
              BY <1>1, <1>4, <1>7, <3>1, <5>1 DEF Clear, End
        <4> QED
            BY <4>1, <4>2
      <3>5. NoneTouch(slot', allocated')
          BY <3>1, <3>2, <3>3, <3>4 DEF SlotsInv, NoneTouch
      <3>6. ASSUME NEW a \in Nat
            PROVE  Open(slot', allocated', a) <=> Open(slot, allocated, a) /\ ~Inside(r, a)
        <4>1. Inside(slot'[s], a) <=> Inside(slot[s], a) /\ ~Inside(r, a)
            BY <1>1, <1>4, <1>7, <3>1, <3>2 DEF Inside, End
        <4>2. \A u \in A : u # s => (Inside(slot'[u], a) <=> Inside(slot[u], a))
            BY <3>3
        <4>3. \A u \in A : u # s => ~(Inside(slot[u], a) /\ Inside(slot[s], a))
            BY <1>2, <1>4, <1>7 DEF Linked, Clear, Inside
        <4>4. Inside(r, a) => Inside(slot[s], a)
            BY <1>1, <1>4, <1>7, <3>1 DEF Inside, End
        <4> QED
            BY <1>4, <3>1, <4>1, <4>2, <4>3, <4>4 DEF Open
      <3> QED
          BY <3>1, <3>2, <3>5, <3>6
    <2> QED
        BY <2>1, <2>2
  <1>9. \A a \in Nat : Inside(r, a) => Open(slot, allocated, a)
    <2>1. \A a \in Nat : Inside(r, a) => Inside(slot[s], a)
        BY <1>1, <1>4, <1>7 DEF Inside, End
    <2> QED
        BY <1>4, <2>1 DEF Open
  <1>10. Covered'
      BY <1>6, <1>8, <1>9, SpaceTaken DEF SlotsInv
  <1>11. Types'
    <2>1. r \in [base : Nat, pages : Counts, by : Callers]
        BY <1>1, <1>4, <1>7
    <2>2. slot' \in [Nodes -> Structs] /\ empty_slot' \in Nodes \cup {NoSlot}
        BY <1>8 DEF Linked
    <2> HIDE DEF r
    <2> QED
        BY <1>6, <2>1, <2>2 DEF SlotsInv, Types
  <1> QED
      BY <1>8, <1>10, <1>11 DEF SlotsInv

LEMMA KinstallSearchedInv ==
    ASSUME SlotsInv, NEW t \in Callers, KinstallSearched(t)
    PROVE  SlotsInv'
  <1>1. /\ slot' = slot /\ empty_slot' = empty_slot /\ allocated' = allocated
        /\ virtual_pointer' = virtual_pointer /\ mapped' = mapped
        /\ call[t] # NoSlot /\ call' = [call EXCEPT ![t].slot = NoSlot]
      BY DEF KinstallSearched
  <1>2. Types'
    <2>1. call[t] \in [slot : Nodes \cup {NoSlot}, pages : Counts]
        BY <1>1 DEF SlotsInv, Types
    <2>2. [call[t] EXCEPT !.slot = NoSlot] \in [slot : Nodes \cup {NoSlot}, pages : Counts]
        BY <2>1
    <2> QED
        BY <1>1, <2>2 DEF SlotsInv, Types
  <1> QED
      BY <1>1, <1>2 DEF SlotsInv, Linked, NoneTouch, Covered, Open, Inside, Clear, End

LEMMA KinstallAppendInv ==
    ASSUME SlotsInv, NEW t \in Callers, KinstallAppend(t)
    PROVE  SlotsInv'
  <1> DEFINE n == call[t].pages
             r == [base |-> virtual_pointer, pages |-> n, by |-> t]
  <1>0. call[t] # NoSlot /\ n \in Counts /\ virtual_pointer \in Nat
      BY DEF SlotsInv, Types, KinstallAppend
  <1>1. n \in Counts /\ n \in Nat /\ n > 0 /\ virtual_pointer \in Nat
      BY <1>0, CountFacts
  <1>2. /\ mapped' = mapped \cup {r} /\ virtual_pointer' = virtual_pointer + n
        /\ call' = [call EXCEPT ![t] = NoSlot]
        /\ slot' = slot /\ empty_slot' = empty_slot /\ allocated' = allocated
      BY DEF KinstallAppend
  <1>3. r \in [base : Nat, pages : Counts, by : Callers]
        /\ r.base = virtual_pointer /\ r.pages = n
      BY <1>1
  <1> HIDE DEF n, r
  <1>4. Types'
      BY <1>1, <1>2, <1>3 DEF SlotsInv, Types
  <1>5. (Linked(slot, allocated, empty_slot) /\ NoneTouch(slot, allocated))'
      BY <1>2 DEF SlotsInv, Linked, NoneTouch, Clear, End
  <1>6. \A a \in Nat : Inside(r, a) <=> virtual_pointer <= a /\ a < virtual_pointer'
      BY <1>1, <1>2, <1>3 DEF Inside, End
  <1>7. \A a \in Nat : \A q \in mapped : Inside(q, a) => a < virtual_pointer
      BY DEF SlotsInv, Covered
  <1>8. \A a \in Nat : Open(slot', allocated', a) <=> Open(slot, allocated, a)
      BY <1>2
  <1>9. \A p, q \in mapped' : \A a \in Nat : Inside(p, a) /\ Inside(q, a) => p = q
    <2>1. \A q \in mapped : \A a \in Nat : ~(Inside(q, a) /\ Inside(r, a))
        BY <1>1, <1>6, <1>7
    <2>2. \A p, q \in mapped : \A a \in Nat : Inside(p, a) /\ Inside(q, a) => p = q
        BY DEF SlotsInv, Covered
    <2> QED
        BY <1>2, <2>1, <2>2
  <1>10. ASSUME NEW a \in Nat
         PROVE  /\ Open(slot', allocated', a) =>
                     a < virtual_pointer' /\ \A q \in mapped' : ~Inside(q, a)
                /\ \A q \in mapped' : Inside(q, a) => a < virtual_pointer'
                /\ a < virtual_pointer' =>
                     Open(slot', allocated', a) \/ \E q \in mapped' : Inside(q, a)
    <2>1. /\ Open(slot, allocated, a) => a < virtual_pointer /\ \A q \in mapped : ~Inside(q, a)
          /\ \A q \in mapped : Inside(q, a) => a < virtual_pointer
          /\ a < virtual_pointer => Open(slot, allocated, a) \/ \E q \in mapped : Inside(q, a)
        BY DEF SlotsInv, Covered
    <2> QED
        BY <1>1, <1>2, <1>6, <1>8, <2>1
  <1>11. Covered'
      BY <1>9, <1>10 DEF Covered, Open, Inside, End
  <1> QED
      BY <1>4, <1>5, <1>11 DEF SlotsInv

LEMMA KuninstallInv ==
    ASSUME SlotsInv, NEW t \in Callers, Kuninstall(t)
    PROVE  SlotsInv'
  <1> DEFINE A == allocated
  <1>1. PICK r \in mapped, n \in Nodes \ allocated :
            LET now == Found(empty_slot, NotBelow(r.base))
                prev == Previous(empty_slot, NotBelow(r.base))
                new == [slot EXCEPT ![n] = [base |-> r.base, pages |-> r.pages, next |-> now]]
                linked == IF prev = NoSlot THEN new ELSE [new EXCEPT ![prev].next = n]
                one == MergeSlots([slot |-> linked, allocated |-> allocated \cup {n}], n)
                two == IF prev = NoSlot THEN one ELSE MergeSlots(one, prev)
            IN  /\ call[t] = NoSlot
                /\ r.by = t
                /\ slot' = two.slot
                /\ allocated' = two.allocated
                /\ empty_slot' = IF prev = NoSlot THEN n ELSE empty_slot
                /\ mapped' = mapped \ {r}
                /\ UNCHANGED <<virtual_pointer, call>>
      BY Zenon DEF Kuninstall
  <1> USE DEF Entered, Merged
  <1> DEFINE stop == NotBelow(r.base)
             now == Found(empty_slot, stop)
             prev == Previous(empty_slot, stop)
             linked == Entered(slot, n, r, prev, now)
             B == A \cup {n}
             hd == IF prev = NoSlot THEN n ELSE empty_slot
             one == Merged(linked, B, n)
             two == IF prev = NoSlot THEN one ELSE MergeSlots(one, prev)
  <1>2. /\ slot' = two.slot /\ allocated' = two.allocated /\ empty_slot' = hd
        /\ mapped' = mapped \ {r} /\ virtual_pointer' = virtual_pointer /\ call' = call
      BY <1>1
  <1>3. r \in mapped /\ n \in Nodes /\ n \notin A
      BY <1>1
  <1> HIDE <1>1
  <1> HIDE DEF Entered, Merged
  <1>4. r.base \in Nat /\ r.pages \in Nat /\ r.pages > 0
    <2>1. r.base \in Nat /\ r.pages \in Counts
        BY <1>3 DEF SlotsInv, Types
    <2> QED
        BY <2>1, CountFacts
  <1>5. Linked(slot, A, empty_slot) /\ virtual_pointer \in Nat
        /\ \A u \in A : slot[u].base <= virtual_pointer
      BY SlotsBelow DEF SlotsInv, Types
  <1>6. \A u \in A : u \in Nodes /\ u # NoSlot /\ slot[u].base \in Nat /\ End(slot[u]) \in Nat
      BY <1>5, SlotNumbers
  <1>7. \A u \in A : u \in stop <=> r.base <= slot[u].base
      BY <1>4, <1>6 DEF NotBelow
  <1>8. \A u \in A : Clear(r, slot[u])
      BY <1>3, MappedClear
  <1>9. Place(slot, A, empty_slot, r, prev, now)
    <2> HIDE DEF stop
    <2>1. /\ A \cap stop = {} => now = NoSlot
          /\ A \cap stop # {} => now \in A \cap stop
          /\ \A u \in A \cap stop : slot[now].base <= slot[u].base
        BY <1>5, FoundFirst
    <2>2. /\ prev = NoSlot => now = empty_slot
          /\ prev # NoSlot => prev \in A \ stop /\ slot[prev].next = now
        BY <1>5, PreviousFirst
    <2> HIDE DEF now, prev
    <2>3. now # NoSlot => now \in A /\ r.base <= slot[now].base
        BY <1>7, <2>1
    <2>4. \A u \in A : r.base <= slot[u].base => now # NoSlot /\ slot[now].base <= slot[u].base
        BY <1>6, <1>7, <2>1
    <2>5. prev # NoSlot => prev \in A /\ slot[prev].base < r.base /\ slot[prev].next = now
        BY <1>4, <1>6, <1>7, <2>2
    <2> QED
        BY <1>4, <1>8, <2>2, <2>3, <2>4, <2>5 DEF Place
  <1> HIDE DEF stop, now, prev
  <1>10. /\ Linked(linked, B, hd)
         /\ \A u \in A : linked[u].base = slot[u].base /\ linked[u].pages = slot[u].pages
         /\ linked[n].base = r.base /\ linked[n].pages = r.pages
         /\ prev # NoSlot => linked[prev].next = n
      BY <1>3, <1>5, <1>9, SlotEnters
  <1>11. prev # NoSlot => prev \in A /\ slot[prev].base < r.base
      BY <1>9 DEF Place
  <1> HIDE DEF linked
  <1>12. End(linked[n]) = End(r) /\ \A u \in A : End(linked[u]) = End(slot[u])
      BY <1>10 DEF End
  <1>13. \A a \in Nat : Open(linked, B, a) <=> Open(slot, A, a) \/ Inside(r, a)
    <2>1. \A a \in Nat : Inside(linked[n], a) <=> Inside(r, a)
        BY <1>10, <1>12 DEF Inside
    <2>2. \A u \in A : \A a \in Nat : Inside(linked[u], a) <=> Inside(slot[u], a)
        BY <1>10, <1>12 DEF Inside
    <2> QED
        BY <2>1, <2>2 DEF Open
  <1>14. \A x, z \in A : End(linked[x]) # linked[z].base
      BY <1>10, <1>12 DEF SlotsInv, NoneTouch
  <1> HIDE DEF hd
  <1>15. /\ Linked(one.slot, one.allocated, hd)
         /\ one.allocated \subseteq B
         /\ \A x \in B : linked[x].base <= linked[n].base => x \in one.allocated
         /\ \A x \in one.allocated : one.slot[x].base = linked[x].base
         /\ \A x \in one.allocated : x # n => one.slot[x] = linked[x]
         /\ \A a \in Nat : Open(one.slot, one.allocated, a) <=> Open(linked, B, a)
         /\ \A x, z \in one.allocated : End(one.slot[x]) = one.slot[z].base =>
               \E w \in B \ {n} : End(linked[w]) = linked[z].base
    <2>1. n \in B
        OBVIOUS
    <2> HIDE DEF B
    <2> QED
        BY <1>10, <2>1, SlotsMerge
  <1> HIDE DEF one
  <1>16. \A x, z \in one.allocated : End(one.slot[x]) = one.slot[z].base => z = n
      BY <1>14, <1>15
  <1>17. n \in one.allocated
      BY <1>4, <1>10, <1>15
  <1>18. \A x \in one.allocated : /\ one.slot[x].base \in Nat /\ End(one.slot[x]) \in Nat
                                  /\ one.slot[x].base < End(one.slot[x])
      BY <1>15, SlotNumbers
  <1>19. /\ Linked(two.slot, two.allocated, hd)
         /\ NoneTouch(two.slot, two.allocated)
         /\ \A a \in Nat : Open(two.slot, two.allocated, a) <=> Open(linked, B, a)
    <2>1. CASE prev = NoSlot
      <3>1. two = one /\ hd = n
          BY <2>1 DEF hd
      <3>2. \A x \in one.allocated : one.slot[n].base <= one.slot[x].base
          BY <1>15, <3>1 DEF Linked
      <3>3. \A x \in one.allocated : End(one.slot[x]) # one.slot[n].base
          BY <1>17, <1>18, <3>2
      <3> QED
          BY <1>15, <1>16, <3>1, <3>3 DEF NoneTouch
    <2>2. CASE prev # NoSlot
      <3>1. prev \in A /\ linked[prev].base < linked[n].base /\ prev # n
          BY <1>3, <1>10, <1>11, <2>2
      <3>2. linked[prev].base <= linked[n].base
          BY <1>4, <1>6, <1>10, <3>1
      <3>3. prev \in one.allocated /\ one.slot[prev].next = n
          BY <1>10, <1>15, <2>2, <3>1, <3>2
      <3>4. one = [slot |-> one.slot, allocated |-> one.allocated]
          BY DEF one, Merged, MergeSlots
      <3>5. two = Merged(one.slot, one.allocated, prev)
          BY <2>2, <3>4 DEF Merged
      <3> HIDE DEF two
      <3>6. /\ Linked(two.slot, two.allocated, hd)
            /\ two.allocated \subseteq one.allocated
            /\ \A a \in Nat : Open(two.slot, two.allocated, a) <=>
                              Open(one.slot, one.allocated, a)
            /\ \A x, z \in two.allocated : End(two.slot[x]) = two.slot[z].base =>
                  \E w \in one.allocated \ {prev} : End(one.slot[w]) = one.slot[z].base
          BY <1>15, <3>3, <3>5, SlotsMerge
      <3>7. ASSUME NEW w \in one.allocated \ {prev} PROVE End(one.slot[w]) # one.slot[n].base
        <4> SUFFICES ASSUME End(one.slot[w]) = one.slot[n].base PROVE FALSE
            OBVIOUS
        <4>1. one.slot[w].base < one.slot[n].base
            BY <1>17, <1>18
        <4>2. ~(one.slot[prev].base < one.slot[w].base)
          <5>1. one.slot[prev].base < one.slot[w].base => one.slot[n].base <= one.slot[w].base
              BY <1>15, <3>3 DEF Linked
          <5> QED
              BY <1>17, <1>18, <4>1, <5>1
        <4>3. Clear(one.slot[w], one.slot[prev])
            BY <1>15, <3>3 DEF Linked
        <4>4. one.slot[prev].base < one.slot[n].base
            BY <1>15, <1>17, <3>1, <3>3
        <4> QED
            BY <1>17, <1>18, <3>3, <4>1, <4>2, <4>3, <4>4 DEF Clear
      <3>8. NoneTouch(two.slot, two.allocated)
        <4> SUFFICES ASSUME NEW x \in two.allocated, NEW z \in two.allocated,
                            End(two.slot[x]) = two.slot[z].base
                     PROVE  FALSE
            BY DEF NoneTouch
        <4>1. PICK w \in one.allocated \ {prev} : End(one.slot[w]) = one.slot[z].base
            BY <3>6
        <4>2. z = n
            BY <1>16, <3>6, <4>1
        <4> QED
            BY <3>7, <4>1, <4>2
      <3> QED
          BY <1>15, <3>6, <3>8
    <2> QED
        BY <2>1, <2>2
  <1> HIDE DEF two
  <1>20. Covered'
    <2>1. \A a \in Nat : Open(slot', allocated', a) <=> Open(slot, allocated, a) \/ Inside(r, a)
        BY <1>2, <1>13, <1>19
    <2> QED
        BY <1>2, <1>3, <2>1, SpaceReturned DEF SlotsInv
  <1>21. (Linked(slot, allocated, empty_slot) /\ NoneTouch(slot, allocated))'
      BY <1>2, <1>19
  <1>22. Types'
    <2>1. slot' \in [Nodes -> Structs] /\ empty_slot' \in Nodes \cup {NoSlot}
        BY <1>21 DEF Linked
    <2> QED
        BY <1>2, <2>1 DEF SlotsInv, Types
  <1> QED
      BY <1>20, <1>21, <1>22 DEF SlotsInv

LEMMA SlotsStutterInv == SlotsInv /\ UNCHANGED slotVars => SlotsInv'
  BY DEF SlotsInv, Types, Linked, NoneTouch, Covered, Open, Inside, Clear, End, slotVars

LEMMA SlotsStepInv == SlotsInv /\ HeadFresh /\ [SlotsNext]_slotVars => SlotsInv'
  BY KinstallReadInv, KinstallSlotInv, KinstallSearchedInv, KinstallAppendInv, KuninstallInv,
     SlotsStutterInv
     DEF SlotsNext

-----------------------------------------------------------------------------
(* Theorems                                                                *)

\* The slots are exactly the structs a walk along the list meets.
LEMMA ListedAllocated == SlotsInv => Listed = allocated
  <1> SUFFICES ASSUME SlotsInv PROVE Listed = allocated
      OBVIOUS
  <1>1. Linked(slot, allocated, empty_slot) /\ virtual_pointer \in Nat
        /\ \A u \in allocated : slot[u].base <= virtual_pointer
      BY SlotsBelow DEF SlotsInv, Types
  <1>2. Walk(empty_slot, {}) = Passed(allocated, {})
      BY <1>1, WalkPassed
  <1>3. NoSlot \notin allocated
      BY SlotsAssumption DEF SlotsInv, Linked
  <1> QED
      BY <1>2, <1>3 DEF Listed, Passed

LEMMA OneCovers ==
    ASSUME SlotsInv, NEW a \in 0..virtual_pointer - 1
    PROVE  Cardinality({r \in mapped : a \in Cells(r)})
             + Cardinality({s \in allocated : a \in Cells(slot[s])}) = 1
  <1> DEFINE M == {r \in mapped : a \in Cells(r)}
             S == {s \in allocated : a \in Cells(slot[s])}
  <1>1. virtual_pointer \in Nat /\ a \in Nat /\ a < virtual_pointer
      BY DEF SlotsInv, Types
  <1>2. \A r \in mapped : a \in Cells(r) <=> Inside(r, a)
    <2> SUFFICES ASSUME NEW r \in mapped PROVE a \in Cells(r) <=> Inside(r, a)
        OBVIOUS
    <2>1. r.base \in Nat /\ r.pages \in Counts
        BY DEF SlotsInv, Types
    <2>2. r.pages \in Nat
        BY <2>1, CountFacts
    <2> QED
        BY <1>1, <2>1, <2>2 DEF Cells, Inside, End
  <1>3. Linked(slot, allocated, empty_slot)
      BY DEF SlotsInv
  <1>4. \A s \in allocated : a \in Cells(slot[s]) <=> Inside(slot[s], a)
      BY <1>1, <1>3, SlotNumbers DEF Cells, Inside, End
  <1>5. \A s, u \in allocated : Inside(slot[s], a) /\ Inside(slot[u], a) => s = u
    <2> SUFFICES ASSUME NEW s \in allocated, NEW u \in allocated, s # u
                 PROVE  ~(Inside(slot[s], a) /\ Inside(slot[u], a))
        OBVIOUS
    <2>1. Clear(slot[s], slot[u])
        BY <1>3 DEF Linked
    <2>2. /\ slot[s].base \in Nat /\ End(slot[s]) \in Nat
          /\ slot[u].base \in Nat /\ End(slot[u]) \in Nat
        BY <1>3, SlotNumbers
    <2> QED
        BY <1>1, <2>1, <2>2 DEF Clear, Inside
  <1>6. CASE \E s \in allocated : Inside(slot[s], a)
    <2>1. PICK s \in allocated : Inside(slot[s], a)
        BY <1>6
    <2>2. \A r \in mapped : ~Inside(r, a)
        BY <1>1, <2>1 DEF SlotsInv, Covered, Open
    <2>3. S = {s} /\ M = {}
        BY <1>2, <1>4, <1>5, <2>1, <2>2
    <2> HIDE DEF S, M
    <2>4. Cardinality(S) = 1 /\ Cardinality(M) = 0
        BY <2>3, FS_EmptySet, FS_Singleton
    <2> QED
        BY <2>4 DEF S, M
  <1>7. CASE ~\E s \in allocated : Inside(slot[s], a)
    <2>1. PICK r \in mapped : Inside(r, a)
        BY <1>1, <1>7 DEF SlotsInv, Covered, Open
    <2>2. \A q \in mapped : Inside(q, a) => q = r
        BY <1>1, <2>1 DEF SlotsInv, Covered
    <2>3. S = {} /\ M = {r}
        BY <1>2, <1>4, <1>7, <2>1, <2>2
    <2> HIDE DEF S, M
    <2>4. Cardinality(S) = 0 /\ Cardinality(M) = 1
        BY <2>3, FS_EmptySet, FS_Singleton
    <2> QED
        BY <2>4 DEF S, M
  <1> QED
      BY <1>6, <1>7

LEMMA SlotsInvAccounts == SlotsInv => SpaceAccounted
  <1> SUFFICES ASSUME SlotsInv PROVE SpaceAccounted
      OBVIOUS
  <1>1. Listed = allocated
      BY ListedAllocated
  <1>2. SlotsMerged
    <2> SUFFICES ASSUME NEW s \in allocated, slot[s].next # NoSlot
                 PROVE  slot[s].base + slot[s].pages < slot[slot[s].next].base
        BY <1>1 DEF SlotsMerged
    <2>1. Linked(slot, allocated, empty_slot)
        BY DEF SlotsInv
    <2>2. /\ slot[s].next \in allocated /\ End(slot[s]) <= slot[slot[s].next].base
          /\ End(slot[s]) \in Nat
        BY <2>1, SlotNumbers
    <2>3. slot[slot[s].next].base \in Nat /\ End(slot[s]) # slot[slot[s].next].base
        BY <2>1, <2>2, SlotNumbers DEF SlotsInv, NoneTouch
    <2> QED
        BY <2>2, <2>3 DEF End
  <1> QED
      BY <1>1, <1>2, OneCovers DEF SpaceAccounted

\* Every address that kinstall has used is mapped once or in one slot, and slots that
\* touch have become one: any number of threads, as long as kinstall searches from the
\* head the list has when it takes the mutex.
THEOREM SpaceAccountedFresh == SlotsSpec /\ []HeadFresh => []SpaceAccounted
  <1>1. SlotsInit => SlotsInv
      BY SlotsInitInv
  <1>2. SlotsInv /\ HeadFresh /\ [SlotsNext]_slotVars => SlotsInv'
      BY SlotsStepInv
  <1>3. SlotsInv => SpaceAccounted
      BY SlotsInvAccounts
  <1> QED
      BY <1>1, <1>2, <1>3, PTL DEF SlotsSpec

\* One thread maps pages.
OneCaller == \A t, u \in Callers : t = u

\* Nobody changes the list between kinstall's read of the head and its search, when one
\* thread maps pages.
LEMMA OneCallerFresh == ASSUME OneCaller PROVE SlotsSpec => [](SlotsInv /\ HeadFresh)
  <1>1. SlotsInit => SlotsInv /\ HeadFresh
      BY SlotsInitInv DEF SlotsInit, HeadFresh
  <1>2. SlotsInv /\ HeadFresh /\ [SlotsNext]_slotVars => (SlotsInv /\ HeadFresh)'
    <2> SUFFICES ASSUME SlotsInv, HeadFresh, [SlotsNext]_slotVars, NEW u \in Callers,
                        call'[u] # NoSlot
                 PROVE  call'[u].slot \in {empty_slot', NoSlot}
        BY SlotsStepInv DEF HeadFresh
    <2>1. CASE UNCHANGED slotVars
        BY <2>1 DEF HeadFresh, slotVars
    <2>2. CASE SlotsNext
      <3>1. PICK t \in Callers :
                \/ KinstallRead(t) \/ KinstallSlot(t) \/ KinstallSearched(t)
                \/ KinstallAppend(t) \/ Kuninstall(t)
          BY <2>2 DEF SlotsNext
      <3>2. u = t /\ t \in DOMAIN call
          BY DEF OneCaller, SlotsInv, Types
      <3>3. CASE KinstallRead(t)
          BY <3>2, <3>3 DEF KinstallRead
      <3>4. CASE KinstallSlot(t) \/ KinstallAppend(t)
          BY <3>2, <3>4 DEF KinstallSlot, KinstallAppend
      <3>5. CASE Kuninstall(t)
          BY <3>2, <3>5 DEF Kuninstall
      <3>6. CASE KinstallSearched(t)
        <4>1. call[t] \in [slot : Nodes \cup {NoSlot}, pages : Counts]
            BY <3>6 DEF KinstallSearched, SlotsInv, Types
        <4> QED
            BY <3>2, <3>6, <4>1 DEF KinstallSearched
      <3> QED
          BY <3>1, <3>3, <3>4, <3>5, <3>6
    <2> QED
        BY <2>1, <2>2
  <1> QED
      BY <1>1, <1>2, PTL DEF SlotsSpec

\* The same for the one thread that maps pages, without a condition on the head.
THEOREM SpaceAccountedOne == ASSUME OneCaller PROVE SlotsSpec => []SpaceAccounted
  <1>1. SlotsSpec => [](SlotsInv /\ HeadFresh)
      BY OneCallerFresh
  <1>2. SlotsSpec /\ []HeadFresh => []SpaceAccounted
      BY SpaceAccountedFresh
  <1> QED
      BY <1>1, <1>2, PTL

=============================================================================
