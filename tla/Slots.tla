------------------------------- MODULE Slots --------------------------------
(***************************************************************************)
(* Kernel address space (src/mem/page.cpp): kinstall maps a run of pages   *)
(* into a hole that kuninstall has left, or behind everything else.        *)
(*                                                                         *)
(* The holes are a linked list of heap structs, sorted by address.  Each   *)
(* call changes it under kmem::mutex with interrupts off, but kinstall     *)
(* reads the head of the list before it takes the mutex.  A struct that    *)
(* has been kfreed keeps its words until the heap hands it out again.      *)
(* Addresses are in pages.                                                 *)
(***************************************************************************)
EXTENDS Integers, FiniteSets

CONSTANTS
    Callers,   \* the threads that map pages
    Nodes,     \* heap blocks that can hold a slot
    Counts,    \* the sizes of the runs they map, at least a page
    VmPages,   \* bound: pages of kernel address space that are used
    NoSlot

ASSUME SlotsAssumption ==
    /\ Counts \subseteq Nat \ {0} /\ VmPages \in Nat
    /\ NoSlot \notin Nodes /\ NoSlot \notin [slot : Nodes \cup {NoSlot}, pages : Counts]

VARIABLES
    slot,             \* base, pages and next of every struct
    empty_slot,       \* the head of the list
    allocated,        \* structs the heap has handed out
    virtual_pointer,  \* the end of the used address space
    mapped,           \* what is mapped: records of base and pages
    call              \* the kinstall each caller is in, NoSlot for none

slotVars == <<slot, empty_slot, allocated, virtual_pointer, mapped, call>>

SlotsInit ==
    /\ slot = [n \in Nodes |-> [base |-> 0, pages |-> 0, next |-> NoSlot]]
    /\ empty_slot = NoSlot
    /\ allocated = {}
    /\ virtual_pointer = 0
    /\ mapped = {}
    /\ call = [t \in Callers |-> NoSlot]

\* What a walk from struct s meets before it is over: it ends at a struct of `stop` or
\* behind the last one, and goes on to the next from any other.
Ends(x, stop) == x = NoSlot \/ x \in stop
GoesOn(S, s, stop) == s \in S /\ \A x \in S : Ends(x, stop) \/ slot[x].next \in S
Walk(s, stop) ==
    LET all == Nodes \cup {NoSlot} IN
    {x \in all : \A S \in SUBSET all : GoesOn(S, s, stop) => x \in S}

\* The loops over the list: `slot` (or `now`) and `prev` behind them.
Found(s, stop) == CHOOSE x \in Walk(s, stop) : Ends(x, stop)
Previous(s, stop) ==
    IF Ends(s, stop) THEN NoSlot
    ELSE CHOOSE x \in Walk(s, stop) : ~Ends(x, stop) /\ slot[x].next = Found(s, stop)

-----------------------------------------------------------------------------
(* kinstall                                                                *)

\* The head is read and the pages are counted; the mutex comes later.
KinstallRead(t) ==
    \E n \in Counts :
        /\ call[t] = NoSlot
        /\ call' = [call EXCEPT ![t] = [slot |-> empty_slot, pages |-> n]]
        /\ UNCHANGED <<slot, empty_slot, allocated, virtual_pointer, mapped>>

LargeEnough(n) == {s \in Nodes : slot[s].pages >= n}

\* A slot of the right size leaves the list; a larger one loses its first pages.
KinstallSlot(t) ==
    LET n == call[t].pages
        s == Found(call[t].slot, LargeEnough(n))
        prev == Previous(call[t].slot, LargeEnough(n))
    IN
    /\ call[t] # NoSlot /\ call[t].slot # NoSlot
    /\ s # NoSlot
    /\ IF slot[s].pages = n
         THEN /\ allocated' = allocated \ {s}
              /\ IF prev # NoSlot
                   THEN slot' = [slot EXCEPT ![prev].next = slot[s].next] /\ UNCHANGED empty_slot
                   ELSE empty_slot' = slot[s].next /\ UNCHANGED slot
         ELSE /\ slot' = [slot EXCEPT ![s].pages = @ - n, ![s].base = @ + n]
              /\ UNCHANGED <<allocated, empty_slot>>
    /\ mapped' = mapped \cup {[base |-> slot[s].base, pages |-> n, by |-> t]}
    /\ call' = [call EXCEPT ![t] = NoSlot]
    /\ UNCHANGED virtual_pointer

\* No hole is large enough, and the mutex is given back.
KinstallSearched(t) ==
    /\ call[t] # NoSlot /\ call[t].slot # NoSlot
    /\ Found(call[t].slot, LargeEnough(call[t].pages)) = NoSlot
    /\ call' = [call EXCEPT ![t].slot = NoSlot]
    /\ UNCHANGED <<slot, empty_slot, allocated, virtual_pointer, mapped>>

\* kinstall_append, after that or when there was no hole at all.
KinstallAppend(t) ==
    LET n == call[t].pages IN
    /\ call[t] # NoSlot /\ call[t].slot = NoSlot
    /\ virtual_pointer + n <= VmPages
    /\ mapped' = mapped \cup {[base |-> virtual_pointer, pages |-> n, by |-> t]}
    /\ virtual_pointer' = virtual_pointer + n
    /\ call' = [call EXCEPT ![t] = NoSlot]
    /\ UNCHANGED <<slot, empty_slot, allocated>>

-----------------------------------------------------------------------------
(* kuninstall                                                              *)

\* _merge_free_slots on struct s, for the slots and structs h.
MergeSlotsShort(h, s) ==    \* mutant of MergeSlots
    LET next == h.slot[s].next IN
    IF next # NoSlot /\ h.slot[s].base + h.slot[s].pages = h.slot[next].base
      THEN [slot |-> [h.slot EXCEPT ![s].next = h.slot[next].next],
            allocated |-> h.allocated \ {next}]
      ELSE h
MergeSlots(h, s) ==
    LET next == h.slot[s].next IN
    IF next # NoSlot /\ h.slot[s].base + h.slot[s].pages = h.slot[next].base
      THEN [slot |-> [h.slot EXCEPT ![s].pages = @ + h.slot[next].pages,
                                    ![s].next = h.slot[next].next],
            allocated |-> h.allocated \ {next}]
      ELSE h

NotBelow(base) == {s \in Nodes : slot[s].base >= base}

\* The caller unmaps what it has mapped: a new slot goes into its place in the list and
\* is merged with its neighbours.
Kuninstall(t) ==
    \E r \in mapped : \E s \in Nodes \ allocated :
        LET now == Found(empty_slot, NotBelow(r.base))
            prev == Previous(empty_slot, NotBelow(r.base))
            new == [slot EXCEPT ![s] = [base |-> r.base, pages |-> r.pages, next |-> now]]
            linked == IF prev = NoSlot THEN new ELSE [new EXCEPT ![prev].next = s]
            one == MergeSlots([slot |-> linked, allocated |-> allocated \cup {s}], s)
            two == IF prev = NoSlot THEN one ELSE MergeSlots(one, prev)
        IN
        /\ call[t] = NoSlot
        /\ r.by = t
        /\ slot' = two.slot
        /\ allocated' = two.allocated
        /\ empty_slot' = IF prev = NoSlot THEN s ELSE empty_slot
        /\ mapped' = mapped \ {r}
        /\ UNCHANGED <<virtual_pointer, call>>

SlotsNext == \E t \in Callers :
    \/ KinstallRead(t) \/ KinstallSlot(t) \/ KinstallSearched(t) \/ KinstallAppend(t)
    \/ Kuninstall(t)

SlotsSpec == SlotsInit /\ [][SlotsNext]_slotVars

-----------------------------------------------------------------------------
(* Properties                                                              *)

Listed == Walk(empty_slot, {}) \ {NoSlot}

\* Every variable has its type.
SlotsTypeOK ==
    /\ slot \in [Nodes -> [base : 0..VmPages, pages : 0..VmPages, next : Nodes \cup {NoSlot}]]
    /\ empty_slot \in Nodes \cup {NoSlot}
    /\ allocated \subseteq Nodes
    /\ virtual_pointer \in 0..VmPages
    /\ \A r \in mapped : r.base \in Nat /\ r.pages \in Counts /\ r.by \in Callers

Cells(r) == r.base..r.base + r.pages - 1

\* No address is mapped twice.
MappingsDisjoint ==
    \A r, q \in mapped : r # q => Cells(r) \cap Cells(q) = {}

\* The list is sorted and no two slots touch.
SlotsMerged ==
    \A s \in Listed : slot[s].next # NoSlot =>
        slot[s].base + slot[s].pages < slot[slot[s].next].base

\* Every address kinstall has ever used is mapped or in exactly one slot: nothing is
\* lost, nothing is offered that is in use, and holes that touch have become one.
SpaceAccounted ==
    /\ Listed = allocated
    /\ SlotsMerged
    /\ \A a \in 0..virtual_pointer - 1 :
          Cardinality({r \in mapped : a \in Cells(r)})
            + Cardinality({s \in Listed : a \in Cells(slot[s])}) = 1
=============================================================================
