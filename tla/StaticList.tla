----------------------------- MODULE StaticList -----------------------------
(***************************************************************************)
(* StaticList<T, C> (include/structures/static_list.hpp and .tpp): a list  *)
(* in a cyclic buffer of C elements.  An operation that changes it holds   *)
(* the mutex and is one action; clear takes it with interrupts as they     *)
(* are, the others with interrupts off.  size() takes no lock and reads    *)
(* head and tail one after the other.  Nothing looks whether the list is   *)
(* full.                                                                   *)
(***************************************************************************)
EXTENDS Integers, Sequences

CONSTANTS
    C,       \* the capacity
    Limit,   \* bound: as many elements as the callers ever keep in the list
    Values,
    Cpus

ASSUME StaticListAssumption == C \in Nat \ {0} /\ Limit \in Nat

VARIABLES
    objects, head, tail,
    returned,  \* history: what the last pop since a clear returned, in a sequence
    panicked,
    sizing     \* per CPU in size(): head as it was read, and history: the sizes since

vars == <<objects, head, tail, returned, panicked, sizing>>

Slots == 0..(C - 1)

Before(i) == IF i # 0 THEN i - 1 ELSE C - 1

After(i) == (i + 1) % C

\* size()'s computation.
SizeOf(h, t) == IF h <= t THEN t - h ELSE (C + t) - h

\* The slot at distance i behind h.
SlotAt(h, i) == IF h + i < C THEN h + i ELSE h + i - C

size == SizeOf(head, tail)

\* The elements, front first.
Items == [i \in 1..size |-> objects[SlotAt(head, i - 1)]]

Init ==
    /\ objects \in [Slots -> Values]
    /\ head = 0 /\ tail = 0
    /\ returned = <<>> /\ panicked = FALSE
    /\ sizing = [c \in Cpus |-> <<>>]

\* History: every size() under way has seen one more size.
Seen(h, t) ==
    sizing' = [c \in Cpus |->
                 IF sizing[c] = <<>> THEN <<>>
                 ELSE <<sizing[c][1], sizing[c][2] \cup {SizeOf(h, t)}>>]

push_front(v) ==
    /\ size < Limit
    /\ head' = Before(head)
    /\ objects' = [objects EXCEPT ![head'] = v]
    /\ Seen(head', tail)
    /\ UNCHANGED <<tail, returned, panicked>>

push_back(v) ==
    /\ size < Limit
    /\ objects' = [objects EXCEPT ![tail] = v]
    /\ tail' = After(tail)
    /\ Seen(head, tail')
    /\ UNCHANGED <<head, returned, panicked>>

pop_front ==
    /\ head # tail
    /\ returned' = <<objects[head]>>
    /\ head' = After(head)
    /\ Seen(head', tail)
    /\ UNCHANGED <<objects, tail, panicked>>

\* mutant of pop_back: the element is read before tail moves
pop_back_late ==
    /\ head # tail
    /\ returned' = <<objects[tail]>>
    /\ tail' = Before(tail)
    /\ Seen(head, tail')
    /\ UNCHANGED <<objects, head, panicked>>

pop_back ==
    /\ head # tail
    /\ tail' = Before(tail)
    /\ returned' = <<objects[tail']>>
    /\ Seen(head, tail')
    /\ UNCHANGED <<objects, head, panicked>>

\* pop_front and pop_back.
PopEmpty ==
    /\ head = tail
    /\ panicked' = TRUE
    /\ UNCHANGED <<objects, head, tail, returned, sizing>>

clear ==
    /\ head' = tail
    /\ returned' = <<>>
    /\ Seen(head', tail)
    /\ UNCHANGED <<objects, tail, panicked>>

\* size(), its two reads.
SizeBegin(c) ==
    /\ sizing[c] = <<>>
    /\ sizing' = [sizing EXCEPT ![c] = <<head, {size}>>]
    /\ UNCHANGED <<objects, head, tail, returned, panicked>>

SizeEnd(c) ==
    /\ sizing[c] # <<>>
    /\ sizing' = [sizing EXCEPT ![c] = <<>>]
    /\ UNCHANGED <<objects, head, tail, returned, panicked>>

Next ==
    /\ ~panicked
    /\ \/ \E v \in Values : push_front(v) \/ push_back(v)
       \/ pop_front \/ pop_back \/ PopEmpty \/ clear
       \/ \E c \in Cpus : SizeBegin(c) \/ SizeEnd(c)

Spec == Init /\ [][Next]_vars

-----------------------------------------------------------------------------
\* Types of the buffer and its indices.
TypeOK ==
    /\ objects \in [Slots -> Values]
    /\ head \in Slots /\ tail \in Slots
    /\ panicked \in BOOLEAN

Abstract == INSTANCE Deque WITH items <- Items

\* While the callers keep fewer than C elements the list is a sequence, with what its
\* operations return: no element is lost, overwritten or returned twice as head and
\* tail wrap around (static_list.tpp:6-90).
ListImplemented == Abstract!Spec

\* size() returns a size the list had during the call: operations seem to happen at
\* once (static_list.hpp:20).
SizeLinear ==
    \A c \in Cpus : sizing[c] # <<>> => SizeOf(sizing[c][1], tail) \in sizing[c][2]
=============================================================================
