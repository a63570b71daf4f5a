-------------------------------- MODULE List --------------------------------
(***************************************************************************)
(* list<T> (include/structures/list.hpp and .tpp): entries on the heap,    *)
(* each owning the next through a unique_ptr, with a bare pointer to the   *)
(* last and a count.  The list has no lock.  remove changes the list while *)
(* it walks along it, an action per turn of its loop, and compares with an *)
(* object it was given by reference, which may be in the list.             *)
(***************************************************************************)
EXTENDS Integers, Sequences, SequencesExt, FiniteSets

CONSTANTS
    Entries,   \* heap blocks that can hold an entry
    Values,
    Alias,     \* may remove be given a reference to an element of the list
    Null

VARIABLES
    next, object,      \* the fields of the entries
    live,              \* the entries that are allocated
    head, tail, count,
    removing,          \* prev and now of a remove and what it compares with, or Null
    panicked

vars == <<next, object, live, head, tail, count, removing, panicked>>

Init ==
    /\ next = [e \in Entries |-> Null]
    /\ object = [e \in Entries |-> CHOOSE v \in Values : TRUE]
    /\ live = {} /\ head = Null /\ tail = Null /\ count = 0
    /\ removing = Null /\ panicked = FALSE

\* The entries from e on, in order.
ChainFrom(e) ==
    LET walk[i \in 0..Cardinality(Entries)] ==
            IF i = 0 THEN e ELSE IF walk[i - 1] = Null THEN Null ELSE next[walk[i - 1]]
    IN SelectSeq([i \in 1..(Cardinality(Entries) + 1) |-> walk[i - 1]], LAMBDA x : x # Null)

Chain == ChainFrom(head)

\* The entry that owns e, or Null when head does.
Owner(e) == IF e = head THEN Null ELSE CHOOSE p \in ToSet(Chain) : next[p] = e

\* unique_ptr's destructor: an entry takes those behind it with it.
Freed(e) == IF e = Null THEN {} ELSE ToSet(ChainFrom(e))

Idle == removing = Null /\ ~panicked

\* make_unique<Entry>: the heap hands out any free block.
New(e, v, n) ==
    /\ e \in Entries \ live
    /\ live' = live \cup {e}
    /\ object' = [object EXCEPT ![e] = v]
    /\ next' = [next EXCEPT ![e] = n]

\* mutant of push_front: the rest of the list is not hung behind the new entry
push_front_alone(v) ==
    /\ Idle
    /\ \E e \in Entries : New(e, v, Null) /\ head' = e /\ tail' = e
    /\ count' = count + 1
    /\ UNCHANGED <<removing, panicked>>

\* push_front in its two forms, and emplace_front.
push_front(v) ==
    /\ Idle
    /\ \E e \in Entries :
          /\ New(e, v, head)
          /\ head' = e
          /\ tail' = IF head = Null THEN e ELSE tail
    /\ count' = count + 1
    /\ UNCHANGED <<removing, panicked>>

\* push_back in its two forms, and emplace_back.
push_back(v) ==
    /\ Idle
    /\ \E e \in Entries :
          /\ e \in Entries \ live
          /\ live' = live \cup {e}
          /\ object' = [object EXCEPT ![e] = v]
          /\ next' = [n \in Entries |-> IF n = e THEN Null
                                        ELSE IF head # Null /\ n = tail THEN e ELSE next[n]]
          /\ head' = IF head = Null THEN e ELSE head
          /\ tail' = e
    /\ count' = count + 1
    /\ UNCHANGED <<removing, panicked>>

pop_front ==
    /\ Idle /\ head # Null
    /\ head' = next[head]
    /\ live' = live \ {head}
    /\ tail' = IF next[head] = Null THEN Null ELSE tail
    /\ count' = count - 1
    /\ UNCHANGED <<next, object, removing, panicked>>

pop_back ==
    /\ Idle /\ head # Null
    /\ \/ /\ head = tail
          /\ head' = Null /\ tail' = Null
          /\ live' = live \ Freed(head)
          /\ UNCHANGED next
       \/ /\ head # tail
          /\ tail' = Owner(tail)
          /\ next' = [next EXCEPT ![Owner(tail)] = Null]
          /\ live' = live \ Freed(tail)
          /\ UNCHANGED head
    /\ count' = count - 1
    /\ UNCHANGED <<object, removing, panicked>>

PopEmpty ==
    /\ Idle /\ head = Null
    /\ panicked' = TRUE
    /\ UNCHANGED <<next, object, live, head, tail, count, removing>>

clear ==
    /\ Idle
    /\ head' = Null /\ tail' = Null /\ count' = 0
    /\ live' = live \ Freed(head)
    /\ UNCHANGED <<next, object, removing, panicked>>

\* mutant of TailAfter: the last entry stays the last
TailAfterKept(e) == tail

\* erase, when the last entry goes.
TailAfter(e) == IF next[e] = Null THEN Owner(e) ELSE tail

\* What owns e owns the next one from now on; e is deleted.
Unlink(e) ==
    /\ head' = IF e = head THEN next[e] ELSE head
    /\ next' = [n \in Entries |-> IF n \in ToSet(Chain) /\ next[n] = e THEN next[e]
                                  ELSE IF n = e THEN Null ELSE next[n]]
    /\ live' = live \ {e}

\* erase, given an iterator at e.
erase(e) ==
    /\ Idle /\ e \in ToSet(Chain)
    /\ tail' = TailAfter(e)
    /\ Unlink(e)
    /\ count' = count - 1
    /\ UNCHANGED <<object, removing, panicked>>

\* remove, given a value of the caller's, or a reference to the object of an entry.
remove(v, of) ==
    /\ Idle /\ head # Null
    /\ removing' = [prev |-> Null, now |-> head, value |-> v, of |-> of]
    /\ UNCHANGED <<next, object, live, head, tail, count, panicked>>

Wanted == IF removing.of = Null THEN removing.value ELSE object[removing.of]

\* After a removal the loop stays where it is.
Skipped(after) == [prev |-> removing.prev, now |-> after]

RemoveMatch ==
    /\ removing # Null /\ removing.now # Null
    /\ object[removing.now] = Wanted
    /\ Unlink(removing.now)
    /\ count' = count - 1
    /\ removing' = [prev |-> Skipped(next[removing.now]).prev, now |-> Skipped(next[removing.now]).now,
                    value |-> removing.value, of |-> removing.of]
    /\ UNCHANGED <<object, tail, panicked>>

RemovePass ==
    /\ removing # Null /\ removing.now # Null
    /\ object[removing.now] # Wanted
    /\ removing' = [removing EXCEPT !.prev = removing.now, !.now = next[removing.now]]
    /\ UNCHANGED <<next, object, live, head, tail, count, panicked>>

RemoveEnd ==
    /\ removing # Null /\ removing.now = Null
    /\ tail' = removing.prev
    /\ removing' = Null
    /\ UNCHANGED <<next, object, live, head, count, panicked>>

Next ==
    \/ \E v \in Values : push_front(v) \/ push_back(v) \/ remove(v, Null)
    \/ \E e \in Entries : erase(e) \/ (Alias /\ e \in ToSet(Chain) /\ remove(object[e], e))
    \/ pop_front \/ pop_back \/ PopEmpty \/ clear
    \/ RemoveMatch \/ RemovePass \/ RemoveEnd

Spec == Init /\ [][Next]_vars

-----------------------------------------------------------------------------
Items == [i \in DOMAIN Chain |-> object[Chain[i]]]

\* The entries allocated are those in the list, tail is the last of them and count says
\* how many: nothing leaks, and a push at the back goes to the back (list.tpp:148, 160).
Linked ==
    /\ live = ToSet(Chain)
    /\ count = Len(Chain)
    /\ removing = Null => tail = IF Chain = <<>> THEN Null ELSE Last(Chain)

Abstract == INSTANCE Deque WITH items <- Items, returned <- <<>>

\* The list is a sequence, whichever blocks its entries are in (list.tpp:10-180).
ListImplemented == Abstract!Spec

\* When remove is done no element has the value, the first, the last and neighbours
\* included (list.tpp:126-149).
RemovedAll ==
    removing # Null /\ removing.now = Null => removing.value \notin ToSet(Items)

\* What remove compares with is still there (list.tpp:135).
WantedAlive == removing # Null => removing.of = Null \/ removing.of \in live
=============================================================================
