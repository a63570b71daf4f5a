------------------------------- MODULE Deque --------------------------------
(***************************************************************************)
(* What StaticList, list and vector (include/structures) promise their     *)
(* callers: a sequence that grows and shrinks at its ends, from which an   *)
(* element can be erased, and a panic when there is nothing to remove.     *)
(***************************************************************************)
EXTENDS Integers, Sequences, SequencesExt

CONSTANT Values

VARIABLES
    items,     \* the elements, front first
    returned,  \* what the last pop since a clear returned, in a sequence
    panicked

vars == <<items, returned, panicked>>

Init == items = <<>> /\ returned = <<>> /\ panicked = FALSE

PushFront(v) == items' = <<v>> \o items /\ UNCHANGED <<returned, panicked>>

PushBack(v) == items' = Append(items, v) /\ UNCHANGED <<returned, panicked>>

PopFront ==
    /\ items # <<>>
    /\ items' = Tail(items)
    /\ returned' \in {<<Head(items)>>, <<>>}
    /\ UNCHANGED panicked

PopBack ==
    /\ items # <<>>
    /\ items' = SubSeq(items, 1, Len(items) - 1)
    /\ returned' \in {<<items[Len(items)]>>, <<>>}
    /\ UNCHANGED panicked

PopEmpty ==
    /\ items = <<>>
    /\ panicked' = TRUE
    /\ UNCHANGED <<items, returned>>

Erase(i) ==
    /\ items' = SubSeq(items, 1, i - 1) \o SubSeq(items, i + 1, Len(items))
    /\ UNCHANGED <<returned, panicked>>

Clear == items' = <<>> /\ returned' = <<>> /\ UNCHANGED panicked

Next ==
    /\ ~panicked
    /\ \/ \E v \in Values : PushFront(v) \/ PushBack(v)
       \/ PopFront \/ PopBack \/ PopEmpty \/ Clear
       \/ \E i \in DOMAIN items : Erase(i)

Spec == Init /\ [][Next]_vars
=============================================================================
