------------------------------- MODULE Vector -------------------------------
(***************************************************************************)
(* vector<T> (include/structures/vector.hpp): a buffer from the heap that  *)
(* doubles when it is full.  Several vectors, as copies and moves involve  *)
(* two.  A vector that was moved from has no buffer but keeps its count    *)
(* and size.                                                               *)
(***************************************************************************)
EXTENDS Integers, Sequences, FiniteSets

CONSTANTS
    Vectors, Buffers, Values, Null,
    Counts,    \* sizes for vector(size_t count, T value)
    MaxItems   \* bound: elements of a vector

VARIABLES
    buff, count, buff_size,   \* the fields; Null for a vector that does not exist
    memory,     \* the elements in each buffer; Null for what was moved from nowhere
    allocated,  \* the buffers kmalloc has handed out
    model,      \* history: the elements each vector should have; Null after a move from it
    panicked

vars == <<buff, count, buff_size, memory, allocated, model, panicked>>

None == [v \in Vectors |-> Null]

Init ==
    /\ buff = None /\ count = None /\ buff_size = None /\ model = None
    /\ memory = [b \in Buffers |-> <<>>] /\ allocated = {}
    /\ panicked = FALSE

Exists(v) == count[v] # Null

FIRST_SIZE == 4

\* mutant of Moved: the last element stays behind
MovedLess(v) == IF buff[v] = Null THEN <<>> ELSE SubSeq(memory[buff[v]], 1, count[v] - 1)

\* The elements grow_buff moves: without a buffer, what lies at address 0, which is mapped.
Moved(v) == IF buff[v] = Null THEN [i \in 1..count[v] |-> Null]
            ELSE SubSeq(memory[buff[v]], 1, count[v])

\* The buffer of a vector that was moved from.
MovedFrom(other) == Null

\* The history of a vector after a step: not known if it was not before.
Known(v, elements) == IF model[v] = Null THEN Null ELSE elements

\* Constructors: by default, of n elements, and a copy.
Construct(v, size, elements, known) ==
    /\ ~Exists(v)
    /\ \E b \in Buffers \ allocated :
          /\ buff' = [buff EXCEPT ![v] = b]
          /\ memory' = [memory EXCEPT ![b] = elements]
          /\ allocated' = allocated \cup {b}
    /\ count' = [count EXCEPT ![v] = Len(elements)]
    /\ buff_size' = [buff_size EXCEPT ![v] = size]
    /\ model' = [model EXCEPT ![v] = known]
    /\ UNCHANGED panicked

Default(v) == Construct(v, FIRST_SIZE, <<>>, <<>>)

OfCount(v, n, value) ==
    LET elements == [i \in 1..n |-> value] IN Construct(v, n, elements, elements)

\* operator[] panics for the first element of a vector that was moved from.
Copy(v, other) ==
    /\ Exists(other) /\ (buff[other] # Null \/ count[other] = 0)
    /\ Construct(v, buff_size[other], Moved(other), model[other])

\* vector(vector&&).
MoveConstruct(v, other) ==
    /\ ~Exists(v) /\ Exists(other)
    /\ buff' = [buff EXCEPT ![v] = buff[other], ![other] = MovedFrom(other)]
    /\ count' = [count EXCEPT ![v] = count[other]]
    /\ buff_size' = [buff_size EXCEPT ![v] = buff_size[other]]
    /\ model' = [model EXCEPT ![v] = model[other], ![other] = Null]
    /\ UNCHANGED <<memory, allocated, panicked>>

\* operator=(vector&&): clear leaves the old buffer, which nobody frees.
MoveAssign(v, other) ==
    /\ v # other /\ Exists(v) /\ Exists(other)
    /\ memory' = [b \in Buffers |-> IF b = buff[v] THEN <<>> ELSE memory[b]]
    /\ buff' = [buff EXCEPT ![v] = buff[other], ![other] = MovedFrom(other)]
    /\ count' = [count EXCEPT ![v] = count[other]]
    /\ buff_size' = [buff_size EXCEPT ![v] = buff_size[other]]
    /\ model' = [model EXCEPT ![v] = model[other], ![other] = Null]
    /\ UNCHANGED <<allocated, panicked>>

Destroy(v) ==
    /\ Exists(v)
    /\ allocated' = allocated \ {buff[v]}
    /\ memory' = [b \in Buffers |-> IF b = buff[v] THEN <<>> ELSE memory[b]]
    /\ buff' = [buff EXCEPT ![v] = Null] /\ count' = [count EXCEPT ![v] = Null]
    /\ buff_size' = [buff_size EXCEPT ![v] = Null] /\ model' = [model EXCEPT ![v] = Null]
    /\ UNCHANGED panicked

\* clear of a vector with a buffer; of another it changes nothing.
clear(v) ==
    /\ Exists(v) /\ buff[v] # Null
    /\ count' = [count EXCEPT ![v] = 0]
    /\ memory' = [memory EXCEPT ![buff[v]] = <<>>]
    /\ model' = [model EXCEPT ![v] = <<>>]
    /\ UNCHANGED <<buff, buff_size, allocated, panicked>>

Full(v) == count[v] = buff_size[v]

\* push_back and emplace_back, with room.
PushBack(v, value) ==
    /\ Exists(v) /\ buff[v] # Null /\ count[v] < MaxItems
    /\ ~Full(v)
    /\ memory' = [memory EXCEPT ![buff[v]] = Append(Moved(v), value)]
    /\ count' = [count EXCEPT ![v] = @ + 1]
    /\ model' = [model EXCEPT ![v] = Known(v, Append(@, value))]
    /\ UNCHANGED <<buff, buff_size, allocated, panicked>>

\* And with grow_buff before, which does not ask whether the vector was moved from: the
\* new buffer is allocated before the old one is freed.
PushGrow(v, value) ==
    /\ Exists(v) /\ count[v] < MaxItems
    /\ Full(v)
    /\ \E b \in Buffers \ allocated :
          /\ memory' = [c \in Buffers |-> CASE c = b -> Append(Moved(v), value)
                                           [] c = buff[v] -> <<>>
                                           [] OTHER -> memory[c]]
          /\ buff' = [buff EXCEPT ![v] = b]
          /\ allocated' = (allocated \ {buff[v]}) \cup {b}
    /\ buff_size' = [buff_size EXCEPT ![v] = 2 * @]
    /\ count' = [count EXCEPT ![v] = @ + 1]
    /\ model' = [model EXCEPT ![v] = Known(v, Append(@, value))]
    /\ UNCHANGED panicked

pop_back(v) ==
    /\ Exists(v) /\ buff[v] # Null /\ count[v] > 0
    /\ count' = [count EXCEPT ![v] = @ - 1]
    /\ memory' = [memory EXCEPT ![buff[v]] = SubSeq(@, 1, count[v] - 1)]
    /\ model' = [model EXCEPT ![v] = Known(v, SubSeq(@, 1, Len(@) - 1))]
    /\ UNCHANGED <<buff, buff_size, allocated, panicked>>

\* operator[] by pop_back on an empty vector; on one moved from by pop_back, by a copy of
\* elements, and by push_back with room, after grow_buff was left out.
OutOfBounds(v) ==
    /\ Exists(v) /\ (buff[v] = Null \/ count[v] = 0)
    /\ panicked' = TRUE
    /\ UNCHANGED <<buff, count, buff_size, memory, allocated, model>>

Next ==
    /\ ~panicked
    /\ \E v \in Vectors :
          \/ Default(v) \/ Destroy(v) \/ clear(v) \/ pop_back(v) \/ OutOfBounds(v)
          \/ \E value \in Values : \/ PushBack(v, value) \/ PushGrow(v, value)
                                   \/ \E n \in Counts : OfCount(v, n, value)
          \/ \E other \in Vectors : Copy(v, other) \/ MoveConstruct(v, other) \/ MoveAssign(v, other)

Spec == Init /\ [][Next]_vars

-----------------------------------------------------------------------------
\* A vector that was not moved from, or was cleared or assigned since, has the elements
\* that were put into it, across growing, copying and moving (vector.hpp:37-51, 85-123).
ContentsKept ==
    \A v \in Vectors : Exists(v) /\ buff[v] # Null /\ model[v] # Null =>
        /\ count[v] = Len(model[v])
        /\ memory[buff[v]] = model[v]

\* No element is written outside its buffer (vector.hpp:219).
InBuffer == \A v \in Vectors : Exists(v) /\ buff[v] # Null => count[v] <= buff_size[v]

\* No buffer has two owners, and none that is freed has one (vector.hpp:96, 127).
BufferOwned ==
    \A v, w \in Vectors : Exists(v) /\ buff[v] # Null =>
        /\ buff[v] \in allocated
        /\ v # w => buff[w] # buff[v]

\* Every element was constructed by somebody (vector.hpp:41): not those that push_back
\* moves when a full vector was moved from.
AllConstructed ==
    \A v \in Vectors : Exists(v) /\ buff[v] # Null =>
        \A i \in 1..count[v] : memory[buff[v]][i] # Null

\* "After this call, the vector will be empty." (vector.hpp:174): not one moved from.
ClearEmpties ==
    \A v \in Vectors : Exists(v) =>
        count[v] = 0 \/ ENABLED (clear(v) /\ count'[v] = 0)

\* Every buffer has an owner that will free it (vector.hpp:117).
NoBufferLeak == allocated \subseteq {buff[v] : v \in Vectors}
=============================================================================
