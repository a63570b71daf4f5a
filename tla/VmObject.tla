------------------------------ MODULE VmObject ------------------------------
(***************************************************************************)
(* Memory objects (src/mem/object.cpp) and the virtual memory maps they    *)
(* are mapped into (src/mem/vm.cpp), from the page fault that fills a page *)
(* in to the removal that takes it out again.                              *)
(*                                                                         *)
(* Every thread has a map of its own, so a map also stands for the thread  *)
(* that runs in it.  resolve_fault enables interrupts and takes no lock:   *)
(* threads that fault on the same object interleave.  Addresses, offsets   *)
(* and sizes are in pages; generate is always asked for one page.  An      *)
(* object keeps its pages in a linked list, whose entries are named by     *)
(* the frame they describe.                                                *)
(***************************************************************************)
EXTENDS Integers, FiniteSetsExt

CONSTANTS
    Maps,       \* the maps, each with its thread
    Objects,
    Frames,     \* physical pages
    MaxPages,   \* max_pages of every object
    AddrPages,  \* pages below the kernel
    TablePages, \* pages one page table covers
    Mappings,   \* what each map's thread may add_object: sets of records of
                \* object, base, offset and pages
    None

ASSUME VmAssumption ==
    /\ {MaxPages, AddrPages, TablePages} \subseteq Nat \ {0}
    /\ Frames \subseteq Nat
    /\ None \notin Frames /\ None \notin [object : Objects, offset : Nat]
    /\ \A m \in Maps : Mappings[m] \subseteq
          [object : Objects, base : 0..AddrPages - 1, offset : Nat, pages : 1..AddrPages]
    /\ \A m \in Maps : \A r \in Mappings[m] : r.base + r.pages <= AddrPages

VARIABLES
    content,  \* which page of which object a frame holds, None for a free frame
    nextOf,   \* PageEntry::next
    head,     \* Object::pages
    refs,     \* objects that something outside the maps refers to
    oims,     \* Map::objects_in_maps, a set since no address is in two of them
    entry,    \* the page table entries of every map
    tables,   \* the page tables every map has
    fault,    \* the page fault a thread is in, or None
    halted    \* "no", or why the kernel has stopped

objectVars == <<content, nextOf, head, refs>>
mapVars == <<oims, entry, tables>>
vars == <<objectVars, mapVars, fault, halted>>

Pages == 0..AddrPages - 1

Init ==
    /\ content = [f \in Frames |-> None]
    /\ nextOf = [f \in Frames |-> None]
    /\ head = [o \in Objects |-> None]
    /\ refs = Objects
    /\ oims = [m \in Maps |-> {}]
    /\ entry = [m \in Maps |-> [a \in Pages |-> None]]
    /\ tables = [m \in Maps |-> {}]
    /\ fault = [m \in Maps |-> None]
    /\ halted = "no"

Covers(r, a) == a \in r.base..r.base + r.pages - 1

Mapped(o) == \E m \in Maps : \E r \in oims[m] : r.object = o

\* Object::objects_in_maps: the mappings of o, each with its map.
Showing(o) == UNION {{m} \X {r \in oims[m] : r.object = o} : m \in Maps}

\* The shared_ptrs keep the object.
Alive(o) == o \in refs \/ Mapped(o)

\* The frames of object o: those that are met along the list that starts at its head.
ClosedList(o, S) ==
    /\ head[o] # None => head[o] \in S
    /\ \A f \in S : nextOf[f] # None => nextOf[f] \in S
Entries(o) == {f \in Frames : \A S \in SUBSET Frames : ClosedList(o, S) => f \in S}

OffsetOf(f) == content[f].offset

Running(m) == halted = "no" /\ fault[m] = None

-----------------------------------------------------------------------------
(* Page tables                                                             *)

\* Where page `offset` of the object lies when it is mapped by r.
Place(r, offset) == r.base + offset - r.offset

\* Map::insert of page `offset`, cut off at the ends of the mapping r, writes the entry
\* of page a.
Inserts(r, offset, a) == a = Place(r, offset) /\ Covers(r, a)

\* The page tables insert makes.
TableOf(a) == a \div TablePages
NewTables(r, a) == IF Covers(r, a) THEN {TableOf(a)} ELSE {}

\* remove_object_in_map clears every loaded page of the object, those outside the
\* mapping included.
ClearedUnshifted(r, loaded) == {r.base + OffsetOf(f) : f \in loaded}    \* mutant of Cleared
Cleared(r, loaded) == {a \in {Place(r, OffsetOf(f)) : f \in loaded} : a >= 0}

\* Map::clear goes through a page table that is not there.
NullTable(m, r) ==
    \E a \in Cleared(r, Entries(r.object)) : TableOf(a) \notin tables[m]

\* ~Object, when the last reference goes: its frames are free again.
Destroy(gone) ==
    LET freed == UNION {Entries(o) : o \in gone} IN
    /\ content' = [f \in Frames |-> IF f \in freed THEN None ELSE content[f]]
    /\ nextOf' = [f \in Frames |-> IF f \in freed THEN None ELSE nextOf[f]]
    /\ head' = [o \in Objects |-> IF o \in gone THEN None ELSE head[o]]

-----------------------------------------------------------------------------
(* Mapping objects                                                         *)

\* The entries of a map, e before, when the pages that are already there have been
\* inserted in the order of the list.
Loaded(e, r) ==
    [a \in Pages |->
        LET here == {f \in Entries(r.object) : Inserts(r, OffsetOf(f), a)} IN
        IF here = {} THEN e[a] ELSE CHOOSE f \in here : nextOf[f] \notin here]

\* Map::add_object: the pages that are already there are mapped at once.  Callers
\* give each mapping addresses of its own.
AddObject(m) ==
    \E r \in Mappings[m] :
        /\ Running(m)
        /\ Alive(r.object)
        /\ \A q \in oims[m] : \A a \in Pages : ~(Covers(r, a) /\ Covers(q, a))
        /\ oims' = [oims EXCEPT ![m] = @ \cup {r}]
        /\ entry' = [entry EXCEPT ![m] = Loaded(@, r)]
        /\ tables' = [tables EXCEPT ![m] =
               @ \cup UNION {NewTables(r, Place(r, OffsetOf(f))) : f \in Entries(r.object)}]
        /\ UNCHANGED <<objectVars, fault, halted>>

\* Objects nothing refers to when map m keeps the mappings `kept`.
Orphans(m, kept) ==
    {o \in Objects \ refs :
        /\ \E r \in oims[m] : r.object = o
        /\ \A r \in kept : r.object # o
        /\ \A n \in Maps \ {m} : \A r \in oims[n] : r.object # o}

\* The mappings `dropped` of m are destroyed (~ObjectInMap).
Unmap(m, dropped) ==
    LET kept == oims[m] \ dropped IN
    /\ dropped # {}
    /\ \A r \in dropped : ~NullTable(m, r)
    /\ oims' = [oims EXCEPT ![m] = kept]
    /\ Destroy(Orphans(m, kept))
    /\ UNCHANGED <<refs, fault, halted>>

ClearEntries(m, dropped) ==
    LET clear == UNION {Cleared(r, Entries(r.object)) : r \in dropped} IN
    entry' = [entry EXCEPT ![m] = [a \in Pages |-> IF a \in clear THEN None ELSE @[a]]]

RemoveObject(m) ==
    \E o \in Objects :
        LET dropped == {r \in oims[m] : r.object = o} IN
        /\ Running(m)
        /\ Unmap(m, dropped)
        /\ ClearEntries(m, dropped)
        /\ UNCHANGED tables

RemoveObjectAt(m) ==
    \E r \in oims[m] :
        /\ Running(m)
        /\ Unmap(m, {r})
        /\ ClearEntries(m, {r})
        /\ UNCHANGED tables

\* clear follows tables[dir_slot] when it is null.
RemoveFaults(m) ==
    /\ Running(m)
    /\ \E r \in oims[m] : NullTable(m, r)
    /\ halted' = "null"
    /\ UNCHANGED <<objectVars, mapVars, fault>>

\* ~Map: the thread has ended.
DestroyMap(m) ==
    /\ Running(m)
    /\ Unmap(m, oims[m])
    /\ tables' = [tables EXCEPT ![m] = {}]
    /\ entry' = [entry EXCEPT ![m] = [a \in Pages |-> None]]

\* The last shared_ptr outside the maps goes.
Drop(o) ==
    /\ halted = "no"
    /\ o \in refs
    /\ refs' = refs \ {o}
    /\ IF Mapped(o) THEN UNCHANGED <<content, nextOf, head>> ELSE Destroy({o})
    /\ UNCHANGED <<mapVars, fault, halted>>

-----------------------------------------------------------------------------
(* Page faults                                                             *)

Offset(r, a) == a - r.base + r.offset

\* generate has nothing to do: the page is out of range or there already.  The thread
\* then takes the same fault again.
NothingToDoBeyond(o, offset) == offset >= MaxPages    \* mutant of NothingToDo
NothingToDoNext(o, offset) ==    \* mutant of NothingToDo
    offset >= MaxPages \/ \E f \in Entries(o) : OffsetOf(f) = offset + 1
NothingToDo(o, offset) ==
    \/ offset >= MaxPages
    \/ \E f \in Entries(o) : OffsetOf(f) = offset

\* resolve_fault finds the mapping and generate the place in the list.
FaultFind(m) ==
    \E a \in Pages : \E r \in oims[m] :
        LET o == r.object
            before == {f \in Entries(o) : OffsetOf(f) < Offset(r, a)}
            after == Entries(o) \ before
        IN
        /\ Running(m)
        /\ entry[m][a] = None
        /\ Covers(r, a)
        /\ ~NothingToDo(o, Offset(r, a))
        /\ fault' = [fault EXCEPT ![m] =
               [step |-> "link", object |-> o, offset |-> Offset(r, a), frame |-> None,
                left |-> {},
                prev |-> IF before = {} THEN None
                         ELSE CHOOSE f \in before : \A g \in before : OffsetOf(g) <= OffsetOf(f),
                next |-> IF after = {} THEN None
                         ELSE CHOOSE f \in after : \A g \in after : OffsetOf(g) >= OffsetOf(f)]]
        /\ UNCHANGED <<objectVars, mapVars, halted>>

\* The thread touches an address no mapping covers.
FaultUnresolved(m) ==
    \E a \in Pages :
        /\ Running(m)
        /\ \A r \in oims[m] : ~Covers(r, a)
        /\ entry[m][a] = None
        /\ halted' = "panic"
        /\ UNCHANGED <<objectVars, mapVars, fault>>

\* do_generate, and the new entry goes between prev and next as they were found.
FaultLink(m) ==
    LET t == fault[m]
        f == Min({g \in Frames : content[g] = None})
    IN
    /\ halted = "no"
    /\ t # None
    /\ t.step = "link"
    /\ \E g \in Frames : content[g] = None
    /\ content' = [content EXCEPT ![f] = [object |-> t.object, offset |-> t.offset]]
    /\ IF t.prev = None
         THEN /\ head' = [head EXCEPT ![t.object] = f]
              /\ nextOf' = [nextOf EXCEPT ![f] = t.next]
         ELSE /\ nextOf' = [nextOf EXCEPT ![f] = t.next, ![t.prev] = f]
              /\ UNCHANGED head
    /\ fault' = [fault EXCEPT ![m].step = "publish", ![m].frame = f,
                              ![m].left = Showing(t.object)]
    /\ UNCHANGED <<refs, mapVars, halted>>

\* The page is entered in every map that maps it, one after the other.
FaultPublish(m) ==
    LET t == fault[m]
        left == t.left \cap Showing(t.object)
    IN
    /\ halted = "no"
    /\ t # None
    /\ t.step = "publish"
    /\ \E w \in left :
          /\ entry' = [entry EXCEPT ![w[1]] = [a \in Pages |->
                 IF Inserts(w[2], t.offset, a) THEN t.frame ELSE @[a]]]
          /\ tables' = [tables EXCEPT ![w[1]] = @ \cup NewTables(w[2], Place(w[2], t.offset))]
          /\ fault' = [fault EXCEPT ![m].left = left \ {w}]
    /\ UNCHANGED <<objectVars, oims, halted>>

\* And the thread goes on.
FaultDone(m) ==
    /\ halted = "no"
    /\ fault[m] # None
    /\ fault[m].step = "publish"
    /\ fault[m].left \cap Showing(fault[m].object) = {}
    /\ fault' = [fault EXCEPT ![m] = None]
    /\ UNCHANGED <<objectVars, mapVars, halted>>

Next ==
    \/ \E m \in Maps :
          \/ AddObject(m) \/ RemoveObject(m) \/ RemoveObjectAt(m) \/ RemoveFaults(m)
          \/ DestroyMap(m)
          \/ FaultFind(m) \/ FaultUnresolved(m) \/ FaultLink(m) \/ FaultPublish(m)
          \/ FaultDone(m)
    \/ \E o \in Objects : Drop(o)

Spec == Init /\ [][Next]_vars

-----------------------------------------------------------------------------
(* Properties                                                              *)

Windows == UNION {Mappings[m] : m \in Maps}

Faults ==
    [step : {"link", "publish"}, object : Objects, offset : 0..MaxPages - 1,
     frame : Frames \cup {None}, left : SUBSET (Maps \X Windows),
     prev : Frames \cup {None}, next : Frames \cup {None}]

\* Every variable has its type.
TypeOK ==
    /\ content \in [Frames -> [object : Objects, offset : 0..MaxPages - 1] \cup {None}]
    /\ nextOf \in [Frames -> Frames \cup {None}]
    /\ head \in [Objects -> Frames \cup {None}]
    /\ refs \subseteq Objects
    /\ DOMAIN oims = Maps /\ \A m \in Maps : oims[m] \subseteq Mappings[m]
    /\ entry \in [Maps -> [Pages -> Frames \cup {None}]]
    /\ DOMAIN tables = Maps /\ \A m \in Maps : tables[m] \subseteq Nat
    /\ fault \in [Maps -> Faults \cup {None}]
    /\ halted \in {"no", "panic", "null"}

\* No page table entry leads to a frame that page::free has given back, whatever
\* the order of faults, removals and the end of threads.
NoDanglingEntry ==
    \A m \in Maps, a \in Pages : entry[m][a] # None => content[entry[m][a]] # None

\* A present page belongs to a mapping of its map and shows the page of the object
\* that the mapping puts there.
MappedRight ==
    \A m \in Maps, a \in Pages : entry[m][a] # None =>
        \E r \in oims[m] :
            /\ Covers(r, a)
            /\ content[entry[m][a]] = [object |-> r.object, offset |-> Offset(r, a)]

\* The list of an object is in order and has one entry for a page.
ListSorted ==
    \A o \in Objects : \A f \in Entries(o) :
        /\ content[f].object = o
        /\ nextOf[f] # None => OffsetOf(f) < OffsetOf(nextOf[f])

\* "Fill in the pages already loaded": two places that show the same page of an
\* object show the same frame.
SharedSame ==
    \A m, n \in Maps : \A r \in oims[m], q \in oims[n] : r.object = q.object =>
        \A a, b \in Pages :
            /\ Covers(r, a) /\ Covers(q, b) /\ Offset(r, a) = Offset(q, b)
            /\ entry[m][a] # None /\ entry[n][b] # None
            => entry[m][a] = entry[n][b]

\* A page of a mapping that is not present is one that generate would make: the
\* fault on it does not come back for ever.
FaultCanResolve ==
    (\A m \in Maps : Running(m)) =>
        \A m \in Maps : \A r \in oims[m] : \A a \in Pages :
            Covers(r, a) /\ entry[m][a] = None => ~NothingToDo(r.object, Offset(r, a))

\* Removing an object does not go through a page table the map does not have.
TablesThere == halted # "null"
=============================================================================
