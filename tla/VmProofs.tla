------------------------------ MODULE VmProofs ------------------------------
(***************************************************************************)
(* Proofs about memory objects and maps, for any number of threads, objects*)
(* and frames and any windows, as long as no two threads map the same      *)
(* object: what a present page shows, and the order of the page lists.     *)
(*                                                                         *)
(* The invariant describes a list twice: as the links generate follows,    *)
(* and as the frames that belong to the object.  It says that these are    *)
(* the same, and that the neighbours a page fault has found are still      *)
(* neighbours when it comes to link its page between them.                 *)
(***************************************************************************)
EXTENDS VmObject, WellFoundedInduction, TLAPS

\* No two threads map the same object, so that no two faults change one list.
PrivateObjects ==
    \A m, n \in Maps : m # n => \A r \in Mappings[m], q \in Mappings[n] : r.object # q.object

\* The frames that hold pages of object o.
Owned(o) == {f \in Frames : content[f] # None /\ content[f].object = o}

\* The list of an object goes through its frames by ascending offset.
ListInv ==
    \A o \in Objects :
        /\ head[o] # None => head[o] \in Owned(o)
        /\ \A f \in Owned(o) :
              /\ head[o] # None /\ OffsetOf(head[o]) <= OffsetOf(f)
              /\ nextOf[f] # None => nextOf[f] \in Owned(o) /\ OffsetOf(f) < OffsetOf(nextOf[f])
              /\ f # head[o] => \E g \in Owned(o) : nextOf[g] = f
        /\ \A f, g \in Owned(o) :
              /\ OffsetOf(f) < OffsetOf(g) => nextOf[f] # None /\ OffsetOf(nextOf[f]) <= OffsetOf(g)
              /\ OffsetOf(f) = OffsetOf(g) => f = g

\* No page of a map is in two windows.
WindowsInv ==
    \A m \in Maps : \A r, q \in oims[m] : \A a \in Pages : Covers(r, a) /\ Covers(q, a) => r = q

\* prev and next are where page t.offset belongs in the list.
PlaceFound(t) ==
    /\ t.prev # None => t.prev \in Owned(t.object) /\ OffsetOf(t.prev) < t.offset
    /\ t.next # None => t.next \in Owned(t.object) /\ t.offset < OffsetOf(t.next)
    /\ \A f \in Owned(t.object) :
          /\ OffsetOf(f) # t.offset
          /\ OffsetOf(f) < t.offset => t.prev # None /\ OffsetOf(f) <= OffsetOf(t.prev)
          /\ t.offset < OffsetOf(f) => t.next # None /\ OffsetOf(t.next) <= OffsetOf(f)

FaultInv ==
    \A m \in Maps : fault[m] # None =>
        /\ \E r \in oims[m] : r.object = fault[m].object
        /\ fault[m].step = "link" => PlaceFound(fault[m])
        /\ fault[m].step = "publish" =>
              /\ fault[m].frame # None
              /\ content[fault[m].frame] =
                    [object |-> fault[m].object, offset |-> fault[m].offset]

VmInv == TypeOK /\ ListInv /\ WindowsInv /\ FaultInv /\ MappedRight

-----------------------------------------------------------------------------
(* Operators                                                               *)

\* A set of numbers has a least element.
LEMMA LeastNumber ==
    ASSUME NEW T \in SUBSET Nat, T # {}
    PROVE  \E x \in T : \A y \in T : x <= y
  <1> DEFINE R == OpToRel(<, Nat)
  <1>1. IsWellFoundedOn(R, Nat)
      BY NatLessThanWellFounded
  <1>2. \A x, y \in Nat : x < y => <<x, y>> \in R
      BY DEF OpToRel
  <1> HIDE DEF R
  <1>3. PICK x \in T : \A y \in T : ~(<<y, x>> \in R)
      BY <1>1, WFMin
  <1>4. ASSUME NEW y \in T PROVE x <= y
    <2>1. x \in Nat /\ y \in Nat
        OBVIOUS
    <2>2. ~(y < x)
        BY <1>2, <1>3, <2>1, Zenon
    <2> QED
        BY <2>1, <2>2
  <1> QED
      BY <1>4

\* Among frames with contents, some has the least offset and some the greatest.
LEMMA ExtremeOffsets ==
    ASSUME TypeOK, NEW S \in SUBSET Frames, S # {}, \A f \in S : content[f] # None
    PROVE  /\ \E f \in S : \A g \in S : OffsetOf(g) >= OffsetOf(f)
           /\ \E f \in S : \A g \in S : OffsetOf(g) <= OffsetOf(f)
  <1> USE VmAssumption
  <1>0. PICK some : some \in S
      OBVIOUS
  <1>1. \A f \in S : OffsetOf(f) \in Nat /\ MaxPages - OffsetOf(f) \in Nat
      BY DEF TypeOK, OffsetOf
  <1>2. \E f \in S : \A g \in S : OffsetOf(g) >= OffsetOf(f)
    <2> DEFINE T == {OffsetOf(f) : f \in S}
    <2>1. T \subseteq Nat
        BY <1>1
    <2>0. OffsetOf(some) \in T
        BY <1>0
    <2>2. PICK x \in T : \A y \in T : x <= y
        BY <2>0, <2>1, LeastNumber
    <2> QED
        BY <1>1, <2>2
  <1>3. \E f \in S : \A g \in S : OffsetOf(g) <= OffsetOf(f)
    <2> DEFINE T == {MaxPages - OffsetOf(f) : f \in S}
    <2>1. T \subseteq Nat
        BY <1>1
    <2>0. MaxPages - OffsetOf(some) \in T
        BY <1>0
    <2>2. PICK x \in T : \A y \in T : x <= y
        BY <2>0, <2>1, LeastNumber
    <2>3. PICK f \in S : x = MaxPages - OffsetOf(f)
        BY <2>2
    <2>4. \A g \in S : MaxPages - OffsetOf(f) <= MaxPages - OffsetOf(g)
        BY <2>2, <2>3
    <2> QED
        BY <1>1, <2>4
  <1> QED
      BY <1>2, <1>3

\* What is known of a frame with contents.
LEMMA ContentFacts ==
    ASSUME TypeOK, NEW f \in Frames, content[f] # None
    PROVE  /\ content[f].object \in Objects
           /\ OffsetOf(f) \in 0..MaxPages - 1
           /\ content[f] = [object |-> content[f].object, offset |-> OffsetOf(f)]
  BY VmAssumption DEF TypeOK, OffsetOf

\* objects_in_maps holds mappings of maps.
LEMMA ShowingFacts ==
    ASSUME TypeOK, NEW o
    PROVE  /\ Showing(o) \in SUBSET (Maps \X Windows)
           /\ \A w \in Showing(o) : w[1] \in Maps /\ w[2] \in oims[w[1]] /\ w[2].object = o
  BY DEF TypeOK, Showing, Windows

\* The list of an object reaches every frame of the object and no other.
LEMMA EntriesOwned ==
    ASSUME TypeOK, ListInv, NEW o \in Objects
    PROVE  Entries(o) = Owned(o)
  <1> USE VmAssumption
  <1>1. Owned(o) \in SUBSET Frames /\ ClosedList(o, Owned(o))
      BY DEF ListInv, ClosedList, Owned
  <1>2. Entries(o) \subseteq Owned(o)
      BY <1>1 DEF Entries
  <1>3. ASSUME NEW S \in SUBSET Frames, ClosedList(o, S) PROVE Owned(o) \subseteq S
    <2> SUFFICES ASSUME Owned(o) \ S # {} PROVE FALSE
        OBVIOUS
    <2>1. PICK f \in Owned(o) \ S : \A g \in Owned(o) \ S : OffsetOf(g) >= OffsetOf(f)
        BY ExtremeOffsets DEF Owned
    <2>2. f # head[o]
        BY <1>3, <2>1 DEF ClosedList, ListInv
    <2>3. PICK g \in Owned(o) : nextOf[g] = f
        BY <2>1, <2>2 DEF ListInv
    <2>4. f # None
        BY <2>1 DEF Owned
    <2>5. g \notin S
        BY <1>3, <2>1, <2>3, <2>4 DEF ClosedList
    <2>6. OffsetOf(g) < OffsetOf(f)
        BY <2>3, <2>4 DEF ListInv
    <2>7. OffsetOf(g) >= OffsetOf(f)
        BY <2>1, <2>5
    <2>8. \A h \in Owned(o) : OffsetOf(h) \in 0..MaxPages - 1
        BY ContentFacts DEF Owned
    <2> QED
        BY <2>6, <2>7, <2>8
  <1>4. Owned(o) \subseteq Entries(o)
      BY <1>3 DEF Entries, Owned
  <1> QED
      BY <1>2, <1>4

\* A window has numbers.
LEMMA WindowFacts ==
    ASSUME TypeOK, NEW m \in Maps, NEW r \in oims[m]
    PROVE  /\ r \in Mappings[m] /\ r.object \in Objects
           /\ r.base \in Nat /\ r.offset \in Nat /\ r.pages \in Nat
  BY VmAssumption DEF TypeOK

-----------------------------------------------------------------------------
(* The invariant                                                           *)

LEMMA VmInitInv == Init => VmInv
  <1> SUFFICES ASSUME Init PROVE VmInv
      OBVIOUS
  <1> USE VmAssumption DEF Init
  <1>1. TypeOK
      BY DEF TypeOK
  <1>2. ListInv
      BY DEF ListInv, Owned
  <1>3. WindowsInv /\ FaultInv /\ MappedRight
      BY DEF WindowsInv, FaultInv, MappedRight
  <1> QED
      BY <1>1, <1>2, <1>3 DEF VmInv

\* Steps that change no object leave the lists and the places found in them alone.
LEMMA ListsSame ==
    ASSUME UNCHANGED <<content, nextOf, head>>
    PROVE  /\ \A o : Owned(o)' = Owned(o)
           /\ \A f : OffsetOf(f)' = OffsetOf(f)
           /\ ListInv => ListInv'
           /\ \A t : PlaceFound(t) => PlaceFound(t)'
  BY DEF Owned, OffsetOf, ListInv, PlaceFound

\* The kernel has stopped.
LEMMA HaltInv ==
    ASSUME VmInv, NEW m \in Maps, RemoveFaults(m) \/ FaultUnresolved(m)
    PROVE  VmInv'
  <1> UNCHANGED <<content, nextOf, head, refs, oims, entry, tables, fault>> /\ halted' \in {"null", "panic"}
      BY DEF RemoveFaults, FaultUnresolved, objectVars, mapVars
  <1> QED
      BY ListsSame DEF VmInv, TypeOK, WindowsInv, FaultInv, MappedRight

\* A new window shows the pages the object has, each once.
LEMMA AddObjectInv ==
    ASSUME VmInv, NEW m \in Maps, AddObject(m)
    PROVE  VmInv'
  <1> USE VmAssumption DEF VmInv
  <1>1. PICK r \in Mappings[m] :
           /\ Running(m)
           /\ \A q \in oims[m] : \A a \in Pages : ~(Covers(r, a) /\ Covers(q, a))
           /\ oims' = [oims EXCEPT ![m] = @ \cup {r}]
           /\ entry' = [entry EXCEPT ![m] = Loaded(@, r)]
           /\ tables' = [tables EXCEPT ![m] =
                  @ \cup UNION {NewTables(r, Place(r, OffsetOf(f))) : f \in Entries(r.object)}]
      BY DEF AddObject
  <1>2. UNCHANGED <<content, nextOf, head, refs, fault, halted>>
      BY DEF AddObject, objectVars
  <1>3. /\ r.object \in Objects /\ r.base \in Nat /\ r.offset \in Nat /\ r.pages \in Nat
        /\ r.base + r.pages <= AddrPages
      OBVIOUS
  <1>4. Entries(r.object) = Owned(r.object)
      BY <1>3, EntriesOwned
  <1>5. ASSUME NEW a \in Pages
        PROVE  \/ Loaded(entry[m], r)[a] = entry[m][a]
               \/ /\ Loaded(entry[m], r)[a] \in Owned(r.object)
                  /\ Inserts(r, OffsetOf(Loaded(entry[m], r)[a]), a)
    <2> DEFINE here == {f \in Entries(r.object) : Inserts(r, OffsetOf(f), a)}
    <2>1. Loaded(entry[m], r)[a] = IF here = {} THEN entry[m][a]
                                   ELSE CHOOSE f \in here : nextOf[f] \notin here
        BY DEF Loaded
    <2>2. CASE here = {}
        BY <2>1, <2>2
    <2>3. CASE here # {}
      <3>1. \A f, g \in here : f = g
        <4> SUFFICES ASSUME NEW f \in here, NEW g \in here PROVE f = g
            OBVIOUS
        <4>1. f \in Owned(r.object) /\ g \in Owned(r.object)
            BY <1>4
        <4>2. OffsetOf(f) \in 0..MaxPages - 1 /\ OffsetOf(g) \in 0..MaxPages - 1
            BY <4>1, ContentFacts DEF Owned
        <4>3. OffsetOf(f) = OffsetOf(g)
            BY <1>3, <4>2 DEF Inserts, Place
        <4> QED
            BY <1>3, <4>1, <4>3 DEF ListInv
      <3>2. PICK f : f \in here
          BY <2>3
      <3>3. nextOf[f] \notin here
        <4>1. f \in Owned(r.object)
            BY <1>4, <3>2
        <4>2. nextOf[f] # None => OffsetOf(f) < OffsetOf(nextOf[f])
            BY <1>3, <4>1 DEF ListInv
        <4>3. OffsetOf(f) \in 0..MaxPages - 1
            BY <4>1, ContentFacts DEF Owned
        <4>4. nextOf[f] = None => nextOf[f] \notin here
            BY <1>4 DEF Owned
        <4> QED
            BY <3>1, <3>2, <4>2, <4>3, <4>4
      <3>4. (CHOOSE g \in here : nextOf[g] \notin here) \in here
          BY <3>2, <3>3
      <3> QED
          BY <1>4, <2>1, <2>3, <3>4
    <2> QED
        BY <2>2, <2>3
  <1>6. Loaded(entry[m], r) \in [Pages -> Frames \cup {None}]
    <2>1. \A a \in Pages : Loaded(entry[m], r)[a] \in Frames \cup {None}
        BY <1>5 DEF Owned, TypeOK
    <2>2. Loaded(entry[m], r) = [a \in Pages |-> Loaded(entry[m], r)[a]]
        BY DEF Loaded
    <2> QED
        BY <2>1, <2>2
  <1>7. UNION {NewTables(r, Place(r, OffsetOf(f))) : f \in Entries(r.object)} \subseteq Nat
    <2>1. \A a : Covers(r, a) => TableOf(a) \in Nat
        BY <1>3 DEF Covers, TableOf
    <2> QED
        BY <2>1 DEF NewTables
  <1>8. TypeOK'
      BY <1>1, <1>2, <1>6, <1>7 DEF TypeOK
  <1>9. ListInv'
      BY <1>2, ListsSame
  <1>10. WindowsInv'
      BY <1>1 DEF WindowsInv, TypeOK
  <1>11. FaultInv'
      BY <1>1, <1>2, ListsSame DEF FaultInv, TypeOK
  <1>12. MappedRight'
    <2> SUFFICES ASSUME NEW n \in Maps, NEW a \in Pages, entry'[n][a] # None
                 PROVE  \E q \in oims'[n] : /\ Covers(q, a)
                            /\ content[entry'[n][a]] = [object |-> q.object, offset |-> Offset(q, a)]
        BY <1>2 DEF MappedRight
    <2>1. CASE entry'[n][a] = entry[n][a]
        BY <1>1, <2>1, SMTT(60) DEF MappedRight, TypeOK
    <2>2. CASE entry'[n][a] # entry[n][a]
      <3> DEFINE f == entry'[n][a]
      <3>1. n = m /\ f = Loaded(entry[m], r)[a]
          BY <1>1, <2>2 DEF TypeOK
      <3>2. f \in Owned(r.object) /\ Inserts(r, OffsetOf(f), a)
          BY <1>5, <2>2, <3>1
      <3>3. /\ OffsetOf(f) \in 0..MaxPages - 1
            /\ content[f] = [object |-> r.object, offset |-> OffsetOf(f)]
          BY <3>2, ContentFacts DEF Owned
      <3>4. OffsetOf(f) = Offset(r, a) /\ Covers(r, a)
          BY <1>3, <3>2, <3>3 DEF Inserts, Place, Offset
      <3>5. r \in oims'[n]
          BY <1>1, <3>1 DEF TypeOK
      <3> QED
          BY <3>3, <3>4, <3>5
    <2> QED
        BY <2>1, <2>2
  <1> QED
      BY <1>8, <1>9, <1>10, <1>11, <1>12

\* Windows go, and with them the objects nothing refers to: what is left shows what it did.
LEMMA ReleaseInv ==
    ASSUME VmInv, NEW gone \in SUBSET Objects, Destroy(gone), TypeOK',
           fault' = fault,
           \A m \in Maps : /\ oims'[m] \subseteq oims[m]
                           /\ fault[m] # None => oims'[m] = oims[m]
                           /\ \A r \in oims'[m] : r.object \notin gone,
           \A m \in Maps, a \in Pages : entry'[m][a] # None =>
               /\ entry'[m][a] = entry[m][a]
               /\ \A r \in oims[m] : /\ Covers(r, a)
                                     /\ r.object = content[entry[m][a]].object
                                     /\ Offset(r, a) = OffsetOf(entry[m][a])
                                     => r \in oims'[m]
    PROVE  VmInv'
  <1> USE VmAssumption DEF VmInv
  <1> DEFINE freed == UNION {Owned(o) : o \in gone}
  <1>1. freed = UNION {Entries(o) : o \in gone}
      BY EntriesOwned
  <1>2. /\ content' = [f \in Frames |-> IF f \in freed THEN None ELSE content[f]]
        /\ nextOf' = [f \in Frames |-> IF f \in freed THEN None ELSE nextOf[f]]
        /\ head' = [o \in Objects |-> IF o \in gone THEN None ELSE head[o]]
      BY <1>1 DEF Destroy
  <1>3. \A o \in Objects : /\ o \in gone => Owned(o)' = {}
                           /\ o \notin gone => Owned(o)' = Owned(o)
      BY <1>2 DEF Owned
  <1>4. \A o \in Objects \ gone : \A f \in Owned(o) :
           f \notin freed /\ f \in Frames /\ content'[f] = content[f] /\ nextOf'[f] = nextOf[f]
              /\ OffsetOf(f)' = OffsetOf(f)
      BY <1>2 DEF Owned, OffsetOf
  <1> HIDE DEF freed
  <1>5. ListInv'
    <2> SUFFICES ASSUME NEW o \in Objects \ gone
                 PROVE  ListInv!(o)'
        BY <1>2, <1>3 DEF ListInv
    <2>1. head'[o] = head[o] /\ Owned(o)' = Owned(o)
        BY <1>2, <1>3
    <2>2. ListInv!(o)
        BY DEF ListInv
    <2> QED
        BY <1>4, <2>1, <2>2
  <1>6. WindowsInv'
      BY DEF WindowsInv
  <1>7. FaultInv'
    <2> SUFFICES ASSUME NEW m \in Maps, fault[m] # None
                 PROVE  FaultInv!(m)'
        BY DEF FaultInv
    <2>1. FaultInv!(m)
        BY DEF FaultInv
    <2>2. fault[m].object \in Objects \ gone
        BY <2>1 DEF TypeOK, Faults
    <2>3. Owned(fault[m].object)' = Owned(fault[m].object)
        BY <1>3, <2>2
    <2>4. fault[m].step = "link" => PlaceFound(fault[m])'
        BY <1>4, <2>1, <2>2, <2>3 DEF PlaceFound
    <2>5. ASSUME fault[m].step = "publish"
          PROVE  content'[fault[m].frame] = content[fault[m].frame]
      <3>1. fault[m].frame \in Frames
          BY <2>1, <2>5 DEF TypeOK, Faults
      <3>2. fault[m].offset \in Nat
          BY DEF TypeOK, Faults
      <3>3. content[fault[m].frame] # None
          BY <2>1, <2>2, <2>5, <3>2
      <3>4. fault[m].frame \in Owned(fault[m].object)
          BY <2>1, <2>5, <3>1, <3>3 DEF Owned
      <3> QED
          BY <1>4, <2>2, <3>4
    <2> QED
        BY <2>1, <2>4, <2>5
  <1>8. MappedRight'
    <2> SUFFICES ASSUME NEW m \in Maps, NEW a \in Pages, entry'[m][a] # None
                 PROVE  MappedRight!(m, a)'
        BY DEF MappedRight
    <2> DEFINE f == entry[m][a]
    <2>1. PICK r \in oims[m] :
             /\ Covers(r, a)
             /\ content[f] = [object |-> r.object, offset |-> Offset(r, a)]
        BY SMTT(60) DEF MappedRight
    <2>2. r \in oims'[m]
        BY <2>1 DEF OffsetOf
    <2>3. f \in Frames /\ r.object \in Objects \ gone
        BY <2>1, <2>2, WindowFacts DEF TypeOK
    <2>4. Offset(r, a) \in Nat
        BY <2>1, WindowFacts DEF Offset, Covers, Pages
    <2>5. content[f] # None
        BY <2>1, <2>3, <2>4
    <2>6. f \in Owned(r.object)
        BY <2>1, <2>3, <2>5 DEF Owned
    <2>7. content'[f] = content[f]
        BY <1>4, <2>3, <2>6
    <2> QED
        BY <2>1, <2>2, <2>7
  <1> QED
      BY <1>5, <1>6, <1>7, <1>8

\* An entry that shows a window is cleared with it.
LEMMA ClearedShown ==
    ASSUME VmInv, NEW m \in Maps, NEW a \in Pages, NEW r \in oims[m],
           entry[m][a] # None,
           Covers(r, a), r.object = content[entry[m][a]].object,
           Offset(r, a) = OffsetOf(entry[m][a])
    PROVE  a \in Cleared(r, Entries(r.object))
  <1> USE VmAssumption DEF VmInv
  <1> DEFINE f == entry[m][a]
  <1>1. PICK q \in oims[m] :
           /\ Covers(q, a)
           /\ content[f] = [object |-> q.object, offset |-> Offset(q, a)]
      BY DEF MappedRight
  <1>2. Offset(q, a) \in Nat /\ q.object \in Objects
      BY <1>1, WindowFacts DEF Offset, Covers, Pages
  <1>3. f \in Frames /\ content[f] # None
      BY <1>1, <1>2 DEF TypeOK
  <1>4. r.object \in Objects /\ f \in Entries(r.object)
      BY <1>3, WindowFacts, EntriesOwned DEF Owned
  <1>5. a = Place(r, OffsetOf(f)) /\ a >= 0
      BY WindowFacts DEF Place, Offset, Pages
  <1> QED
      BY <1>4, <1>5 DEF Cleared

\* remove_object and remove_object_at.
LEMMA RemoveInv ==
    ASSUME VmInv, NEW m \in Maps, NEW dropped \in SUBSET oims[m],
           Running(m), Unmap(m, dropped), ClearEntries(m, dropped), UNCHANGED tables
    PROVE  VmInv'
  <1> USE VmAssumption
  <1> DEFINE kept == oims[m] \ dropped
             gone == Orphans(m, kept)
             clear == UNION {Cleared(r, Entries(r.object)) : r \in dropped}
  <1>1. /\ oims' = [oims EXCEPT ![m] = kept]
        /\ Destroy(gone)
        /\ UNCHANGED <<refs, fault, halted>>
        /\ fault[m] = None
      BY DEF Unmap, Running
  <1>2. entry' = [entry EXCEPT ![m] = [a \in Pages |-> IF a \in clear THEN None ELSE @[a]]]
      BY DEF ClearEntries
  <1>3. gone \in SUBSET Objects
      BY DEF Orphans
  <1>4. TypeOK'
    <2>1. /\ content' \in [Frames -> [object : Objects, offset : 0..MaxPages - 1] \cup {None}]
          /\ nextOf' \in [Frames -> Frames \cup {None}]
          /\ head' \in [Objects -> Frames \cup {None}]
        BY <1>1 DEF Destroy, VmInv, TypeOK
    <2>2. entry' \in [Maps -> [Pages -> Frames \cup {None}]]
        BY <1>2 DEF VmInv, TypeOK
    <2> QED
        BY <1>1, <2>1, <2>2 DEF VmInv, TypeOK
  <1>5. \A n \in Maps : /\ oims'[n] \subseteq oims[n]
                        /\ fault[n] # None => oims'[n] = oims[n]
                        /\ \A r \in oims'[n] : r.object \notin gone
      BY <1>1 DEF Orphans, VmInv, TypeOK
  <1>6. ASSUME NEW n \in Maps, NEW a \in Pages, entry'[n][a] # None
        PROVE  /\ entry'[n][a] = entry[n][a]
               /\ \A r \in oims[n] : /\ Covers(r, a)
                                     /\ r.object = content[entry[n][a]].object
                                     /\ Offset(r, a) = OffsetOf(entry[n][a])
                                     => r \in oims'[n]
    <2>1. CASE n # m
        BY <1>1, <1>2, <2>1 DEF VmInv, TypeOK
    <2>2. CASE n = m
      <3>1. a \notin clear /\ entry'[m][a] = entry[m][a]
          BY <1>2, <1>6, <2>2 DEF VmInv, TypeOK
      <3>2. \A r \in dropped : a \notin Cleared(r, Entries(r.object))
          BY <3>1
      <3>3. oims'[m] = kept
          BY <1>1 DEF VmInv, TypeOK
      <3> QED
          BY <1>6, <2>2, <3>1, <3>2, <3>3, ClearedShown
    <2> QED
        BY <2>1, <2>2
  <1> HIDE DEF gone, kept, clear
  <1> QED
      BY <1>1, <1>3, <1>4, <1>5, <1>6, ReleaseInv

LEMMA DestroyMapInv ==
    ASSUME VmInv, NEW m \in Maps, DestroyMap(m)
    PROVE  VmInv'
  <1> USE VmAssumption
  <1> DEFINE gone == Orphans(m, {})
  <1>1. /\ oims' = [oims EXCEPT ![m] = {}]
        /\ Destroy(gone)
        /\ UNCHANGED <<refs, fault, halted>>
        /\ fault[m] = None
        /\ tables' = [tables EXCEPT ![m] = {}]
        /\ entry' = [entry EXCEPT ![m] = [a \in Pages |-> None]]
    <2>1. oims[m] \ oims[m] = {}
        OBVIOUS
    <2> QED
        BY <2>1 DEF DestroyMap, Unmap, Running
  <1>2. gone \in SUBSET Objects
      BY DEF Orphans
  <1>3. TypeOK'
    <2>1. /\ content' \in [Frames -> [object : Objects, offset : 0..MaxPages - 1] \cup {None}]
          /\ nextOf' \in [Frames -> Frames \cup {None}]
          /\ head' \in [Objects -> Frames \cup {None}]
        BY <1>1 DEF Destroy, VmInv, TypeOK
    <2>2. entry' \in [Maps -> [Pages -> Frames \cup {None}]]
        BY <1>1 DEF VmInv, TypeOK
    <2> QED
        BY <1>1, <2>1, <2>2 DEF VmInv, TypeOK
  <1>4. \A n \in Maps : /\ oims'[n] \subseteq oims[n]
                        /\ fault[n] # None => oims'[n] = oims[n]
                        /\ \A r \in oims'[n] : r.object \notin gone
      BY <1>1 DEF Orphans, VmInv, TypeOK
  <1>5. \A n \in Maps, a \in Pages : entry'[n][a] # None =>
           n # m /\ entry'[n][a] = entry[n][a] /\ oims'[n] = oims[n]
      BY <1>1 DEF VmInv, TypeOK
  <1> HIDE DEF gone
  <1> QED
      BY <1>1, <1>2, <1>3, <1>4, <1>5, ReleaseInv

LEMMA DropInv ==
    ASSUME VmInv, NEW o \in Objects, Drop(o)
    PROVE  VmInv'
  <1> USE VmAssumption
  <1>0. UNCHANGED <<oims, entry, tables, fault, halted>> /\ refs' \subseteq Objects
      BY DEF Drop, mapVars, VmInv, TypeOK
  <1>1. CASE Mapped(o)
    <2> UNCHANGED <<content, nextOf, head>>
        BY <1>1 DEF Drop
    <2> QED
        BY <1>0, ListsSame, SMTT(60) DEF VmInv, TypeOK, WindowsInv, FaultInv, MappedRight
  <1>2. CASE ~Mapped(o)
    <2>1. Destroy({o})
        BY <1>2 DEF Drop
    <2>2. TypeOK'
        BY <1>0, <2>1 DEF Destroy, VmInv, TypeOK
    <2>3. \A m \in Maps : \A r \in oims'[m] : r.object \notin {o}
        BY <1>0, <1>2 DEF Mapped
    <2> QED
        BY <1>0, <2>1, <2>2, <2>3, ReleaseInv
  <1> QED
      BY <1>1, <1>2

\* generate walks to the place of the page.
LEMMA FaultFindInv ==
    ASSUME VmInv, NEW m \in Maps, FaultFind(m)
    PROVE  VmInv'
  <1> USE VmAssumption DEF VmInv
  <1>1. PICK a \in Pages, r \in oims[m] :
           LET o == r.object
               before == {f \in Entries(o) : OffsetOf(f) < Offset(r, a)}
               after == Entries(o) \ before
           IN
           /\ Covers(r, a)
           /\ ~NothingToDo(o, Offset(r, a))
           /\ fault' = [fault EXCEPT ![m] =
               [step |-> "link", object |-> o, offset |-> Offset(r, a), frame |-> None,
                left |-> {},
                prev |-> IF before = {} THEN None
                         ELSE CHOOSE f \in before : \A g \in before : OffsetOf(g) <= OffsetOf(f),
                next |-> IF after = {} THEN None
                         ELSE CHOOSE f \in after : \A g \in after : OffsetOf(g) >= OffsetOf(f)]]
      BY DEF FaultFind
  <1> DEFINE o == r.object
             offset == Offset(r, a)
             before == {f \in Owned(o) : OffsetOf(f) < offset}
             after == Owned(o) \ before
             prev == IF before = {} THEN None
                     ELSE CHOOSE f \in before : \A g \in before : OffsetOf(g) <= OffsetOf(f)
             next == IF after = {} THEN None
                     ELSE CHOOSE f \in after : \A g \in after : OffsetOf(g) >= OffsetOf(f)
             t == [step |-> "link", object |-> o, offset |-> offset, frame |-> None,
                   left |-> {}, prev |-> prev, next |-> next]
  <1>2. UNCHANGED <<content, nextOf, head, refs, oims, entry, tables, halted>>
      BY DEF FaultFind, objectVars, mapVars
  <1>3. o \in Objects /\ Entries(o) = Owned(o)
      BY WindowFacts, EntriesOwned
  <1>4. fault' = [fault EXCEPT ![m] = t]
      BY <1>1, <1>3
  <1>5. /\ offset \in 0..MaxPages - 1
        /\ \A f \in Owned(o) : OffsetOf(f) # offset
      BY <1>1, <1>3, WindowFacts DEF NothingToDo, Offset, Covers, Pages
  <1>6. \A f \in Owned(o) : f \in Frames /\ content[f] # None /\ OffsetOf(f) \in 0..MaxPages - 1
      BY ContentFacts DEF Owned
  <1>7. /\ before # {} => prev \in before /\ \A g \in before : OffsetOf(g) <= OffsetOf(prev)
        /\ before = {} => prev = None
    <2>1. before \in SUBSET Frames /\ \A f \in before : content[f] # None
        BY <1>6
    <2> HIDE DEF before
    <2>2. before # {} => \E f \in before : \A g \in before : OffsetOf(g) <= OffsetOf(f)
        BY <2>1, ExtremeOffsets
    <2> QED
        BY <2>2
  <1>8. /\ after # {} => next \in after /\ \A g \in after : OffsetOf(g) >= OffsetOf(next)
        /\ after = {} => next = None
    <2>1. after \in SUBSET Frames /\ \A f \in after : content[f] # None
        BY <1>6
    <2> HIDE DEF after
    <2>2. after # {} => \E f \in after : \A g \in after : OffsetOf(g) >= OffsetOf(f)
        BY <2>1, ExtremeOffsets
    <2> QED
        BY <2>2
  <1> HIDE DEF prev, next
  <1>9. prev \in Frames \cup {None} /\ next \in Frames \cup {None}
      BY <1>6, <1>7, <1>8
  <1>10. t \in Faults
      BY <1>3, <1>5, <1>9 DEF Faults
  <1>11. PlaceFound(t)
    <2>1. prev # None => prev \in Owned(o) /\ OffsetOf(prev) < offset
        BY <1>7
    <2>2. next # None => next \in Owned(o) /\ offset < OffsetOf(next)
      <3> SUFFICES ASSUME next # None PROVE next \in Owned(o) /\ offset < OffsetOf(next)
          OBVIOUS
      <3>1. next \in after
          BY <1>8
      <3> HIDE DEF offset
      <3> QED
          BY <3>1, <1>5, <1>6
    <2>3. ASSUME NEW f \in Owned(o), OffsetOf(f) < offset
          PROVE  prev # None /\ OffsetOf(f) <= OffsetOf(prev)
        BY <1>6, <1>7, <2>3
    <2>4. ASSUME NEW f \in Owned(o), offset < OffsetOf(f)
          PROVE  next # None /\ OffsetOf(next) <= OffsetOf(f)
      <3>1. f \in after
        <4> HIDE DEF offset
        <4> QED
            BY <1>5, <1>6, <2>4
      <3>2. next \in after /\ OffsetOf(f) >= OffsetOf(next)
          BY <1>8, <3>1
      <3>3. next \in Owned(o)
          BY <3>2
      <3> QED
          BY <1>6, <3>2, <3>3
    <2> QED
        BY <1>5, <2>1, <2>2, <2>3, <2>4 DEF PlaceFound
  <1>12. TypeOK'
      BY <1>2, <1>4, <1>10 DEF TypeOK
  <1>13. ListInv' /\ WindowsInv' /\ MappedRight'
      BY <1>2, ListsSame DEF WindowsInv, MappedRight
  <1>14. FaultInv'
    <2> SUFFICES ASSUME NEW n \in Maps, fault'[n] # None PROVE FaultInv!(n)'
        BY DEF FaultInv
    <2>1. CASE n = m
      <3>1. fault'[n] = t
          BY <1>4, <2>1 DEF TypeOK
      <3>2. t.step = "link" /\ t.object = r.object
          OBVIOUS
      <3> HIDE DEF t
      <3>3. PICK found : found = t
          OBVIOUS
      <3>4. PlaceFound(found)'
          BY <1>2, <1>11, <3>3, ListsSame
      <3>5. r \in oims'[n] /\ r.object = fault'[n].object /\ fault'[n].step = "link"
          BY <1>2, <2>1, <3>1, <3>2
      <3>6. PlaceFound(fault[n])'
          BY <3>1, <3>3, <3>4 DEF PlaceFound
      <3> QED
          BY <3>5, <3>6
    <2>2. CASE n # m
      <3>1. fault'[n] = fault[n]
          BY <1>4, <2>2 DEF TypeOK
      <3> QED
          BY <1>2, <3>1, ListsSame DEF FaultInv
    <2> QED
        BY <2>1, <2>2
  <1> QED
      BY <1>12, <1>13, <1>14

\* The page goes between its neighbours.
LEMMA FaultLinkInv ==
    ASSUME VmInv, PrivateObjects, NEW m \in Maps, FaultLink(m)
    PROVE  VmInv'
  <1> USE VmAssumption DEF VmInv
  <1> DEFINE free == {g \in Frames : content[g] = None}
  <1>0. PICK t, f : t = fault[m] /\ f = Min(free)
      OBVIOUS
  <1> DEFINE o == t.object
             u == [t EXCEPT !.step = "publish", !.frame = f, !.left = Showing(o)]
             offset(g) == content'[g].offset
             owned(p) == {g \in Frames : content'[g] # None /\ content'[g].object = p}
  <1>1. f \in Frames /\ content[f] = None
    <2>1. free # {} /\ free \in SUBSET Nat
        BY DEF FaultLink
    <2>2. f \in free
        BY <1>0, <2>1, LeastNumber DEF Min
    <2> QED
        BY <2>2
  <1>2. /\ t \in Faults /\ t # None /\ t.step = "link"
        /\ content' = [content EXCEPT ![f] = [object |-> o, offset |-> t.offset]]
        /\ fault' = [fault EXCEPT ![m] = u]
        /\ UNCHANGED <<refs, oims, entry, tables, halted>>
    <2>1. fault' = [fault EXCEPT ![m].step = "publish", ![m].frame = f,
                                 ![m].left = Showing(o)]
        BY <1>0 DEF FaultLink
    <2>2. fault' = [fault EXCEPT ![m] = u]
        BY <1>0, <2>1 DEF TypeOK
    <2> QED
        BY <1>0, <2>2, ZenonT(60) DEF FaultLink, mapVars, TypeOK
  <1>3. /\ head' = IF t.prev = None THEN [head EXCEPT ![o] = f] ELSE head
        /\ nextOf' = IF t.prev = None THEN [nextOf EXCEPT ![f] = t.next]
                     ELSE [nextOf EXCEPT ![f] = t.next, ![t.prev] = f]
      BY <1>0 DEF FaultLink
  <1>4. o \in Objects /\ t.offset \in 0..MaxPages - 1
        /\ t.prev \in Frames \cup {None} /\ t.next \in Frames \cup {None}
      BY <1>2 DEF Faults
  <1>5. PlaceFound(t)
      BY <1>0, <1>2 DEF FaultInv
  <1>6. u \in Faults /\ u.step = "publish" /\ u.frame = f /\ u.object = o /\ u.offset = t.offset
    <2>1. PICK shown : shown = Showing(o)
        OBVIOUS
    <2>2. shown \in SUBSET (Maps \X Windows)
        BY <2>1, ShowingFacts
    <2> QED
        BY <1>1, <1>2, <2>1, <2>2 DEF Faults
  <1> HIDE DEF u, free
  <1>7. TypeOK'
    <2>1. content' \in [Frames -> [object : Objects, offset : 0..MaxPages - 1] \cup {None}]
        BY <1>1, <1>2, <1>4 DEF TypeOK
    <2>2. nextOf' \in [Frames -> Frames \cup {None}]
        BY <1>1, <1>3, <1>4 DEF TypeOK
    <2>3. head' \in [Objects -> Frames \cup {None}]
        BY <1>1, <1>3, <1>4 DEF TypeOK
    <2> QED
        BY <1>2, <1>6, <2>1, <2>2, <2>3 DEF TypeOK
  <1>8. content'[f] = [object |-> o, offset |-> t.offset] /\ content'[f] # None
      BY <1>1, <1>2, <1>4 DEF TypeOK
  <1>9. /\ owned(o) = Owned(o) \cup {f}
        /\ \A p \in Objects \ {o} : owned(p) = Owned(p)
        /\ \A p \in Objects : f \notin Owned(p)
      BY <1>1, <1>2, <1>4, <1>8 DEF Owned, TypeOK
  <1>10. offset(f) = t.offset
      BY <1>8
  <1>11. \A g \in Frames \ {f} : offset(g) = OffsetOf(g)
      BY <1>2 DEF OffsetOf, TypeOK
  <1>12. \A p \in Objects : \A g \in Owned(p) :
            g \in Frames \ {f} /\ OffsetOf(g) \in 0..MaxPages - 1 /\ offset(g) = OffsetOf(g)
      BY <1>1, <1>11, ContentFacts DEF Owned
  <1>13. ListInv'
    <2> DEFINE listed(p) ==
       /\ head'[p] # None => head'[p] \in owned(p)
       /\ \A g \in owned(p) :
             /\ head'[p] # None /\ offset(head'[p]) <= offset(g)
             /\ nextOf'[g] # None => nextOf'[g] \in owned(p) /\ offset(g) < offset(nextOf'[g])
             /\ g # head'[p] => \E h \in owned(p) : nextOf'[h] = g
       /\ \A g, h \in owned(p) :
             /\ offset(g) < offset(h) => nextOf'[g] # None /\ offset(nextOf'[g]) <= offset(h)
             /\ offset(g) = offset(h) => g = h
    <2>1. ASSUME NEW p \in Objects \ {o} PROVE listed(p)
      <3>1. ListInv!(p)
          BY DEF ListInv
      <3>2. head'[p] = head[p]
          BY <1>3, <1>4 DEF TypeOK
      <3>3. \A g \in Owned(p) : nextOf'[g] = nextOf[g]
        <4>1. t.prev # None => t.prev \in Owned(o)
            BY <1>5 DEF PlaceFound
        <4>2. t.prev # None => t.prev \notin Owned(p)
            BY <4>1 DEF Owned
        <4> QED
            BY <1>1, <1>3, <1>12, <4>2 DEF TypeOK
      <3>4. owned(p) = Owned(p) /\ \A g \in Owned(p) : offset(g) = OffsetOf(g)
          BY <1>9, <1>12
      <3>5. head'[p] # None => head'[p] \in owned(p) /\ offset(head'[p]) = OffsetOf(head[p])
          BY <3>1, <3>2, <3>4
      <3>6. \A g \in Owned(p) : nextOf[g] # None =>
               nextOf'[g] \in Owned(p) /\ offset(nextOf'[g]) = OffsetOf(nextOf[g])
          BY <3>1, <3>3, <3>4
      <3> HIDE DEF owned, offset
      <3>7. \A g \in owned(p) :
               /\ head'[p] # None /\ offset(head'[p]) <= offset(g)
               /\ nextOf'[g] # None => nextOf'[g] \in owned(p) /\ offset(g) < offset(nextOf'[g])
               /\ g # head'[p] => \E h \in owned(p) : nextOf'[h] = g
          BY <3>1, <3>2, <3>3, <3>4, <3>5, <3>6
      <3>8. \A g, h \in owned(p) :
               /\ offset(g) < offset(h) => nextOf'[g] # None /\ offset(nextOf'[g]) <= offset(h)
               /\ offset(g) = offset(h) => g = h
          BY <3>1, <3>3, <3>4, <3>6
      <3> QED
          BY <3>5, <3>7, <3>8
    <2>2. listed(o)
      <3>1. ListInv!(o)
          BY <1>4 DEF ListInv
      <3>2. nextOf'[f] = t.next
        <4>1. t.prev # f
            BY <1>4, <1>5, <1>9, <1>1 DEF PlaceFound
        <4> QED
            BY <1>1, <1>3, <4>1 DEF TypeOK
      <3>3. \A g \in Owned(o) : g # t.prev => nextOf'[g] = nextOf[g]
          BY <1>3, <1>4, <1>12 DEF TypeOK
      <3>4. t.prev # None => nextOf'[t.prev] = f /\ t.prev \in Owned(o)
          BY <1>1, <1>3, <1>4, <1>5 DEF TypeOK, PlaceFound
      <3>5. head'[o] = IF t.prev = None THEN f ELSE head[o]
          BY <1>3, <1>4 DEF TypeOK
      <3>6. head'[o] # None => head'[o] \in owned(o)
          BY <1>1, <1>9, <3>1, <3>5
      <3>7. \A g \in owned(o) : head'[o] # None /\ offset(head'[o]) <= offset(g)
        <4>1. CASE t.prev = None
          <5>1. head'[o] = f /\ f # None
              BY <1>1, <3>5, <4>1
          <5>2. \A g \in Owned(o) : t.offset <= OffsetOf(g)
              BY <1>4, <1>5, <1>12, <4>1 DEF PlaceFound
          <5> QED
              BY <1>4, <1>9, <1>10, <1>12, <5>1, <5>2
        <4>2. CASE t.prev # None
          <5>1. head'[o] = head[o] /\ head[o] # None /\ head[o] \in Owned(o)
              BY <3>1, <3>4, <3>5, <4>2
          <5>2. OffsetOf(head[o]) <= OffsetOf(t.prev) /\ OffsetOf(t.prev) < t.offset
              BY <1>5, <3>1, <3>4, <4>2 DEF PlaceFound
          <5>3. OffsetOf(head[o]) <= t.offset
              BY <1>4, <1>12, <3>4, <4>2, <5>1, <5>2
          <5> QED
              BY <1>4, <1>9, <1>10, <1>12, <3>1, <5>1, <5>3
        <4> QED
            BY <4>1, <4>2
      <3>8. \A g \in owned(o) : nextOf'[g] # None =>
               nextOf'[g] \in owned(o) /\ offset(g) < offset(nextOf'[g])
        <4> SUFFICES ASSUME NEW g \in owned(o), nextOf'[g] # None
                     PROVE  nextOf'[g] \in owned(o) /\ offset(g) < offset(nextOf'[g])
            OBVIOUS
        <4>1. CASE g = f
            BY <1>4, <1>5, <1>9, <1>10, <1>12, <3>2, <4>1 DEF PlaceFound
        <4>2. CASE g = t.prev /\ g # f
            BY <1>1, <1>4, <1>5, <1>9, <1>10, <1>12, <3>4, <4>2 DEF PlaceFound
        <4>3. CASE g # f /\ g # t.prev
            BY <1>4, <1>9, <1>12, <3>1, <3>3, <4>3
        <4> QED
            BY <4>1, <4>2, <4>3
      <3>9. \A g, h \in owned(o) : offset(g) = offset(h) => g = h
          BY <1>4, <1>5, <1>9, <1>10, <1>12, <3>1 DEF PlaceFound
      <3>10. t.prev # None /\ nextOf[t.prev] # None => nextOf[t.prev] = t.next
        <4> SUFFICES ASSUME t.prev # None, nextOf[t.prev] # None PROVE nextOf[t.prev] = t.next
            OBVIOUS
        <4> DEFINE n == nextOf[t.prev]
        <4>1. n \in Owned(o) /\ OffsetOf(t.prev) < OffsetOf(n)
            BY <3>1, <3>4
        <4>2. t.offset < OffsetOf(n)
            BY <1>4, <1>5, <1>12, <3>4, <4>1 DEF PlaceFound
        <4>3. t.next \in Owned(o) /\ t.offset < OffsetOf(t.next) /\ OffsetOf(t.next) <= OffsetOf(n)
            BY <1>5, <4>1, <4>2 DEF PlaceFound
        <4>4. OffsetOf(t.prev) < OffsetOf(t.next)
            BY <1>4, <1>5, <1>12, <3>4, <4>3 DEF PlaceFound
        <4>5. OffsetOf(n) <= OffsetOf(t.next)
            BY <3>1, <3>4, <4>3, <4>4
        <4>6. OffsetOf(n) = OffsetOf(t.next)
            BY <1>4, <1>12, <4>1, <4>3, <4>5
        <4> QED
            BY <3>1, <4>1, <4>3, <4>6
      <3>11. ASSUME NEW g \in owned(o), g # head'[o]
             PROVE  \E h \in owned(o) : nextOf'[h] = g
        <4>1. CASE g = f
            BY <1>9, <3>4, <3>5, <3>11, <4>1
        <4>2. CASE g # f /\ t.prev = None
          <5>1. g \in Owned(o)
              BY <1>9, <4>2
          <5>2. CASE g = head[o]
            <6>1. t.offset < OffsetOf(g)
                BY <1>4, <1>5, <1>12, <4>2, <5>1 DEF PlaceFound
            <6>2. t.next \in Owned(o) /\ OffsetOf(t.next) <= OffsetOf(g)
                BY <1>5, <5>1, <6>1 DEF PlaceFound
            <6>3. OffsetOf(g) <= OffsetOf(t.next)
                BY <3>1, <5>2, <6>2
            <6>0. OffsetOf(t.next) = OffsetOf(g)
                BY <1>4, <1>12, <5>1, <6>2, <6>3
            <6>4. t.next = g
                BY <3>1, <5>1, <6>0, <6>2
            <6> QED
                BY <1>9, <3>2, <6>4
          <5>3. CASE g # head[o]
            <6>1. PICK h \in Owned(o) : nextOf[h] = g
                BY <3>1, <5>1, <5>3
            <6>2. h \in owned(o)
                BY <1>9
            <6>3. h # t.prev
                BY <1>4, <1>12, <4>2, VmAssumption
            <6>4. nextOf'[h] = g
                BY <3>3, <6>1, <6>3
            <6> QED
                BY <6>2, <6>4
          <5> QED
              BY <5>2, <5>3
        <4>3. CASE g # f /\ t.prev # None
          <5>1. g \in Owned(o) /\ g # head[o]
              BY <1>9, <3>5, <3>11, <4>3
          <5>2. PICK h \in Owned(o) : nextOf[h] = g
              BY <3>1, <5>1
          <5>3. CASE h # t.prev
              BY <1>9, <3>3, <5>2, <5>3
          <5>4. CASE h = t.prev
            <6>1. g # None
                BY <1>4, <1>12, <5>1
            <6>2. g = t.next
                BY <3>10, <4>3, <5>2, <5>4, <6>1
            <6> QED
                BY <1>9, <3>2, <6>2
          <5> QED
              BY <5>3, <5>4
        <4> QED
            BY <4>1, <4>2, <4>3
      <3>12. ASSUME NEW g \in owned(o), NEW h \in owned(o), offset(g) < offset(h)
             PROVE  nextOf'[g] # None /\ offset(nextOf'[g]) <= offset(h)
        <4>1. CASE g = f
          <5>1. h \in Owned(o) /\ t.offset < OffsetOf(h)
              BY <1>4, <1>9, <1>10, <1>12, <3>12, <4>1
          <5>2. t.next # None /\ t.next \in Owned(o) /\ OffsetOf(t.next) <= OffsetOf(h)
              BY <1>5, <5>1 DEF PlaceFound
          <5> QED
              BY <1>4, <1>12, <3>2, <4>1, <5>1, <5>2
        <4>2. CASE g = t.prev /\ g # f
          <5>1. g \in Owned(o) /\ g # None /\ nextOf'[g] = f
              BY <1>4, <1>9, <1>12, <3>4, <4>2
          <5>2. CASE h = f
              BY <1>1, <1>4, <1>10, <5>1, <5>2
          <5>3. CASE h # f
            <6>1. h \in Owned(o) /\ OffsetOf(t.prev) < OffsetOf(h)
                BY <1>4, <1>9, <1>12, <3>12, <4>2, <5>1, <5>3
            <6>2. t.offset <= OffsetOf(h)
                BY <1>4, <1>5, <1>12, <3>4, <4>2, <5>1, <6>1 DEF PlaceFound
            <6> QED
                BY <1>1, <1>4, <1>10, <1>12, <5>1, <6>1, <6>2
          <5> QED
              BY <5>2, <5>3
        <4>3. CASE g # f /\ g # t.prev
          <5>1. g \in Owned(o) /\ nextOf'[g] = nextOf[g]
              BY <1>9, <3>3, <4>3
          <5>2. CASE h # f
            <6>1. h \in Owned(o) /\ OffsetOf(g) < OffsetOf(h)
                BY <1>4, <1>9, <1>12, <3>12, <5>1, <5>2
            <6>2. nextOf[g] # None /\ nextOf[g] \in Owned(o) /\ OffsetOf(nextOf[g]) <= OffsetOf(h)
                BY <3>1, <5>1, <6>1
            <6> QED
                BY <1>4, <1>12, <5>1, <6>1, <6>2
          <5>3. CASE h = f
            <6>1. OffsetOf(g) < t.offset
                BY <1>4, <1>10, <1>12, <3>12, <5>1, <5>3
            <6>2. t.prev # None /\ OffsetOf(g) <= OffsetOf(t.prev) /\ OffsetOf(t.prev) < t.offset
                BY <1>5, <5>1, <6>1 DEF PlaceFound
            <6>0. OffsetOf(g) # OffsetOf(t.prev)
                BY <3>1, <3>4, <4>3, <5>1, <6>2
            <6>3. OffsetOf(g) < OffsetOf(t.prev)
                BY <1>4, <1>12, <3>4, <5>1, <6>0, <6>2
            <6>4. /\ nextOf[g] # None /\ nextOf[g] \in Owned(o)
                  /\ OffsetOf(nextOf[g]) <= OffsetOf(t.prev)
                BY <3>1, <3>4, <5>1, <6>2, <6>3
            <6> QED
                BY <1>4, <1>10, <1>12, <3>4, <5>1, <5>3, <6>2, <6>4
          <5> QED
              BY <5>2, <5>3
        <4> QED
            BY <4>1, <4>2, <4>3
      <3> QED
          BY <3>6, <3>7, <3>8, <3>9, <3>11, <3>12
    <2>3. \A p \in Objects : listed(p)
      <3> HIDE DEF listed
      <3> QED
          BY <2>1, <2>2
    <2> QED
        BY <2>3 DEF ListInv, Owned, OffsetOf
  <1>14. WindowsInv'
      BY <1>2 DEF WindowsInv
  <1>15. FaultInv'
    <2> SUFFICES ASSUME NEW n \in Maps, fault'[n] # None PROVE FaultInv!(n)'
        BY DEF FaultInv
    <2>1. CASE n = m
      <3>1. fault'[n] = u
          BY <1>2, <2>1 DEF TypeOK
      <3>2. \E r \in oims'[n] : r.object = o
          BY <1>0, <1>2, <2>1 DEF FaultInv
      <3> QED
          BY <1>1, <1>6, <1>8, <3>1, <3>2
    <2>2. CASE n # m
      <3>0. PICK v : v = fault[n]
          OBVIOUS
      <3>1. fault[n] = v /\ fault'[n] = v /\ v # None /\ v \in Faults
          BY <1>2, <2>2, <3>0 DEF TypeOK
      <3>2. FaultInv!(n)
          BY <3>1 DEF FaultInv
      <3>3. v.object # o
        <4>1. PICK r \in oims[n] : r.object = v.object
            BY <3>1, <3>2
        <4>2. PICK q \in oims[m] : q.object = o
            BY <1>0, <1>2 DEF FaultInv
        <4>3. r \in Mappings[n] /\ q \in Mappings[m]
            BY <4>1, <4>2 DEF TypeOK
        <4> QED
            BY <2>2, <4>1, <4>2, <4>3 DEF PrivateObjects
      <3>4. v.object \in Objects \ {o} /\ v.offset \in 0..MaxPages - 1
          BY <3>1, <3>3 DEF Faults
      <3>5. v.step = "link" => PlaceFound(v)'
        <4> SUFFICES ASSUME PlaceFound(v) PROVE PlaceFound(v)'
            BY <3>1, <3>2
        <4>1. Owned(v.object)' = Owned(v.object)
            BY <1>9, <3>4 DEF Owned
        <4>2. \A g \in Owned(v.object) : OffsetOf(g)' = OffsetOf(g)
            BY <1>12, <3>4 DEF OffsetOf
        <4> QED
            BY <4>1, <4>2 DEF PlaceFound
      <3>6. ASSUME v.step = "publish" PROVE content'[v.frame] = content[v.frame]
        <4>1. v.frame \in Frames
            BY <3>1, <3>2, <3>6 DEF Faults
        <4>2. content[v.frame] # None
            BY <3>1, <3>2, <3>4, <3>6
        <4> QED
            BY <1>1, <1>2, <4>1, <4>2 DEF TypeOK
      <3>7. v.step = "link" => PlaceFound(fault[n])'
          BY <3>1, <3>5 DEF PlaceFound
      <3> QED
          BY <1>2, <3>1, <3>2, <3>6, <3>7
    <2> QED
        BY <2>1, <2>2
  <1>16. MappedRight'
    <2> SUFFICES ASSUME NEW n \in Maps, NEW a \in Pages, entry[n][a] # None
                 PROVE  MappedRight!(n, a)'
        BY <1>2 DEF MappedRight
    <2>1. PICK r \in oims[n] :
             /\ Covers(r, a)
             /\ content[entry[n][a]] = [object |-> r.object, offset |-> Offset(r, a)]
        BY DEF MappedRight
    <2>2. Offset(r, a) \in Nat /\ r.object \in Objects
        BY <2>1, WindowFacts DEF Offset, Covers, Pages
    <2>3. content[entry[n][a]] # None /\ entry[n][a] \in Frames
        BY <2>1, <2>2 DEF TypeOK
    <2>4. content'[entry[n][a]] = content[entry[n][a]]
        BY <1>1, <1>2, <2>3 DEF TypeOK
    <2> QED
        BY <1>2, <2>1, <2>4
  <1> QED
      BY <1>7, <1>13, <1>14, <1>15, <1>16

\* The page is shown where a window puts it.
LEMMA FaultPublishInv ==
    ASSUME VmInv, NEW m \in Maps, FaultPublish(m)
    PROVE  VmInv'
  <1> USE VmAssumption DEF VmInv
  <1>0. PICK t : t = fault[m]
      OBVIOUS
  <1> DEFINE left == t.left \cap Showing(t.object)
  <1>1. /\ t # None /\ t \in Faults /\ t.step = "publish"
        /\ UNCHANGED <<content, nextOf, head, refs, oims, halted>>
      BY <1>0 DEF FaultPublish, objectVars, TypeOK
  <1>2. PICK w \in left :
          /\ entry' = [entry EXCEPT ![w[1]] = [a \in Pages |->
                 IF Inserts(w[2], t.offset, a) THEN t.frame ELSE @[a]]]
          /\ tables' = [tables EXCEPT ![w[1]] = @ \cup NewTables(w[2], Place(w[2], t.offset))]
          /\ fault' = [fault EXCEPT ![m].left = left \ {w}]
      BY <1>0 DEF FaultPublish
  <1>3. PICK n, r, rest : n = w[1] /\ r = w[2] /\ rest = left \ {w}
      OBVIOUS
  <1>4. n \in Maps /\ r \in oims[n] /\ r.object = t.object
      BY <1>2, <1>3, ShowingFacts
  <1>5. rest \in SUBSET (Maps \X Windows)
      BY <1>1, <1>3 DEF Faults
  <1> DEFINE u == [t EXCEPT !.left = rest]
  <1>6. /\ entry' = [entry EXCEPT ![n] = [a \in Pages |->
               IF Inserts(r, t.offset, a) THEN t.frame ELSE @[a]]]
        /\ tables' = [tables EXCEPT ![n] = @ \cup NewTables(r, Place(r, t.offset))]
        /\ fault' = [fault EXCEPT ![m] = u]
      BY <1>0, <1>2, <1>3 DEF TypeOK
  <1>7. /\ u \in Faults /\ u.step = "publish" /\ u.frame = t.frame
        /\ u.object = t.object /\ u.offset = t.offset
    <2>1. u \in Faults
        BY <1>1, <1>5 DEF Faults
    <2>2. u.step = "publish" /\ u.frame = t.frame /\ u.object = t.object /\ u.offset = t.offset
        BY <1>1 DEF Faults
    <2> QED
        BY <2>1, <2>2
  <1> HIDE DEF left, u
  <1>8. /\ t.frame \in Frames /\ t.offset \in 0..MaxPages - 1
        /\ content[t.frame] = [object |-> t.object, offset |-> t.offset]
      BY <1>0, <1>1 DEF FaultInv, Faults
  <1>9. entry' \in [Maps -> [Pages -> Frames \cup {None}]]
      BY <1>4, <1>6, <1>8 DEF TypeOK
  <1>10. DOMAIN tables' = Maps /\ \A k \in Maps : tables'[k] \subseteq Nat
    <2>1. \A a : Covers(r, a) => TableOf(a) \in Nat
        BY <1>4, WindowFacts DEF Covers, TableOf
    <2>2. NewTables(r, Place(r, t.offset)) \subseteq Nat
        BY <2>1 DEF NewTables
    <2> QED
        BY <1>4, <1>6, <2>2 DEF TypeOK
  <1>11. TypeOK'
    <2>1. fault' \in [Maps -> Faults \cup {None}]
        BY <1>6, <1>7 DEF TypeOK
    <2> QED
        BY <1>1, <1>9, <1>10, <2>1 DEF TypeOK
  <1>12. ListInv'
      BY <1>1, ListsSame
  <1>13. WindowsInv'
      BY <1>1 DEF WindowsInv
  <1>14. FaultInv'
    <2> SUFFICES ASSUME NEW k \in Maps, fault'[k] # None PROVE FaultInv!(k)'
        BY DEF FaultInv
    <2>1. CASE k = m
      <3>1. fault'[k] = u
          BY <1>6, <2>1 DEF TypeOK
      <3>2. \E q \in oims[m] : q.object = t.object
          BY <1>0, <1>1 DEF FaultInv
      <3> QED
          BY <1>1, <1>7, <1>8, <2>1, <3>1, <3>2
    <2>2. CASE k # m
      <3>1. fault'[k] = fault[k]
          BY <1>6, <2>2 DEF TypeOK
      <3> QED
          BY <1>1, <3>1, ListsSame DEF FaultInv
    <2> QED
        BY <2>1, <2>2
  <1>15. MappedRight'
    <2> SUFFICES ASSUME NEW k \in Maps, NEW a \in Pages, entry'[k][a] # None
                 PROVE  \E q \in oims[k] : /\ Covers(q, a)
                            /\ content[entry'[k][a]] = [object |-> q.object, offset |-> Offset(q, a)]
        BY <1>1 DEF MappedRight
    <2>1. CASE k = n /\ Inserts(r, t.offset, a)
      <3>1. entry'[k][a] = t.frame
          BY <1>6, <2>1 DEF TypeOK
      <3>2. Covers(r, a) /\ t.offset = Offset(r, a)
          BY <1>4, <1>8, <2>1, WindowFacts DEF Inserts, Place, Offset
      <3> QED
          BY <1>4, <1>8, <2>1, <3>1, <3>2
    <2>2. CASE ~(k = n /\ Inserts(r, t.offset, a))
      <3>1. entry'[k][a] = entry[k][a]
          BY <1>4, <1>6, <2>2 DEF TypeOK
      <3> QED
          BY <3>1 DEF MappedRight
    <2> QED
        BY <2>1, <2>2
  <1> QED
      BY <1>11, <1>12, <1>13, <1>14, <1>15

\* Nothing is left to publish.
LEMMA FaultDoneInv ==
    ASSUME VmInv, NEW m \in Maps, FaultDone(m)
    PROVE  VmInv'
  <1> USE VmAssumption DEF VmInv
  <1>1. /\ fault' = [fault EXCEPT ![m] = None]
        /\ UNCHANGED <<content, nextOf, head, refs, oims, entry, tables, halted>>
      BY DEF FaultDone, objectVars, mapVars
  <1>2. TypeOK'
      BY <1>1 DEF TypeOK
  <1>3. ListInv' /\ WindowsInv' /\ MappedRight'
      BY <1>1, ListsSame DEF WindowsInv, MappedRight
  <1>4. FaultInv'
    <2> SUFFICES ASSUME NEW n \in Maps, fault'[n] # None PROVE FaultInv!(n)'
        BY DEF FaultInv
    <2>1. fault'[n] = fault[n]
        BY <1>1 DEF TypeOK
    <2> QED
        BY <1>1, <2>1, ListsSame DEF FaultInv
  <1> QED
      BY <1>2, <1>3, <1>4

-----------------------------------------------------------------------------
(* Theorems                                                                *)

\* Faults, removals, the end of threads and of objects keep the invariant, in whatever
\* order they interleave.
THEOREM VmInvariant == ASSUME PrivateObjects PROVE Spec => []VmInv
  <1>1. VmInv /\ [Next]_vars => VmInv'
    <2> SUFFICES ASSUME VmInv, [Next]_vars PROVE VmInv'
        OBVIOUS
    <2>1. CASE UNCHANGED vars
      <3> UNCHANGED <<content, nextOf, head, refs, oims, entry, tables, fault, halted>>
          BY <2>1 DEF vars, objectVars, mapVars
      <3> QED
          BY ListsSame DEF VmInv, TypeOK, WindowsInv, FaultInv, MappedRight
    <2>2. ASSUME NEW m \in Maps, RemoveObject(m) PROVE VmInv'
      <3>1. PICK o \in Objects : LET dropped == {r \in oims[m] : r.object = o} IN
                Running(m) /\ Unmap(m, dropped) /\ ClearEntries(m, dropped) /\ UNCHANGED tables
          BY <2>2 DEF RemoveObject
      <3> QED
          BY <3>1, RemoveInv
    <2>3. ASSUME NEW m \in Maps, RemoveObjectAt(m) PROVE VmInv'
      <3>1. PICK r \in oims[m] :
                Running(m) /\ Unmap(m, {r}) /\ ClearEntries(m, {r}) /\ UNCHANGED tables
          BY <2>3 DEF RemoveObjectAt
      <3> QED
          BY <3>1, RemoveInv
    <2> QED
        BY <2>1, <2>2, <2>3, AddObjectInv, HaltInv, DestroyMapInv, DropInv, FaultFindInv,
           FaultLinkInv, FaultPublishInv, FaultDoneInv DEF Next
  <1> QED
      BY <1>1, VmInitInv, PTL DEF Spec

\* A present page always belongs to a window of its map and shows the page of the object
\* that the window puts there (vm.cpp:85-182, object.cpp:170-239).
THEOREM PagesMappedRight == ASSUME PrivateObjects PROVE Spec => [](TypeOK /\ MappedRight)
  <1>1. VmInv => TypeOK /\ MappedRight
      BY DEF VmInv
  <1> QED
      BY <1>1, VmInvariant, PTL

\* generate keeps the page list of an object in order, with one entry for a page, although
\* it looks for the place before do_generate and links afterwards (object.cpp:186-210).
THEOREM PageListsSorted == ASSUME PrivateObjects PROVE Spec => []ListSorted
  <1>1. VmInv => ListSorted
    <2> SUFFICES ASSUME VmInv, NEW o \in Objects, NEW f \in Owned(o)
                 PROVE  /\ content[f].object = o
                        /\ nextOf[f] # None => OffsetOf(f) < OffsetOf(nextOf[f])
        BY EntriesOwned DEF ListSorted, VmInv
    <2> QED
        BY DEF VmInv, ListInv, Owned
  <1> QED
      BY <1>1, VmInvariant, PTL

\* Two windows that show the same page of an object show the same frame, whichever of
\* add_object and generate entered it (object.cpp:212-228).
THEOREM PagesShared == ASSUME PrivateObjects PROVE Spec => []SharedSame
  <1>1. VmInv => SharedSame
    <2> SUFFICES ASSUME VmInv, NEW m \in Maps, NEW n \in Maps,
                        NEW r \in oims[m], NEW q \in oims[n], r.object = q.object,
                        NEW a \in Pages, NEW b \in Pages,
                        Covers(r, a), Covers(q, b), Offset(r, a) = Offset(q, b),
                        entry[m][a] # None, entry[n][b] # None
                 PROVE  entry[m][a] = entry[n][b]
        BY DEF SharedSame
    <2> USE VmAssumption DEF VmInv
    <2>1. content[entry[m][a]] = [object |-> r.object, offset |-> Offset(r, a)]
        BY DEF MappedRight, WindowsInv
    <2>2. content[entry[n][b]] = [object |-> q.object, offset |-> Offset(q, b)]
        BY DEF MappedRight, WindowsInv
    <2>3. r.object \in Objects /\ Offset(r, a) \in Nat /\ Offset(q, b) \in Nat
        BY WindowFacts DEF Offset, Covers, Pages
    <2>4. entry[m][a] \in Owned(r.object) /\ entry[n][b] \in Owned(r.object)
        BY <2>1, <2>2, <2>3 DEF Owned, TypeOK
    <2>5. OffsetOf(entry[m][a]) = OffsetOf(entry[n][b])
        BY <2>1, <2>2 DEF OffsetOf
    <2> QED
        BY <2>3, <2>4, <2>5 DEF ListInv
  <1> QED
      BY <1>1, VmInvariant, PTL

=============================================================================
