-------------------------- MODULE StaticListProofs --------------------------
(* Proofs about StaticList, for every capacity.                            *)
EXTENDS StaticList, SequenceTheorems, TLAPS

-----------------------------------------------------------------------------
(* Sequences given by their elements                                       *)

\* The elements of the buffer read from slot to slot are a sequence (static_list.hpp:71).
LEMMA FunctionIsSeq ==
    ASSUME NEW S, NEW n \in Nat, NEW f \in [1..n -> S]
    PROVE  f \in Seq(S) /\ Len(f) = n
  OBVIOUS

\* What push_back leaves, element by element, is Append (static_list.tpp:50-66).
LEMMA AppendByElements ==
    ASSUME NEW S, NEW s \in Seq(S), NEW v \in S, NEW t \in [1..(Len(s) + 1) -> S],
           \A i \in 1..Len(s) : t[i] = s[i],
           t[Len(s) + 1] = v
    PROVE  t = Append(s, v)
<1>1. Len(s) \in Nat
  BY LenProperties
<1>2. t \in Seq(S) /\ Len(t) = Len(s) + 1
  BY <1>1, FunctionIsSeq
<1>3. Append(s, v) \in Seq(S) /\ Len(Append(s, v)) = Len(s) + 1
  OBVIOUS
<1>4. \A i \in 1..(Len(s) + 1) : t[i] = Append(s, v)[i]
  OBVIOUS
<1> QED BY <1>1, <1>2, <1>3, <1>4, SeqEqual

\* What push_front leaves, element by element, is the value and then the old sequence
\* (static_list.tpp:6-22).
LEMMA PrependByElements ==
    ASSUME NEW S, NEW s \in Seq(S), NEW v \in S, NEW t \in [1..(Len(s) + 1) -> S],
           \A i \in 1..Len(s) : t[i + 1] = s[i],
           t[1] = v
    PROVE  t = <<v>> \o s
<1>1. Len(s) \in Nat
  BY LenProperties
<1>2. t \in Seq(S) /\ Len(t) = Len(s) + 1
  BY <1>1, FunctionIsSeq
<1>3. <<v>> \in Seq(S) /\ Len(<<v>>) = 1 /\ <<v>>[1] = v
  OBVIOUS
<1>4. /\ <<v>> \o s \in Seq(S)
      /\ Len(<<v>> \o s) = 1 + Len(s)
      /\ \A i \in 1..(1 + Len(s)) : (<<v>> \o s)[i] = IF i <= 1 THEN <<v>>[i] ELSE s[i - 1]
  BY <1>3, ConcatProperties
<1>5. \A i \in 1..(Len(s) + 1) : t[i] = (<<v>> \o s)[i]
  <2> SUFFICES ASSUME NEW i \in 1..(Len(s) + 1) PROVE t[i] = (<<v>> \o s)[i]
    OBVIOUS
  <2>1. CASE i = 1
    BY <2>1, <1>1, <1>3, <1>4
  <2>2. CASE i # 1
    <3>1. i - 1 \in 1..Len(s) /\ i = (i - 1) + 1
      BY <2>2, <1>1
    <3>2. t[i] = s[i - 1]
      BY <3>1
    <3> QED BY <2>2, <3>2, <1>1, <1>4
  <2> QED BY <2>1, <2>2
<1> QED BY <1>1, <1>2, <1>4, <1>5, SeqEqual

\* What pop_front leaves, element by element, is Tail (static_list.tpp:24-38).
LEMMA TailByElements ==
    ASSUME NEW S, NEW s \in Seq(S), s # <<>>, NEW t \in [1..(Len(s) - 1) -> S],
           \A i \in 1..(Len(s) - 1) : t[i] = s[i + 1]
    PROVE  t = Tail(s)
<1>1. Len(s) - 1 \in Nat
  BY EmptySeq, LenProperties
<1>2. t \in Seq(S) /\ Len(t) = Len(s) - 1
  BY <1>1, FunctionIsSeq
<1> QED BY <1>1, <1>2, HeadTailProperties, SeqEqual

\* What pop_back leaves, element by element, is the front of the sequence
\* (static_list.tpp:68-81).
LEMMA FrontByElements ==
    ASSUME NEW S, NEW s \in Seq(S), s # <<>>, NEW t \in [1..(Len(s) - 1) -> S],
           \A i \in 1..(Len(s) - 1) : t[i] = s[i]
    PROVE  t = SubSeq(s, 1, Len(s) - 1)
<1>1. Len(s) - 1 \in Nat
  BY EmptySeq, LenProperties
<1>2. t \in Seq(S) /\ Len(t) = Len(s) - 1
  BY <1>1, FunctionIsSeq
<1>3. \A i \in 1..(Len(s) - 1) : s[i] \in S
  BY <1>1, LenProperties
<1>4. /\ SubSeq(s, 1, Len(s) - 1) \in Seq(S)
      /\ Len(SubSeq(s, 1, Len(s) - 1)) = Len(s) - 1
      /\ \A i \in 1..(Len(s) - 1) : SubSeq(s, 1, Len(s) - 1)[i] = s[i]
  <2> DEFINE n == Len(s) - 1
  <2>1. /\ SubSeq(s, 1, n) \in Seq(S)
        /\ Len(SubSeq(s, 1, n)) = IF 1 <= n THEN n - 1 + 1 ELSE 0
        /\ \A i \in 1..(n - 1 + 1) : SubSeq(s, 1, n)[i] = s[1 + i - 1]
    BY <1>1, <1>3, SubSeqProperties
  <2> HIDE DEF n
  <2>2. n \in Nat
    BY <1>1 DEF n
  <2>3. /\ Len(SubSeq(s, 1, n)) = n
        /\ \A i \in 1..n : SubSeq(s, 1, n)[i] = s[i]
    BY <2>1, <2>2
  <2> QED BY <2>1, <2>3 DEF n
<1> QED BY <1>1, <1>2, <1>4, SeqEqual

-----------------------------------------------------------------------------
(* The indices                                                             *)

\* The increment of an index that the code resets at C is addition modulo C
\* (static_list.tpp:33, 54, 63).
LEMMA AfterWraps ==
    ASSUME NEW i \in Slots
    PROVE  After(i) = IF i = C - 1 THEN 0 ELSE i + 1
<1>1. CASE i = C - 1
  BY <1>1, StaticListAssumption DEF After, Slots
<1>2. CASE i # C - 1
  BY <1>2, StaticListAssumption DEF After, Slots
<1> QED BY <1>1, <1>2

\* What the indices delimit is a sequence of the values pushed, as long as size() says
\* (static_list.hpp:70-82).
LEMMA ItemsSeq ==
    ASSUME TypeOK
    PROVE  size \in Nat /\ Items \in Seq(Values) /\ Len(Items) = size /\ size < C
  <1>1. size \in Nat /\ size < C
    BY StaticListAssumption DEF TypeOK, size, SizeOf, Slots
  <1>2. \A i \in 1..size : objects[SlotAt(head, i - 1)] \in Values
    BY <1>1, StaticListAssumption DEF TypeOK, SlotAt, Slots
  <1> QED BY <1>1, <1>2 DEF Items

\* The step of After does not leave the buffer, nor does that of Before.
LEMMA StaysInside ==
    ASSUME NEW i \in Slots
    PROVE  After(i) \in Slots /\ Before(i) \in Slots
  BY AfterWraps, StaticListAssumption DEF Before, Slots

\* The indices and the elements stay in their types, through every wrap around
\* (static_list.tpp:9, 33, 54, 75).
THEOREM TypeCorrect == Spec => []TypeOK
<1>1. Init => TypeOK
  BY StaticListAssumption DEF Init, TypeOK, Slots
<1>2. TypeOK /\ [Next]_vars => TypeOK'
  <2> SUFFICES ASSUME TypeOK, [Next]_vars PROVE TypeOK'
    OBVIOUS
  <2>1. ASSUME NEW v \in Values, push_front(v) PROVE TypeOK'
    BY <2>1, StaysInside DEF push_front, TypeOK
  <2>2. ASSUME NEW v \in Values, push_back(v) PROVE TypeOK'
    BY <2>2, StaysInside DEF push_back, TypeOK
  <2>3. CASE pop_front
    BY <2>3, StaysInside DEF pop_front, TypeOK
  <2>4. CASE pop_back
    BY <2>4, StaysInside DEF pop_back, TypeOK
  <2>5. CASE PopEmpty
    BY <2>5 DEF PopEmpty, TypeOK
  <2>6. CASE clear
    BY <2>6 DEF clear, TypeOK
  <2>7. ASSUME NEW c \in Cpus, SizeBegin(c) \/ SizeEnd(c) PROVE TypeOK'
    BY <2>7 DEF SizeBegin, SizeEnd, TypeOK
  <2>8. CASE UNCHANGED vars
    BY <2>8 DEF vars, TypeOK
  <2> QED BY <2>1, <2>2, <2>3, <2>4, <2>5, <2>6, <2>7, <2>8 DEF Next
<1> QED BY <1>1, <1>2, PTL DEF Spec

-----------------------------------------------------------------------------
(* Every operation is one of the sequence's                                *)

\* How the size and the slots change when an end moves.
LEMMA Sizes ==
    ASSUME NEW h \in Slots, NEW t \in Slots
    PROVE  /\ SizeOf(h, t) \in 0..(C - 1)
           /\ SizeOf(h, t) < C - 1 => SizeOf(h, After(t)) = SizeOf(h, t) + 1
           /\ SizeOf(h, t) < C - 1 => SizeOf(Before(h), t) = SizeOf(h, t) + 1
           /\ h # t => SizeOf(After(h), t) = SizeOf(h, t) - 1
           /\ h # t => SizeOf(h, Before(t)) = SizeOf(h, t) - 1
           /\ h = t <=> SizeOf(h, t) = 0
<1>1. After(t) = IF t = C - 1 THEN 0 ELSE t + 1
  BY AfterWraps
<1>2. After(h) = IF h = C - 1 THEN 0 ELSE h + 1
  BY AfterWraps
<1> QED BY <1>1, <1>2, StaticListAssumption DEF SizeOf, Before, Slots

\* The slot an element is in, before and after an end moves: only the slot at the moving
\* end changes hands (static_list.tpp:9, 33, 54, 75).
LEMMA SlotFacts ==
    ASSUME NEW h \in Slots, NEW t \in Slots
    PROVE  /\ SlotAt(h, SizeOf(h, t)) = t
           /\ \A i \in 0..(SizeOf(h, t) - 1) : SlotAt(h, i) \in Slots /\ SlotAt(h, i) # t
           /\ SlotAt(h, 0) = h
           /\ \A i \in 0..(C - 2) : SlotAt(After(h), i) = SlotAt(h, i + 1)
           /\ \A i \in 1..(C - 1) : SlotAt(Before(h), i) = SlotAt(h, i - 1)
<1>1. After(h) = IF h = C - 1 THEN 0 ELSE h + 1
  BY AfterWraps
<1> QED BY <1>1, StaticListAssumption DEF SizeOf, SlotAt, Before, Slots

\* push_back appends (static_list.tpp:50-66).
LEMMA PushBackMaps ==
    ASSUME TypeOK, Limit < C, NEW v \in Values, push_back(v)
    PROVE  Items' = Append(Items, v)
<1>1. size \in 0..(C - 1) /\ size < Limit
  BY Sizes DEF push_back, TypeOK, size
<1>2. size \in Nat /\ size < C - 1
  BY <1>1, StaticListAssumption
<1>3. head' = head /\ tail' = After(tail) /\ objects' = [objects EXCEPT ![tail] = v]
  BY DEF push_back
<1>4. size' = size + 1
  BY <1>2, <1>3, Sizes DEF TypeOK, size
<1>5. \A i \in 1..size : objects'[SlotAt(head', i - 1)] = objects[SlotAt(head, i - 1)]
  BY <1>2, <1>3, SlotFacts, StaticListAssumption DEF TypeOK, size, Slots
<1>6. objects'[SlotAt(head', size)] = v
  BY <1>3, SlotFacts DEF TypeOK, size
<1>7. Items' = [i \in 1..(size + 1) |-> objects'[SlotAt(head', i - 1)]]
  BY <1>4 DEF Items
<1>8. Items \in Seq(Values) /\ Len(Items) = size
  BY ItemsSeq
<1>9. /\ \A i \in 1..size : Items'[i] = Items[i]
      /\ Items'[size + 1] = v
  <2>1. \A i \in 1..size : Items[i] = objects[SlotAt(head, i - 1)]
    BY DEF Items
  <2>2. \A i \in 1..size : Items'[i] = objects'[SlotAt(head', i - 1)]
    BY <1>2, <1>7
  <2>3. Items'[size + 1] = objects'[SlotAt(head', (size + 1) - 1)] /\ (size + 1) - 1 = size
    BY <1>2, <1>7
  <2> QED BY <2>1, <2>2, <2>3, <1>5, <1>6
<1>10. Items' \in [1..(size + 1) -> Values]
  <2>1. \A i \in 1..(size + 1) : Items'[i] \in Values
    BY <1>2, <1>8, <1>9, LenProperties
  <2> QED BY <2>1, <1>7
<1> QED
  BY <1>8, <1>9, <1>10, AppendByElements

\* push_front prepends (static_list.tpp:6-22).
LEMMA PushFrontMaps ==
    ASSUME TypeOK, Limit < C, NEW v \in Values, push_front(v)
    PROVE  Items' = <<v>> \o Items
<1>1. size \in 0..(C - 1) /\ size < Limit
  BY Sizes DEF push_front, TypeOK, size
<1>2. size \in Nat /\ size < C - 1
  BY <1>1, StaticListAssumption
<1>3. head' = Before(head) /\ tail' = tail /\ objects' = [objects EXCEPT ![Before(head)] = v]
  BY DEF push_front
<1>4. size' = size + 1 /\ head' \in Slots
  BY <1>2, <1>3, Sizes, StaysInside DEF TypeOK, size
<1>5. ASSUME NEW i \in 1..size
      PROVE  objects'[SlotAt(head', i)] = objects[SlotAt(head, i - 1)]
  <2>1. i \in 1..(C - 1)
    BY <1>2, StaticListAssumption
  <2>2. SlotAt(head', i) = SlotAt(head, i - 1)
    BY <2>1, <1>3, SlotFacts DEF TypeOK
  <2>3. SlotAt(head, i - 1) \in Slots /\ SlotAt(head, i - 1) # Before(head)
    BY <1>2, StaticListAssumption DEF SlotAt, Before, Slots, TypeOK
  <2> QED BY <2>2, <2>3, <1>3 DEF TypeOK
<1>6. objects'[SlotAt(head', 0)] = v
  BY <1>3, <1>4, SlotFacts DEF TypeOK
<1>7. Items' = [i \in 1..(size + 1) |-> objects'[SlotAt(head', i - 1)]]
  BY <1>4 DEF Items
<1>8. Items \in Seq(Values) /\ Len(Items) = size
  BY ItemsSeq
<1>9. /\ \A i \in 1..size : Items'[i + 1] = Items[i]
      /\ Items'[1] = v
  <2>1. \A i \in 1..size : Items[i] = objects[SlotAt(head, i - 1)]
    BY DEF Items
  <2>2. \A i \in 1..size : Items'[i + 1] = objects'[SlotAt(head', (i + 1) - 1)] /\ (i + 1) - 1 = i
    BY <1>2, <1>7
  <2>3. Items'[1] = objects'[SlotAt(head', 1 - 1)] /\ 1 - 1 = 0
    BY <1>2, <1>7
  <2> QED BY <2>1, <2>2, <2>3, <1>5, <1>6
<1>10. Items' \in [1..(size + 1) -> Values]
  <2>1. ASSUME NEW i \in 1..(size + 1) PROVE Items'[i] \in Values
    <3>1. CASE i = 1
      BY <3>1, <1>9
    <3>2. CASE i # 1
      <4>1. i - 1 \in 1..size /\ (i - 1) + 1 = i
        BY <3>2, <1>2
      <4>2. Items'[i] = Items[i - 1]
        BY <4>1, <1>9
      <4> QED BY <4>1, <4>2, <1>8, LenProperties
    <3> QED BY <3>1, <3>2
  <2> QED BY <2>1, <1>7
<1> QED
  BY <1>8, <1>9, <1>10, PrependByElements

\* pop_front takes the first element, or nothing from an empty list (static_list.tpp:24-38).
LEMMA PopFrontMaps ==
    ASSUME TypeOK, pop_front
    PROVE  Items # <<>> /\ Items' = Tail(Items) /\ returned' = <<Head(Items)>>
<1>1. size \in 1..(C - 1)
  BY Sizes, StaticListAssumption, SMTT(60) DEF pop_front, TypeOK, size, Slots
<1>2. head' = After(head) /\ tail' = tail /\ objects' = objects
  BY DEF pop_front
<1>3. size' = size - 1
  BY <1>2, Sizes DEF pop_front, TypeOK, size
<1>4. \A i \in 1..(size - 1) : SlotAt(head', i - 1) = SlotAt(head, i)
  BY <1>1, <1>2, SlotFacts, StaticListAssumption DEF TypeOK
<1>5. Items' = [i \in 1..(size - 1) |-> Items[i + 1]]
  BY <1>1, <1>2, <1>3, <1>4 DEF Items
<1>6. Items \in Seq(Values) /\ Len(Items) = size /\ Items # <<>>
  BY <1>1, ItemsSeq, EmptySeq
<1>7. Head(Items) = objects[head]
  <2>1. Items[1] = objects[head]
    BY <1>1, SlotFacts DEF Items, TypeOK
  <2> QED BY <2>1, <1>6
<1>8. \A i \in 1..(size - 1) : Items[i + 1] \in Values
  BY <1>1, <1>6, LenProperties
<1>9. Items' \in [1..(Len(Items) - 1) -> Values]
  BY <1>5, <1>6, <1>8
<1>10. Items' = Tail(Items)
  BY <1>5, <1>6, <1>9, TailByElements
<1> QED
  BY <1>6, <1>7, <1>10 DEF pop_front

\* pop_back takes the last element, or nothing from an empty list (static_list.tpp:68-81).
LEMMA PopBackMaps ==
    ASSUME TypeOK, pop_back
    PROVE  /\ Items # <<>>
           /\ Items' = SubSeq(Items, 1, Len(Items) - 1)
           /\ returned' = <<Items[Len(Items)]>>
<1>1. size \in 1..(C - 1)
  BY Sizes, StaticListAssumption, SMTT(60) DEF pop_back, TypeOK, size, Slots
<1>2. head' = head /\ tail' = Before(tail) /\ objects' = objects
  BY DEF pop_back
<1>3. size' = size - 1 /\ tail' \in Slots
  BY <1>2, Sizes, StaysInside DEF pop_back, TypeOK, size
<1>4. Items' = [i \in 1..(size - 1) |-> Items[i]]
  BY <1>1, <1>2, <1>3 DEF Items
<1>5. SlotAt(head, size - 1) = tail'
  BY <1>2, <1>3, SlotFacts DEF TypeOK, size
<1>6. Items[size] = objects[tail']
  BY <1>1, <1>5 DEF Items
<1>7. Items \in Seq(Values) /\ Len(Items) = size /\ Items # <<>>
  BY <1>1, ItemsSeq, EmptySeq
<1>8. \A i \in 1..(size - 1) : Items[i] \in Values
  BY <1>1, <1>7, LenProperties
<1>9. Items' = SubSeq(Items, 1, Len(Items) - 1)
  BY <1>4, <1>7, <1>8, FrontByElements
<1> QED
  BY <1>2, <1>6, <1>7, <1>9 DEF pop_back

-----------------------------------------------------------------------------
\* While its callers keep fewer than C elements in it, the list is a sequence: what is
\* pushed at either end is popped from either end in the order a sequence has, for every
\* capacity and every number of turns around the buffer (static_list.tpp:6-90).
THEOREM ListCorrect == Limit < C /\ Spec => ListImplemented
<1> SUFFICES ASSUME Limit < C PROVE Spec => Abstract!Spec
  BY DEF ListImplemented
<1>1. Init => Abstract!Init
  <2> SUFFICES ASSUME Init PROVE Abstract!Init
    OBVIOUS
  <2>1. size = 0
    BY DEF Init, size, SizeOf
  <2>2. Items = <<>>
    BY <2>1 DEF Items
  <2> QED BY <2>2 DEF Init, Abstract!Init
<1>2. TypeOK /\ [Next]_vars => [Abstract!Next]_(Abstract!vars)
  <2> SUFFICES ASSUME TypeOK, [Next]_vars PROVE [Abstract!Next]_(Abstract!vars)
    OBVIOUS
  <2>1. CASE UNCHANGED <<objects, head, tail, returned, panicked>>
    <3>1. Items' = Items
      BY <2>1 DEF Items, size
    <3> QED BY <2>1, <3>1 DEF Abstract!vars
  <2>2. ASSUME NEW v \in Values, ~panicked, push_front(v) PROVE Abstract!Next
    BY <2>2, PushFrontMaps DEF push_front, Abstract!Next, Abstract!PushFront
  <2>3. ASSUME NEW v \in Values, ~panicked, push_back(v) PROVE Abstract!Next
    BY <2>3, PushBackMaps DEF push_back, Abstract!Next, Abstract!PushBack
  <2>4. CASE ~panicked /\ pop_front
    BY <2>4, PopFrontMaps DEF pop_front, Abstract!Next, Abstract!PopFront
  <2>5. CASE ~panicked /\ pop_back
    BY <2>5, PopBackMaps DEF pop_back, Abstract!Next, Abstract!PopBack
  <2>6. CASE ~panicked /\ PopEmpty
    <3>1. Items = <<>>
      BY <2>6, Sizes DEF PopEmpty, Items, size, TypeOK
    <3>2. Items' = Items
      BY <2>6 DEF PopEmpty, Items, size
    <3> QED BY <2>6, <3>1, <3>2 DEF PopEmpty, Abstract!Next, Abstract!PopEmpty
  <2>7. CASE ~panicked /\ clear
    <3>1. size' = 0
      BY <2>7, Sizes DEF clear, size, TypeOK
    <3>2. Items' = <<>>
      BY <3>1 DEF Items
    <3> QED BY <2>7, <3>2 DEF clear, Abstract!Next, Abstract!Clear
  <2>8. ASSUME NEW c \in Cpus, SizeBegin(c) \/ SizeEnd(c)
        PROVE  UNCHANGED <<objects, head, tail, returned, panicked>>
    BY <2>8 DEF SizeBegin, SizeEnd
  <2> QED BY <2>1, <2>2, <2>3, <2>4, <2>5, <2>6, <2>7, <2>8 DEF Next, vars
<1> QED BY <1>1, <1>2, TypeCorrect, PTL DEF Spec, Abstract!Spec
=============================================================================
