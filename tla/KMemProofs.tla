----------------------------- MODULE KMemProofs -----------------------------
(***************************************************************************)
(* Proofs about the kernel heap, for all sizes, memory tables and series   *)
(* of calls: no word of it is in two blocks, and no struct of its lists is *)
(* in use for anything else.                                               *)
(*                                                                         *)
(* The heap calls the page allocator, which calls the heap; so it matters  *)
(* who owns an allocated block while calls are nested.  The invariant says *)
(* which step of a call waits for what (Wants, Gives), and that the blocks *)
(* callers hold, the structs of the heap's lists, the structs Page of free *)
(* runs, of held ones and of the heap's own, the blocks that calls in      *)
(* progress have in their hands and the one just returned are allocated    *)
(* and different.                                                          *)
(*                                                                         *)
(* If the usable regions of the memory table are apart (RegionsApart), the *)
(* pages are proved too: the list of free runs is sorted and merged, and   *)
(* no page is in two runs that are free, held or in a call's hands.        *)
(***************************************************************************)
EXTENDS KMem, FiniteSetTheorems, WellFoundedInduction, TLAPS

Entry == [at : Nat, base : Nat, size : Nat]
Run == [at : Nat, base : Int, count : Int]
OneRun == {c \in Seq(Run) : Len(c) = 1}

\* The calls in progress.
MallocFrames == [fn : {"kmalloc"}, step : {"try", "grown"}, size : Nat \ {0},
                 reserved : BOOLEAN, prev : Entry \cup {None}]
KfreeFrames == [fn : {"kfree"}, step : {"start", "got"}, base : Nat]
AskingFrames == [fn : {"page_alloc"}, step : {"start", "split", "fresh"}, count : Nat \ {0},
                 reserved : BOOLEAN, nolock : BOOLEAN, page : {<<>>}]
FoundFrames == [fn : {"page_alloc"}, step : {"chain"}, count : Nat \ {0},
                reserved : BOOLEAN, nolock : BOOLEAN, page : OneRun]
JoinFrames == [fn : {"page_alloc"}, step : {"joined"}, count : Nat \ {0},
               reserved : BOOLEAN, nolock : {TRUE}, page : OneRun]
PageFreeFrames == [fn : {"page_free"}, step : {"insert", "merge", "merge_prev", "freed"},
                   chain : OneRun, prev : Nat \cup {None}]
CreateFrames == [fn : {"page_create"}, step : {"made"}]
SplitFrames == [fn : {"page_split"}, step : {"made"}, page : OneRun, count : Nat \ {0}]

Frames == MallocFrames \cup KfreeFrames \cup AskingFrames \cup FoundFrames \cup JoinFrames
            \cup PageFreeFrames \cup CreateFrames \cup SplitFrames

\* What a call needs to go on, and what it gives its caller.
Wants(f) ==
    CASE f.step \in {"got", "split", "fresh", "made"} -> "block"
      [] f.step \in {"grown", "joined"} -> "chain"
      [] f.step \in {"merge_prev", "freed"} -> "nothing"
      [] OTHER -> "runs"

Gives(f) ==
    CASE f.fn = "kmalloc" -> "block"
      [] f.fn = "page_alloc" -> "chain"
      [] f.fn = "kfree" -> "nothing"
      [] OTHER -> "outermost"

\* The block a call has in its hands.
Holds(f) ==
    CASE f.fn = "kfree" -> f.base
      [] f.fn = "page_alloc" /\ f.step = "chain" -> f.page[1].at
      [] f.fn = "page_free" /\ f.step = "insert" -> f.chain[1].at
      [] f.fn = "page_split" -> f.page[1].at
      [] OTHER -> None

\* The calls in progress fit together.
StackOK(s) ==
    /\ s \in Seq(Frames)
    /\ \A k \in 1..(Len(s) - 1) : Wants(s[k + 1]) = Gives(s[k])
    /\ \A k, l \in 1..Len(s) : k # l /\ Holds(s[k]) = Holds(s[l]) => Holds(s[k]) = None
    \* a caller outside holds one run
    /\ s # <<>> /\ s[Len(s)].fn = "page_alloc" => s[Len(s)].nolock = FALSE

\* What was returned is what the innermost call waits for.
RetOK(s, r) ==
    s # <<>> =>
        /\ Wants(s[1]) = "block" => r \in Nat
        /\ Wants(s[1]) = "chain" =>
              r \in Seq(Run) /\ r # <<>> /\ (Len(r) = 1 => r[1].count >= 1)

\* A list of free blocks is in order; only the ones at places T may touch the next.
ListOK(l, T) ==
    /\ l \in Seq(Entry)
    /\ \A i \in 1..Len(l) : l[i].size > Header
    /\ \A i, j \in 1..Len(l) : i < j =>
          \/ l[i].base + l[i].size < l[j].base
          \/ l[i].base + l[i].size = l[j].base /\ i \in T /\ j = i + 1

EndOf(l) == IF l = <<>> THEN None ELSE l[Len(l)].at

\* Every struct is there once.
StructsOK(l, s) ==
    /\ s \in Seq(Nat)
    /\ \A i, j \in 1..Len(l) : l[i].at = l[j].at => i = j
    /\ \A i, j \in 1..Len(s) : s[i] = s[j] => i = j
    /\ \A i \in 1..Len(l), j \in 1..Len(s) : l[i].at # s[j]

\* Blocks are apart from each other and from the free ones, all below v.
BlocksOK(l, bl, v) ==
    /\ v \in Nat /\ DOMAIN bl \subseteq Nat
    /\ \A b \in DOMAIN bl : bl[b] \in Nat /\ bl[b] > Header /\ b + bl[b] <= v
    /\ \A b, c \in DOMAIN bl : b # c => b + bl[b] <= c \/ c + bl[c] <= b
    /\ \A i \in 1..Len(l) : l[i].base + l[i].size <= v
    /\ \A b \in DOMAIN bl, i \in 1..Len(l) :
          b + bl[b] <= l[i].base \/ l[i].base + l[i].size <= b

HeapOK(l, end, s, bl, v) ==
    ListOK(l, {}) /\ end = EndOf(l) /\ StructsOK(l, s) /\ BlocksOK(l, bl, v)

\* The free runs and the ones callers hold have different structs.
PagesOK(l, h) ==
    /\ l \in Seq(Run)
    /\ \A i, j \in 1..Len(l) : l[i].at = l[j].at => i = j
    /\ h \subseteq OneRun
    /\ \A c, d \in h : c[1].at = d[1].at => c = d

RegionOK(ap, cm) == ap \in Int /\ cm \in 1..Len(Regions)

Structs(l, s) == {l[i].at : i \in 1..Len(l)} \cup {s[i] : i \in 1..Len(s)}
PageStructs(l) == {l[i].at : i \in 1..Len(l)}
HeldStructs(h) == {c[1].at : c \in h}
Kept(h, u) == HeldStructs(h) \cup PageStructs(u)
InHand(s) == {Holds(s[k]) : k \in 1..Len(s)} \ {None}
Returned(s, r) ==
    IF s = <<>> THEN {}
    ELSE IF Wants(s[1]) = "block" THEN {r}
    ELSE IF Wants(s[1]) = "chain" /\ Len(r) = 1 THEN {r[1].at} ELSE {}

\* Six sets of allocated blocks with nothing in common.
OwnOK(U, Q, P, D, K, R, B) ==
    /\ U \cap (Q \cup P \cup D \cup K \cup R) = {}
    /\ Q \cap (P \cup D \cup K \cup R) = {}
    /\ P \cap (D \cup K \cup R) = {}
    /\ D \cap (K \cup R) = {}
    /\ K \cap R = {}
    /\ U \cup Q \cup P \cup D \cup K \cup R \subseteq B

KMemInv ==
    /\ HeapOK(free, free_end, spare, blocks, vend)
    /\ StackOK(stack) /\ RetOK(stack, ret)
    /\ PagesOK(page_free, held) /\ RegionOK(alloc_pointer, current_map)
    /\ OwnOK(user, Structs(free, spare), PageStructs(page_free), Kept(held, used_start),
             InHand(stack), Returned(stack, ret), DOMAIN blocks)

\* The runs that grew the heap have different structs, and no caller holds one of them.
UsedOK(u) == u \in Seq(Run) /\ \A i, j \in 1..Len(u) : u[i].at = u[j].at => i = j

UsedInv == UsedOK(used_start) /\ HeldStructs(held) \cap PageStructs(used_start) = {}

-----------------------------------------------------------------------------
(* Sequences                                                               *)

\* What is left when an element is removed.
LEMMA RemoveAtFacts ==
    ASSUME NEW S, NEW s \in Seq(S), NEW i \in 1..Len(s)
    PROVE  /\ RemoveAt(s, i) \in Seq(S)
           /\ Len(RemoveAt(s, i)) = Len(s) - 1
           /\ \A j \in 1..(Len(s) - 1) :
                 RemoveAt(s, i)[j] = IF j < i THEN s[j] ELSE s[j + 1]
  <1>1. PICK n \in Nat : n = Len(s)
      OBVIOUS
  <1>2. PICK a : a = SubSeq(s, 1, i - 1)
      OBVIOUS
  <1>3. PICK b : b = SubSeq(s, i + 1, n)
      OBVIOUS
  <1>4. a \in Seq(S) /\ Len(a) = i - 1 /\ \A j \in 1..(i - 1) : a[j] = s[j]
      BY <1>1, <1>2
  <1>5. b \in Seq(S) /\ Len(b) = n - i /\ \A j \in 1..(n - i) : b[j] = s[j + i]
      BY <1>1, <1>3
  <1>6. RemoveAt(s, i) = a \o b
      BY <1>1, <1>2, <1>3 DEF RemoveAt
  <1>7. a \o b \in Seq(S) /\ Len(a \o b) = n - 1
      BY <1>1, <1>4, <1>5
  <1>8. ASSUME NEW j \in 1..(n - 1)
        PROVE  (a \o b)[j] = IF j < i THEN s[j] ELSE s[j + 1]
    <2>1. CASE j < i
        BY <1>1, <1>4, <1>5, <2>1
    <2>2. CASE ~(j < i)
      <3>1. j - (i - 1) \in 1..(n - i) /\ (j - (i - 1)) + i = j + 1
          BY <1>1, <2>2
      <3>2. (a \o b)[j] = b[j - (i - 1)]
          BY <1>1, <1>4, <1>5, <2>2
      <3> QED
          BY <1>5, <2>2, <3>1, <3>2
    <2> QED
        BY <2>1, <2>2
  <1> QED
      BY <1>1, <1>6, <1>7, <1>8

\* The sequence r is s with e in front of the k-th element.
Inserted(s, k, e, r) ==
    /\ Len(r) = Len(s) + 1
    /\ \A j \in 1..(Len(s) + 1) :
          r[j] = IF j < k THEN s[j] ELSE IF j = k THEN e ELSE s[j - 1]

LEMMA InsertAtFacts ==
    ASSUME NEW S, NEW s \in Seq(S), NEW k \in 1..(Len(s) + 1), NEW e \in S
    PROVE  InsertAt(s, k, e) \in Seq(S) /\ Inserted(s, k, e, InsertAt(s, k, e))
  <1>1. PICK n \in Nat : n = Len(s)
      OBVIOUS
  <1>2. PICK a : a = SubSeq(s, 1, k - 1)
      OBVIOUS
  <1>3. PICK b : b = SubSeq(s, k, n)
      OBVIOUS
  <1>4. a \in Seq(S) /\ Len(a) = k - 1 /\ \A j \in 1..(k - 1) : a[j] = s[j]
      BY <1>1, <1>2
  <1>5. b \in Seq(S) /\ Len(b) = n - k + 1 /\ \A j \in 1..(n - k + 1) : b[j] = s[j + k - 1]
      BY <1>1, <1>3
  <1>6. InsertAt(s, k, e) = a \o <<e>> \o b
      BY <1>1, <1>2, <1>3 DEF InsertAt
  <1>7. PICK c : c = a \o <<e>>
      OBVIOUS
  <1>8. c \in Seq(S) /\ Len(c) = k /\ c[k] = e /\ \A j \in 1..(k - 1) : c[j] = s[j]
      BY <1>4, <1>7
  <1>9. c \o b \in Seq(S) /\ Len(c \o b) = n + 1
    <2>1. Len(c \o b) = Len(c) + Len(b)
        BY <1>5, <1>8, SMTT(60)
    <2>2. k + (n - k + 1) = n + 1
        BY <1>1
    <2> QED
        BY <1>5, <1>8, <2>1, <2>2
  <1>10. ASSUME NEW j \in 1..(n + 1)
         PROVE  (c \o b)[j] = IF j < k THEN s[j] ELSE IF j = k THEN e ELSE s[j - 1]
    <2>1. CASE j <= k
        BY <1>1, <1>5, <1>8, <2>1
    <2>2. CASE ~(j <= k)
      <3>1. j - k \in 1..(n - k + 1) /\ (j - k) + k - 1 = j - 1
          BY <1>1, <2>2
      <3>2. (c \o b)[j] = b[j - k]
          BY <1>1, <1>5, <1>8, <2>2
      <3> QED
          BY <1>5, <2>2, <3>1, <3>2
    <2> QED
        BY <2>1, <2>2
  <1> QED
      BY <1>1, <1>6, <1>7, <1>9, <1>10 DEF Inserted

-----------------------------------------------------------------------------
(* The invariant after a step, part by part                                *)

LEMMA InvAfter ==
    ASSUME HeapOK(free', free_end', spare', blocks', vend'),
           StackOK(stack'), RetOK(stack', ret'),
           PagesOK(page_free', held'), RegionOK(alloc_pointer', current_map'),
           OwnOK(user', Structs(free', spare'), PageStructs(page_free'), Kept(held', used_start'),
                 InHand(stack'), Returned(stack', ret'), DOMAIN blocks')
    PROVE  KMemInv'
  <1>1. HeapOK(free, free_end, spare, blocks, vend)'
      BY DEF HeapOK, ListOK, EndOf, StructsOK, BlocksOK, Entry
  <1>2. StackOK(stack)' /\ RetOK(stack, ret)'
      BY DEF StackOK, RetOK, Wants, Gives, Holds, Frames, MallocFrames, KfreeFrames, AskingFrames,
             FoundFrames, JoinFrames, PageFreeFrames, CreateFrames, SplitFrames, Run, OneRun, Entry
  <1>3. PagesOK(page_free, held)' /\ RegionOK(alloc_pointer, current_map)'
      BY DEF PagesOK, RegionOK, Run, OneRun
  <1>4. /\ Structs(free, spare)' = Structs(free', spare')
        /\ PageStructs(page_free)' = PageStructs(page_free')
        /\ Kept(held, used_start)' = Kept(held', used_start')
      BY DEF Structs, PageStructs, HeldStructs, Kept
  <1>5. InHand(stack)' = InHand(stack')
      BY DEF InHand, Holds
  <1>6. Returned(stack, ret)' = Returned(stack', ret')
      BY DEF Returned, Wants
  <1>7. OwnOK(user, Structs(free, spare), PageStructs(page_free), Kept(held, used_start),
              InHand(stack), Returned(stack, ret), DOMAIN blocks)'
      BY <1>4, <1>5, <1>6 DEF OwnOK
  <1> QED
      BY <1>1, <1>2, <1>3, <1>7 DEF KMemInv

-----------------------------------------------------------------------------
(* The stack                                                               *)

\* The innermost call goes on as g; and it does so after a call of f.
Resumed(g, s) == <<g>> \o Tail(s)
Called(f, g, s) == <<f, g>> \o Tail(s)

Continues(g, s) ==
    Gives(g) = Gives(s[1]) /\ (g.fn = "page_alloc" => g.nolock = s[1].nolock)

\* The innermost call goes on.
LEMMA StackReplace ==
    ASSUME NEW s, StackOK(s), s # <<>>, NEW g \in Frames, NEW t, t = <<g>> \o Tail(s),
           Gives(g) = Gives(s[1]), g.fn = "page_alloc" => g.nolock = s[1].nolock,
           Holds(g) \in {None, Holds(s[1])} \/ Holds(g) \notin InHand(s)
    PROVE  /\ StackOK(t) /\ t # <<>> /\ t[1] = g
           /\ InHand(t) = (InHand(s) \ {Holds(s[1])}) \cup ({Holds(g)} \ {None})
  <1>1. PICK n \in Nat : n = Len(s) /\ n > 0
      BY DEF StackOK
  <1>2. /\ t \in Seq(Frames) /\ Len(t) = n /\ t[1] = g
        /\ \A k \in 2..n : t[k] = s[k]
      BY <1>1 DEF StackOK
  <1>3. g.fn = "page_alloc" => s[1].fn = "page_alloc"
      BY DEF Gives
  <1>4. \A k \in 1..(n - 1) : Wants(t[k + 1]) = Gives(t[k])
      BY <1>1, <1>2 DEF StackOK
  <1>5. ASSUME NEW k \in 1..n, NEW l \in 1..n, k # l, Holds(t[k]) = Holds(t[l])
        PROVE  Holds(t[k]) = None
      BY <1>1, <1>2, <1>5 DEF StackOK, InHand
  <1>6. t # <<>> /\ (t[n].fn = "page_alloc" => t[n].nolock = FALSE)
      BY <1>1, <1>2, <1>3 DEF StackOK
  <1>7. ASSUME NEW x, x \in InHand(t)
        PROVE  x \in (InHand(s) \ {Holds(s[1])}) \cup ({Holds(g)} \ {None})
    <2>1. PICK k \in 1..n : x = Holds(t[k]) /\ x # None
        BY <1>2, <1>7 DEF InHand
    <2>2. CASE k = 1
        BY <1>2, <2>1, <2>2
    <2>3. CASE k # 1
      <3>1. x = Holds(s[k])
          BY <1>2, <2>1, <2>3
      <3>2. x \in InHand(s)
          BY <1>1, <2>1, <3>1 DEF InHand
      <3>3. x # Holds(s[1])
          BY <1>1, <2>1, <2>3, <3>1 DEF StackOK
      <3> QED
          BY <3>2, <3>3
    <2> QED
        BY <2>2, <2>3
  <1>8. ASSUME NEW x, x \in (InHand(s) \ {Holds(s[1])}) \cup ({Holds(g)} \ {None})
        PROVE  x \in InHand(t)
    <2>1. CASE x \in {Holds(g)} \ {None}
        BY <1>1, <1>2, <2>1 DEF InHand
    <2>2. CASE x \in InHand(s) /\ x # Holds(s[1])
      <3>1. PICK k \in 1..n : x = Holds(s[k]) /\ x # None
          BY <1>1, <2>2 DEF InHand
      <3>2. x = Holds(t[k])
          BY <1>1, <1>2, <2>2, <3>1
      <3> QED
          BY <1>2, <3>1, <3>2 DEF InHand
    <2> QED
        BY <1>8, <2>1, <2>2
  <1> QED
      BY <1>2, <1>4, <1>5, <1>6, <1>7, <1>8 DEF StackOK

\* The innermost call calls f, which has something in its hands when nobody else has it.
Handed(f, g, s) ==
    \/ Holds(g) \in {None, Holds(s[1])} /\ Holds(f) = None
    \/ Holds(g) = None /\ Holds(f) \notin InHand(s)

LEMMA StackPush ==
    ASSUME NEW s, StackOK(s), s # <<>>, NEW f \in Frames, NEW g \in Frames,
           NEW t, t = Called(f, g, s), Continues(g, s), Wants(g) = Gives(f), Handed(f, g, s)
    PROVE  /\ StackOK(t) /\ t # <<>> /\ t[1] = f
           /\ InHand(t) = (InHand(s) \ {Holds(s[1])}) \cup ({Holds(f), Holds(g)} \ {None})
  <1> USE DEF Called, Continues, Handed
  <1>1. PICK n \in Nat : n = Len(s) /\ n > 0
      BY DEF StackOK
  <1>2. /\ t \in Seq(Frames) /\ Len(t) = n + 1 /\ t[1] = f /\ t[2] = g
        /\ \A k \in 3..(n + 1) : t[k] = s[k - 1]
      BY <1>1 DEF StackOK
  <1>3. g.fn = "page_alloc" => s[1].fn = "page_alloc"
      BY DEF Gives
  <1>4. ASSUME NEW k \in 1..n PROVE Wants(t[k + 1]) = Gives(t[k])
    <2>1. CASE k = 1
        BY <1>2, <2>1
    <2>2. CASE k = 2
        BY <1>1, <1>2, <2>2 DEF StackOK
    <2>3. CASE k > 2
      <3>1. t[k + 1] = s[k] /\ t[k] = s[k - 1] /\ k - 1 \in 1..(n - 1) /\ (k - 1) + 1 = k
          BY <1>1, <1>2, <2>3
      <3> QED
          BY <1>1, <3>1 DEF StackOK
    <2>4. k = 1 \/ k = 2 \/ k > 2
        BY <1>1
    <2> QED
        BY <2>1, <2>2, <2>3, <2>4
  <1>5. \A k \in 3..(n + 1) : k - 1 \in 2..n
      BY <1>1
  <1>6. ASSUME NEW k \in 1..(n + 1), NEW l \in 1..(n + 1), k < l, Holds(t[k]) = Holds(t[l])
        PROVE  Holds(t[k]) = None
    <2>1. CASE k > 2
      <3>1. /\ k \in 3..(n + 1) /\ l \in 3..(n + 1) /\ k - 1 # l - 1
            /\ k - 1 \in 1..n /\ l - 1 \in 1..n
          BY <1>1, <1>6, <2>1
      <3> QED
          BY <1>1, <1>2, <1>6, <3>1 DEF StackOK
    <2>2. CASE k = 2
      <3>1. l \in 3..(n + 1) /\ l - 1 \in 2..n
          BY <1>1, <1>6, <2>2
      <3>2. Holds(g) = Holds(s[l - 1])
          BY <1>2, <1>6, <2>2, <3>1
      <3>3. Holds(s[l - 1]) = Holds(s[1]) => Holds(s[1]) = None
          BY <1>1, <3>1 DEF StackOK
      <3> QED
          BY <1>2, <2>2, <3>2, <3>3
    <2>3. CASE k = 1
      <3>1. l = 2 \/ (l \in 3..(n + 1) /\ l - 1 \in 1..n)
          BY <1>1, <1>6, <2>3
      <3>2. CASE l = 2
          BY <1>2, <1>6, <2>3, <3>2
      <3>3. CASE l \in 3..(n + 1) /\ l - 1 \in 1..n
        <4>1. Holds(f) = Holds(s[l - 1])
            BY <1>2, <1>6, <2>3, <3>3
        <4>2. Holds(f) \in InHand(s) \/ Holds(f) = None
            BY <1>1, <3>3, <4>1 DEF InHand
        <4> QED
            BY <1>2, <2>3, <4>2
      <3> QED
          BY <3>1, <3>2, <3>3
    <2>4. k = 1 \/ k = 2 \/ k > 2
        BY <1>1
    <2> QED
        BY <2>1, <2>2, <2>3, <2>4
  <1>7. t # <<>> /\ (t[n + 1].fn = "page_alloc" => t[n + 1].nolock = FALSE)
    <2>1. CASE n = 1
        BY <1>1, <1>2, <1>3, <2>1 DEF StackOK
    <2>2. CASE n # 1
      <3>1. t[n + 1] = s[n]
          BY <1>1, <1>2, <2>2
      <3> QED
          BY <1>1, <1>2, <3>1 DEF StackOK
    <2> QED
        BY <2>1, <2>2
  <1>8. InHand(t) = (InHand(s) \ {Holds(s[1])}) \cup ({Holds(f), Holds(g)} \ {None})
    <2>1. ASSUME NEW x, x \in InHand(t)
          PROVE  x \in (InHand(s) \ {Holds(s[1])}) \cup ({Holds(f), Holds(g)} \ {None})
      <3>1. PICK k \in 1..(n + 1) : x = Holds(t[k]) /\ x # None
          BY <1>2, <2>1 DEF InHand
      <3>2. CASE k \in {1, 2}
          BY <1>2, <3>1, <3>2
      <3>3. CASE k \in 3..(n + 1)
        <4>1. k - 1 \in 2..n /\ x = Holds(s[k - 1])
            BY <1>2, <1>5, <3>1, <3>3
        <4>2. k - 1 \in 1..n /\ k - 1 # 1
            BY <1>1, <4>1
        <4>3. x \in InHand(s)
            BY <1>1, <3>1, <4>1, <4>2 DEF InHand
        <4>4. x # Holds(s[1])
            BY <1>1, <3>1, <4>1, <4>2 DEF StackOK
        <4> QED
            BY <4>3, <4>4
      <3> QED
          BY <3>2, <3>3
    <2>2. ASSUME NEW x, x \in (InHand(s) \ {Holds(s[1])}) \cup ({Holds(f), Holds(g)} \ {None})
          PROVE  x \in InHand(t)
      <3>1. CASE x \in {Holds(f), Holds(g)} \ {None}
          BY <1>1, <1>2, <3>1, SMTT(60) DEF InHand
      <3>2. CASE x \in InHand(s) /\ x # Holds(s[1])
        <4>1. PICK k \in 1..n : x = Holds(s[k]) /\ x # None
            BY <1>1, <3>2 DEF InHand
        <4>2. k + 1 \in 3..(n + 1) /\ (k + 1) - 1 = k
            BY <1>1, <3>2, <4>1
        <4>3. x = Holds(t[k + 1]) /\ k + 1 \in 1..(n + 1)
            BY <1>1, <1>2, <4>1, <4>2
        <4> QED
            BY <1>2, <4>1, <4>3 DEF InHand
      <3> QED
          BY <2>2, <3>1, <3>2
    <2> QED
        BY <2>1, <2>2
  <1>9. ASSUME NEW k \in 1..(n + 1), NEW l \in 1..(n + 1), k # l, Holds(t[k]) = Holds(t[l])
        PROVE  Holds(t[k]) = None
    <2>1. k < l \/ l < k
        BY <1>1, <1>9
    <2> QED
        BY <1>6, <1>9, <2>1
  <1>10. Len(t) - 1 = n
      BY <1>1, <1>2
  <1>11. \A k \in 1..(Len(t) - 1) : Wants(t[k + 1]) = Gives(t[k])
      BY <1>4, <1>10
  <1>12. StackOK(t)
      BY <1>2, <1>7, <1>9, <1>11 DEF StackOK
  <1> QED
      BY <1>2, <1>7, <1>8, <1>12

\* The innermost call returns.
LEMMA StackPop ==
    ASSUME NEW s, StackOK(s), s # <<>>, NEW t, t = Tail(s)
    PROVE  /\ StackOK(t)
           /\ InHand(t) = InHand(s) \ {Holds(s[1])}
           /\ Len(s) = 1 <=> t = <<>>
           /\ t # <<>> => Wants(t[1]) = Gives(s[1])
  <1>1. PICK n \in Nat : n = Len(s) /\ n > 0
      BY DEF StackOK
  <1>2. /\ t \in Seq(Frames) /\ Len(t) = n - 1
        /\ \A k \in 1..(n - 1) : t[k] = s[k + 1]
      BY <1>1 DEF StackOK
  <1>3. t = <<>> <=> n = 1
      BY <1>1, <1>2
  <1>4. ASSUME NEW k \in 1..(n - 2) PROVE Wants(t[k + 1]) = Gives(t[k])
    <2>1. k \in 1..(n - 1) /\ k + 1 \in 1..(n - 1)
        BY <1>1
    <2> QED
        BY <1>1, <1>2, <2>1 DEF StackOK
  <1>5. ASSUME NEW k \in 1..(n - 1), NEW l \in 1..(n - 1), k # l, Holds(t[k]) = Holds(t[l])
        PROVE  Holds(t[k]) = None
    <2>1. k + 1 \in 1..n /\ l + 1 \in 1..n /\ k + 1 # l + 1
        BY <1>1, <1>5
    <2> QED
        BY <1>1, <1>2, <1>5, <2>1 DEF StackOK
  <1>6. t # <<>> /\ t[n - 1].fn = "page_alloc" => t[n - 1].nolock = FALSE
    <2>1. t # <<>> => n - 1 \in 1..(n - 1) /\ (n - 1) + 1 = n
        BY <1>1, <1>3
    <2> QED
        BY <1>1, <1>2, <2>1 DEF StackOK
  <1>7. InHand(t) = InHand(s) \ {Holds(s[1])}
    <2>1. ASSUME NEW x, x \in InHand(t) PROVE x \in InHand(s) /\ x # Holds(s[1])
      <3>1. PICK k \in 1..(n - 1) : x = Holds(t[k]) /\ x # None
          BY <1>2, <2>1 DEF InHand
      <3>2. k + 1 \in 1..n /\ k + 1 # 1 /\ x = Holds(s[k + 1])
          BY <1>1, <1>2, <3>1
      <3> QED
          BY <1>1, <3>1, <3>2 DEF InHand, StackOK
    <2>2. ASSUME NEW x, x \in InHand(s), x # Holds(s[1]) PROVE x \in InHand(t)
      <3>1. PICK k \in 1..n : x = Holds(s[k]) /\ x # None
          BY <1>1, <2>2 DEF InHand
      <3>2. k - 1 \in 1..(n - 1) /\ (k - 1) + 1 = k
          BY <1>1, <2>2, <3>1
      <3>3. x = Holds(t[k - 1])
          BY <1>2, <3>1, <3>2
      <3> QED
          BY <1>2, <3>1, <3>2, <3>3 DEF InHand
    <2> QED
        BY <2>1, <2>2
  <1>8. t # <<>> => Wants(t[1]) = Gives(s[1])
    <2>1. t # <<>> => 1 \in 1..(n - 1) /\ t[1] = s[1 + 1]
        BY <1>1, <1>2, <1>3
    <2> QED
        BY <1>1, <2>1 DEF StackOK
  <1>9. StackOK(t)
      BY <1>2, <1>4, <1>5, <1>6 DEF StackOK
  <1> QED
      BY <1>1, <1>3, <1>7, <1>8, <1>9

-----------------------------------------------------------------------------
(* The free list                                                           *)

\* A set of numbers has a least one.
LEMMA LeastNumber ==
    ASSUME NEW T \in SUBSET Nat, T # {}
    PROVE  Min(T) \in T /\ \A y \in T : Min(T) <= y
  <1> DEFINE R == OpToRel(<, Nat)
  <1>1. IsWellFoundedOn(R, Nat)
      BY NatLessThanWellFounded
  <1>2. \A x, y \in Nat : x < y => <<x, y>> \in R
      BY DEF OpToRel
  <1> HIDE DEF R
  <1>3. PICK x \in T : \A y \in T : ~(<<y, x>> \in R)
      BY <1>1, WFMin
  <1>4. ASSUME NEW y \in T PROVE x <= y
    <2>1. x \in Nat /\ y \in Nat
        OBVIOUS
    <2>2. ~(y < x)
        BY <1>2, <1>3, <2>1, Zenon
    <2> QED
        BY <2>1, <2>2
  <1> QED
      BY <1>4 DEF Min

\* An entry that gets larger.
LEMMA GrownEntry ==
    ASSUME NEW d \in Entry, NEW n \in Nat, NEW g, g = [d EXCEPT !.size = d.size + n]
    PROVE  g \in Entry /\ g.at = d.at /\ g.base = d.base /\ g.size = d.size + n
  BY DEF Entry

\* A list with one entry of it larger.
LEMMA GrownList ==
    ASSUME NEW l \in Seq(Entry), NEW i \in 1..Len(l), NEW n \in Nat
    PROVE  [l EXCEPT ![i].size = @ + n] =
             [l EXCEPT ![i] = [l[i] EXCEPT !.size = l[i].size + n]]
  OBVIOUS

\* The list r is l when entry i becomes g and the one behind it goes.
Swallowed(l, i, g, r) ==
    /\ r \in Seq(Entry) /\ Len(r) = Len(l) - 1
    /\ \A j \in 1..(Len(l) - 1) :
          r[j] = IF j < i THEN l[j] ELSE IF j = i THEN g ELSE l[j + 1]

LEMMA SwallowFacts ==
    ASSUME NEW l \in Seq(Entry), NEW n \in Nat, n = Len(l), NEW i \in 1..(n - 1),
           NEW g \in Entry, NEW c, c = [l EXCEPT ![i] = g], NEW r, r = RemoveAt(c, i + 1)
    PROVE  Swallowed(l, i, g, r)
  <1>1. i \in 1..n /\ i + 1 \in 1..n
      OBVIOUS
  <1>2. c \in Seq(Entry) /\ Len(c) = n /\ \A j \in 1..n : c[j] = IF j = i THEN g ELSE l[j]
      BY <1>1
  <1>3. PICK q \in 1..Len(c) : q = i + 1
      BY <1>1, <1>2
  <1>4. /\ r \in Seq(Entry) /\ Len(r) = n - 1
        /\ \A j \in 1..(n - 1) : r[j] = IF j < q THEN c[j] ELSE c[j + 1]
    <2>1. r = RemoveAt(c, q)
        BY <1>3
    <2>2. /\ r \in Seq(Entry) /\ Len(r) = Len(c) - 1
          /\ \A j \in 1..(Len(c) - 1) : r[j] = IF j < q THEN c[j] ELSE c[j + 1]
      <3>1. c \in Seq(Entry) /\ q \in 1..Len(c)
          BY <1>2, <1>3
      <3>2. /\ RemoveAt(c, q) \in Seq(Entry) /\ Len(RemoveAt(c, q)) = Len(c) - 1
            /\ \A j \in 1..(Len(c) - 1) :
                  RemoveAt(c, q)[j] = IF j < q THEN c[j] ELSE c[j + 1]
          BY <3>1, RemoveAtFacts, Zenon
      <3> QED
          BY <2>1, <3>2, Zenon
    <2> QED
        BY <1>2, <2>2
  <1>5. ASSUME NEW j \in 1..(n - 1)
        PROVE  r[j] = IF j < i THEN l[j] ELSE IF j = i THEN g ELSE l[j + 1]
    <2>1. j \in 1..n /\ j + 1 \in 1..n
        OBVIOUS
    <2>2. CASE j <= i
      <3>1. j < q /\ (j # i => j < i)
          BY <1>3, <2>2
      <3>2. r[j] = c[j]
          BY <1>4, <3>1
      <3> QED
          BY <1>2, <2>1, <2>2, <3>1, <3>2
    <2>3. CASE i < j
      <3>1. ~(j < q) /\ ~(j < i) /\ j # i /\ j + 1 # i
          BY <1>3, <2>3
      <3>2. r[j] = c[j + 1]
          BY <1>4, <3>1
      <3> QED
          BY <1>2, <2>1, <3>1, <3>2
    <2> QED
        BY <2>2, <2>3
  <1> QED
      BY <1>4, <1>5 DEF Swallowed

\* The types of a list's entries.
LEMMA EntryTypes ==
    ASSUME NEW l \in Seq(Entry)
    PROVE  \A j \in 1..Len(l) : l[j].at \in Nat /\ l[j].base \in Nat /\ l[j].size \in Nat
  <1>1. \A j \in 1..Len(l) : l[j] \in Entry
      OBVIOUS
  <1> QED
      BY <1>1 DEF Entry

\* A spare struct is put on the stack of them.
Pushed(x, s) == <<x>> \o s

LEMMA SpareFacts ==
    ASSUME NEW l \in Seq(Entry), NEW s, StructsOK(l, s), NEW x \in Nat, NEW q, q = Pushed(x, s),
           x \notin Structs(l, s)
    PROVE  /\ StructsOK(l, q)
           /\ Structs(l, q) = Structs(l, s) \cup {x}
  <1>0. (\A j \in 1..Len(s) : s[j] # x) /\ (\A i \in 1..Len(l) : l[i].at # x)
      BY DEF Structs
  <1> USE <1>0
  <1>1. PICK m \in Nat : m = Len(s)
      BY DEF StructsOK
  <1>2. s \in Seq(Nat)
      BY DEF StructsOK
  <1>3. q \in Seq(Nat) /\ Len(q) = m + 1 /\ q[1] = x /\ \A j \in 2..(m + 1) : q[j] = s[j - 1]
      BY <1>1, <1>2 DEF Pushed
  <1>4. \A j \in 1..(m + 1) : j = 1 \/ (j \in 2..(m + 1) /\ j - 1 \in 1..m)
      BY <1>1
  <1>5. ASSUME NEW i \in 1..(m + 1), NEW j \in 1..(m + 1), q[i] = q[j] PROVE i = j
    <2>1. CASE i = 1 \/ j = 1
        BY <1>1, <1>3, <1>4, <1>5, <2>1
    <2>2. CASE i # 1 /\ j # 1
      <3>1. s[i - 1] = s[j - 1] /\ i - 1 \in 1..m /\ j - 1 \in 1..m
          BY <1>3, <1>4, <1>5, <2>2
      <3>2. i - 1 = j - 1
          BY <1>1, <3>1 DEF StructsOK
      <3> QED
          BY <3>2
    <2> QED
        BY <2>1, <2>2
  <1>6. ASSUME NEW i \in 1..Len(l), NEW j \in 1..(m + 1) PROVE l[i].at # q[j]
    <2>1. CASE j = 1
        BY <1>0, <1>3, <2>1
    <2>2. CASE j # 1
      <3>1. j - 1 \in 1..Len(s) /\ q[j] = s[j - 1]
          BY <1>1, <1>3, <1>4, <2>2
      <3> QED
          BY <3>1 DEF StructsOK
    <2> QED
        BY <2>1, <2>2
  <1>7. {q[j] : j \in 1..(m + 1)} = {s[j] : j \in 1..m} \cup {x}
    <2>1. ASSUME NEW j \in 1..m PROVE j + 1 \in 2..(m + 1) /\ j + 1 \in 1..(m + 1) /\ s[j] = q[j + 1]
      <3>1. j + 1 \in 2..(m + 1) /\ j + 1 \in 1..(m + 1) /\ (j + 1) - 1 = j
          BY <1>1
      <3> QED
          BY <1>3, <3>1
    <2>2. 1 \in 1..(m + 1)
        BY <1>1
    <2>3. \A j \in 1..(m + 1) : q[j] \in {s[k] : k \in 1..m} \cup {x}
        BY <1>3, <1>4
    <2>4. \A k \in 1..m : s[k] \in {q[j] : j \in 1..(m + 1)}
        BY <2>1
    <2>5. x \in {q[j] : j \in 1..(m + 1)}
        BY <1>3, <2>2
    <2> QED
        BY <2>3, <2>4, <2>5
  <1>8. StructsOK(l, q)
      BY <1>3, <1>5, <1>6 DEF StructsOK
  <1> QED
      BY <1>1, <1>3, <1>7, <1>8 DEF Structs

\* Entry i touches the next one, and g is the two together.
Joins(l, i, g) ==
    /\ i \in 1..(Len(l) - 1) /\ g \in Entry
    /\ g.at = l[i].at /\ g.base = l[i].base /\ g.size = l[i].size + l[i + 1].size
    /\ l[i].base + l[i].size = l[i + 1].base

\* The places T are in front of i; and i with them.
Before(T, i) == T \subseteq Int /\ \A t \in T : t < i
With(T, i) == T \cup {i}

\* An entry swallows the one behind it, which it touches.
LEMMA SwallowOK ==
    ASSUME NEW l, NEW i, NEW g, Joins(l, i, g), NEW r, Swallowed(l, i, g, r),
           NEW T, Before(T, i), NEW s, NEW bl, NEW v,
           NEW q, q = Pushed(l[i + 1].at, s),
           ListOK(l, With(T, i)), StructsOK(l, s), BlocksOK(l, bl, v)
    PROVE  /\ ListOK(r, T) /\ StructsOK(r, q) /\ BlocksOK(r, bl, v)
           /\ EndOf(r) = IF i + 1 = Len(l) THEN l[i].at ELSE EndOf(l)
           /\ Structs(r, q) = Structs(l, s)
  <1>a. PICK n \in Nat : n = Len(l)
      BY DEF ListOK
  <1>0. /\ n \in Nat /\ n = Len(l) /\ i \in 1..(n - 1) /\ g \in Entry
        /\ g.at = l[i].at /\ g.base = l[i].base /\ g.size = l[i].size + l[i + 1].size
        /\ l[i].base + l[i].size = l[i + 1].base
        /\ r \in Seq(Entry) /\ Len(r) = n - 1
        /\ \A j \in 1..(n - 1) : r[j] = IF j < i THEN l[j] ELSE IF j = i THEN g ELSE l[j + 1]
      BY <1>a DEF Joins, Swallowed
  <1> USE <1>0
  <1> DEFINE P(j) == IF j <= i THEN j ELSE j + 1
             E(j) == IF j < i THEN j ELSE j + 1
  <1>1. l \in Seq(Entry) /\ i \in 1..n /\ i + 1 \in 1..n
      BY DEF ListOK
  <1>2. \A j \in 1..n : l[j].at \in Nat /\ l[j].base \in Nat /\ l[j].size \in Nat
      BY <1>1, EntryTypes
  <1>3. ASSUME NEW j \in 1..(n - 1)
        PROVE  /\ P(j) \in 1..n /\ E(j) \in 1..n
               /\ r[j].at = l[P(j)].at /\ r[j].base = l[P(j)].base
               /\ r[j].base + r[j].size = l[E(j)].base + l[E(j)].size
               /\ r[j].size > Header /\ r[j].size \in Nat /\ r[j].base \in Nat
    <2>1. P(j) \in 1..n /\ E(j) \in 1..n
        OBVIOUS
    <2>0. \A k \in 1..n : l[k].size > Header
        BY DEF ListOK
    <2>2. CASE j < i
      <3>1. r[j] = l[j] /\ P(j) = j /\ E(j) = j
          BY <2>2
      <3> QED
          BY <1>2, <2>0, <2>1, <3>1
    <2>3. CASE j = i
      <3>1. r[j] = g /\ P(j) = i /\ E(j) = i + 1
          BY <2>3
      <3>2. g.size > Header /\ g.size \in Nat /\ g.base \in Nat
        <4>1. l[i].size \in Nat /\ l[i + 1].size \in Nat /\ l[i].base \in Nat /\ Header \in Nat
            BY <1>1, <1>2, SizesAssumption
        <4>2. l[i].size > Header
            BY <1>1, <2>0
        <4> QED
            BY <4>1, <4>2
      <3>3. g.base + g.size = l[i + 1].base + l[i + 1].size
          BY <1>1, <1>2
      <3> QED
          BY <2>1, <3>1, <3>2, <3>3
    <2>4. CASE i < j
      <3>1. r[j] = l[j + 1] /\ P(j) = j + 1 /\ E(j) = j + 1
          BY <2>4
      <3> QED
          BY <1>2, <2>0, <2>1, <3>1
    <2> QED
        BY <2>2, <2>3, <2>4
  <1>4. ASSUME NEW a \in 1..(n - 1), NEW b \in 1..(n - 1)
        PROVE  /\ a < b => E(a) < P(b)
               /\ E(a) # i /\ P(a) # i + 1
               /\ P(a) = P(b) => a = b
               /\ E(a) \in T /\ P(b) = E(a) + 1 => a \in T /\ b = a + 1
      BY DEF Before
  <1>5. ASSUME NEW k \in 1..n, k # i + 1 PROVE \E j \in 1..(n - 1) : P(j) = k
    <2>1. CASE k <= i
      <3>1. k \in 1..(n - 1) /\ P(k) = k
          BY <2>1
      <3> QED
          BY <3>1
    <2>2. CASE k > i
      <3>1. k - 1 \in 1..(n - 1) /\ P(k - 1) = k
          BY <1>5, <2>2
      <3> QED
          BY <3>1
    <2>3. k <= i \/ k > i
        OBVIOUS
    <2> QED
        BY <2>1, <2>2, <2>3, Zenon
  <1> HIDE DEF P, E
  <1>6. ListOK(r, T)
    <2>1. ASSUME NEW a \in 1..(n - 1), NEW b \in 1..(n - 1), a < b
          PROVE  \/ r[a].base + r[a].size < r[b].base
                 \/ r[a].base + r[a].size = r[b].base /\ a \in T /\ b = a + 1
      <3>1. \/ l[E(a)].base + l[E(a)].size < l[P(b)].base
            \/ /\ l[E(a)].base + l[E(a)].size = l[P(b)].base
               /\ E(a) \in T \cup {i} /\ P(b) = E(a) + 1
        <4>1. E(a) \in 1..n /\ P(b) \in 1..n /\ E(a) < P(b)
            BY <1>3, <1>4, <2>1
        <4> QED
            BY <4>1 DEF ListOK, With
      <3>2. E(a) \in T \cup {i} /\ P(b) = E(a) + 1 => a \in T /\ b = a + 1
          BY <1>4
      <3> QED
          BY <1>3, <3>1, <3>2
    <2> QED
        BY <1>3, <2>1 DEF ListOK
  <1>7. StructsOK(r, s)
    <2>1. ASSUME NEW a \in 1..(n - 1), NEW b \in 1..(n - 1), r[a].at = r[b].at PROVE a = b
      <3>1. P(a) \in 1..n /\ P(b) \in 1..n /\ l[P(a)].at = l[P(b)].at
          BY <1>3, <2>1
      <3>2. P(a) = P(b)
          BY <3>1 DEF StructsOK
      <3> QED
          BY <1>4, <3>2
    <2>2. ASSUME NEW a \in 1..(n - 1), NEW j \in 1..Len(s) PROVE r[a].at # s[j]
      <3>1. P(a) \in 1..n /\ r[a].at = l[P(a)].at
          BY <1>3
      <3> QED
          BY <3>1 DEF StructsOK
    <2> QED
        BY <2>1, <2>2 DEF StructsOK
  <1>8. BlocksOK(r, bl, v)
    <2>1. ASSUME NEW j \in 1..(n - 1) PROVE r[j].base + r[j].size <= v
        BY <1>3 DEF BlocksOK
    <2>2. ASSUME NEW b \in DOMAIN bl, NEW j \in 1..(n - 1)
          PROVE  b + bl[b] <= r[j].base \/ r[j].base + r[j].size <= b
      <3>1. bl[b] \in Nat /\ b \in Nat
          BY DEF BlocksOK
      <3>2. CASE j # i
        <4>1. P(j) = E(j)
            BY <3>2 DEF P, E
        <4> QED
            BY <1>3, <4>1 DEF BlocksOK
      <3>3. CASE j = i
        <4>1. P(j) = i /\ E(j) = i + 1
            BY <3>3 DEF P, E
        <4>2. b + bl[b] <= l[i].base \/ l[i].base + l[i].size <= b
            BY <1>1 DEF BlocksOK
        <4>3. b + bl[b] <= l[i + 1].base \/ l[i + 1].base + l[i + 1].size <= b
            BY <1>1 DEF BlocksOK
        <4>4. bl[b] > Header /\ Header \in Nat
            BY SizesAssumption DEF BlocksOK
        <4>5. r[j].base = l[i].base /\ r[j].base + r[j].size = l[i + 1].base + l[i + 1].size
            BY <1>3, <3>3, <4>1
        <4>6. l[i].base \in Nat /\ l[i].size \in Nat /\ l[i + 1].base \in Nat /\ l[i + 1].size \in Nat
            BY <1>1, <1>2
        <4> QED
            BY <3>1, <4>2, <4>3, <4>4, <4>5, <4>6
      <3> QED
          BY <3>2, <3>3
    <2> QED
        BY <2>1, <2>2 DEF BlocksOK
  <1>9. EndOf(r) = IF i + 1 = n THEN l[i].at ELSE EndOf(l)
    <2>1. n - 1 \in 1..(n - 1) /\ r # <<>> /\ l # <<>>
        BY <1>1
    <2>2. EndOf(r) = l[P(n - 1)].at /\ EndOf(l) = l[n].at
        BY <1>3, <2>1 DEF EndOf
    <2>3. P(n - 1) = IF i + 1 = n THEN i ELSE n
        BY DEF P
    <2> QED
        BY <2>2, <2>3
  <1>10. Structs(r, s) \cup {l[i + 1].at} = Structs(l, s)
    <2>1. \A j \in 1..(n - 1) : r[j].at \in {l[k].at : k \in 1..n}
        BY <1>3
    <2>2. ASSUME NEW k \in 1..n PROVE l[k].at \in {r[j].at : j \in 1..(n - 1)} \cup {l[i + 1].at}
      <3>1. CASE k = i + 1
          BY <3>1
      <3>2. CASE k # i + 1
        <4>1. PICK j \in 1..(n - 1) : P(j) = k
            BY <1>5, <3>2
        <4> QED
            BY <1>3, <4>1
      <3> QED
          BY <3>1, <3>2
    <2>3. {r[j].at : j \in 1..(n - 1)} \cup {l[i + 1].at} = {l[k].at : k \in 1..n}
      <3>1. l[i + 1].at \in {l[k].at : k \in 1..n}
          BY <1>1
      <3>2. {r[j].at : j \in 1..(n - 1)} \subseteq {l[k].at : k \in 1..n}
          BY <2>1
      <3>3. {l[k].at : k \in 1..n} \subseteq {r[j].at : j \in 1..(n - 1)} \cup {l[i + 1].at}
          BY <2>2
      <3> QED
          BY <3>1, <3>2, <3>3
    <2> QED
        BY <2>3 DEF Structs
  <1>11. ASSUME NEW j \in 1..(n - 1) PROVE r[j].at # l[i + 1].at
    <2>1. P(j) \in 1..n /\ P(j) # i + 1 /\ r[j].at = l[P(j)].at
        BY <1>3, <1>4
    <2> QED
        BY <1>1, <2>1 DEF StructsOK
  <1>12. \A j \in 1..Len(s) : s[j] # l[i + 1].at
      BY <1>1 DEF StructsOK
  <1>13. StructsOK(r, q) /\ Structs(r, q) = Structs(r, s) \cup {l[i + 1].at}
    <2>1. PICK x \in Nat : x = l[i + 1].at
        BY <1>1, <1>2
    <2>2. x \notin Structs(r, s)
        BY <1>11, <1>12, <2>1 DEF Structs
    <2>3. q = Pushed(x, s)
        BY <2>1
    <2>4. StructsOK(r, q) /\ Structs(r, q) = Structs(r, s) \cup {x}
        BY <1>0, <1>7, <2>1, <2>2, <2>3, SpareFacts
    <2> QED
        BY <2>1, <2>4
  <1> QED
      BY <1>6, <1>8, <1>9, <1>10, <1>13

\* The part of the heap that _merge_free works on.
Lists(l, s, e) == [free |-> l, spare |-> s, end |-> e]

\* _merge_free: the list stays in order, and a struct that is no longer needed is spare.
LEMMA MergeFacts ==
    ASSUME NEW l, NEW e, e = EndOf(l), NEW s, NEW i \in Int,
           NEW m, m = MergeFree(Lists(l, s, e), i),
           NEW T, Before(T, i), NEW bl, NEW v,
           ListOK(l, With(T, i)), StructsOK(l, s), BlocksOK(l, bl, v)
    PROVE  /\ ListOK(m.free, T) /\ StructsOK(m.free, m.spare) /\ BlocksOK(m.free, bl, v)
           /\ m.end = EndOf(m.free)
           /\ Structs(m.free, m.spare) = Structs(l, s)
           /\ m = Lists(m.free, m.spare, m.end)
  <1>0. PICK h : h = [free |-> l, spare |-> s, end |-> e]
      OBVIOUS
  <1>a. m = MergeFree(h, i)
      BY <1>0 DEF Lists
  <1>1. l \in Seq(Entry)
      BY DEF ListOK
  <1>b. PICK n \in Nat : n = Len(l)
      BY <1>1
  <1> USE <1>0, <1>a, <1>b
  <1>2. CASE ~(i \in 1..n - 1 /\ l[i].base + l[i].size = l[i + 1].base)
    <2>1. m = h
        BY <1>2 DEF MergeFree
    <2>2. ListOK(l, T)
      <3>1. ASSUME NEW a \in 1..n, NEW b \in 1..n, a < b
            PROVE  \/ l[a].base + l[a].size < l[b].base
                   \/ l[a].base + l[a].size = l[b].base /\ a \in T /\ b = a + 1
        <4>1. \/ l[a].base + l[a].size < l[b].base
              \/ l[a].base + l[a].size = l[b].base /\ a \in T \cup {i} /\ b = a + 1
            BY <3>1 DEF ListOK, With
        <4>2. ~(l[a].base + l[a].size = l[b].base /\ a = i /\ b = a + 1)
            BY <1>2, <3>1
        <4> QED
            BY <4>1, <4>2
      <3> QED
          BY <3>1 DEF ListOK
    <2>3. m.free = l /\ m.spare = s /\ m.end = e
        BY <2>1
    <2> QED
        BY <2>1, <2>2, <2>3 DEF Lists
  <1>3. CASE i \in 1..n - 1 /\ l[i].base + l[i].size = l[i + 1].base
    <2>1. PICK k \in 1..(n - 1) : k = i
        BY <1>3
    <2>2. k \in 1..n /\ k + 1 \in 1..n
        BY <2>1
    <2>3. l[k] \in Entry /\ l[k + 1] \in Entry /\ l[k + 1].size \in Nat /\ l[k].size \in Nat
        BY <1>1, <2>2, EntryTypes
    <2>4. PICK g : g = [l[k] EXCEPT !.size = l[k].size + l[k + 1].size]
        OBVIOUS
    <2>5. /\ g \in Entry /\ g.at = l[k].at /\ g.base = l[k].base
          /\ g.size = l[k].size + l[k + 1].size
      <3>1. PICK d \in Entry : d = l[k]
          BY <2>3
      <3>2. PICK z \in Nat : z = l[k + 1].size
          BY <2>3
      <3>3. g = [d EXCEPT !.size = d.size + z]
          BY <2>4, <3>1, <3>2
      <3>4. g \in Entry /\ g.at = d.at /\ g.base = d.base /\ g.size = d.size + z
          BY <3>1, <3>2, <3>3, GrownEntry
      <3> QED
          BY <3>1, <3>2, <3>4
    <2>6. PICK c : c = [l EXCEPT ![k] = g]
        OBVIOUS
    <2>7. [l EXCEPT ![k].size = @ + l[k + 1].size] = c
        BY <1>1, <2>2, <2>3, <2>4, <2>6, GrownList
    <2>8. PICK r : r = RemoveAt(c, k + 1)
        OBVIOUS
    <2>9. m = [free |-> r, spare |-> <<l[k + 1].at>> \o s,
               end |-> IF k + 1 = n THEN l[k].at ELSE e]
        BY <1>3, <2>1, <2>7, <2>8 DEF MergeFree
    <2>10. PICK q : q = Pushed(l[k + 1].at, s)
        OBVIOUS
    <2>11. m.free = r /\ m.spare = q /\ m.end = IF k + 1 = n THEN l[k].at ELSE e
        BY <2>9, <2>10 DEF Pushed
    <2>12. m = Lists(m.free, m.spare, m.end)
        BY <2>9 DEF Lists
    <2>13. Swallowed(l, k, g, r)
        BY <1>1, <2>1, <2>5, <2>6, <2>8, SwallowFacts
    <2>14. Joins(l, k, g) /\ Before(T, k) /\ ListOK(l, With(T, k))
        BY <1>3, <2>1, <2>5 DEF Joins
    <2>15. /\ ListOK(r, T) /\ StructsOK(r, q) /\ BlocksOK(r, bl, v)
           /\ EndOf(r) = IF k + 1 = n THEN l[k].at ELSE EndOf(l)
           /\ Structs(r, q) = Structs(l, s)
        BY <2>10, <2>13, <2>14, SwallowOK
    <2> QED
        BY <2>11, <2>12, <2>15
  <1> QED
      BY <1>2, <1>3

\* A block goes behind the ones that begin before it, to place k.
Place(l, base, k) ==
    /\ k \in 1..(Len(l) + 1) /\ (\A i \in 1..(k - 1) : l[i].base < base)
    /\ k <= Len(l) => base <= l[k].base

\* The entry b describes the allocated block at `base`.
Describes(b, base, bl) == b \in Entry /\ b.base = base /\ b.size = bl[base]

\* The places where an entry put in at k may touch the next.
Around(k) == {k - 1, k}

\* The blocks without one of them.
Without(bl, base) == [x \in DOMAIN bl \ {base} |-> bl[x]]

\* The list with a block of memory in front of its k-th entry.
LEMMA InsertOK ==
    ASSUME NEW l, NEW s, NEW bl, NEW v, NEW base \in DOMAIN bl, NEW b, Describes(b, base, bl),
           ListOK(l, {}), StructsOK(l, s), BlocksOK(l, bl, v), b.at \notin Structs(l, s),
           NEW k, Place(l, base, k), NEW r, r = InsertAt(l, k, b),
           NEW c, c = Without(bl, base)
    PROVE  /\ ListOK(r, Around(k)) /\ StructsOK(r, s) /\ BlocksOK(r, c, v)
           /\ EndOf(r) = IF k > Len(l) THEN b.at ELSE EndOf(l)
           /\ Structs(r, s) = Structs(l, s) \cup {b.at}
  <1>0. /\ Len(l) \in Nat /\ b \in Entry /\ b.base = base /\ b.size = bl[base]
        /\ k \in 1..(Len(l) + 1) /\ (\A i \in 1..(k - 1) : l[i].base < base)
        /\ k <= Len(l) => base <= l[k].base
      BY DEF ListOK, Place, Describes
  <1>a. PICK n \in Nat : n = Len(l)
      BY <1>0
  <1> USE <1>0, <1>a
  <1> DEFINE P(j) == IF j < k THEN j ELSE j - 1
  <1>1. l \in Seq(Entry) /\ base \in Nat /\ bl[base] \in Nat /\ bl[base] > Header /\ Header \in Nat
      BY SizesAssumption DEF ListOK, BlocksOK
  <1>2. \A j \in 1..n : l[j].at \in Nat /\ l[j].base \in Nat /\ l[j].size \in Nat
      BY <1>1, EntryTypes
  <1>3. \A j \in 1..n : l[j].size > Header
      BY DEF ListOK
  <1>4. /\ r \in Seq(Entry) /\ Len(r) = n + 1
        /\ \A j \in 1..(n + 1) : r[j] = IF j < k THEN l[j] ELSE IF j = k THEN b ELSE l[j - 1]
    <2>1. k \in 1..(Len(l) + 1)
        OBVIOUS
    <2>2. r \in Seq(Entry) /\ Inserted(l, k, b, r)
        BY <1>1, <2>1, InsertAtFacts
    <2> QED
        BY <2>2 DEF Inserted
  <1>5. r[k] = b /\ b.base = base /\ b.size = bl[base]
      BY <1>4
  <1>6. ASSUME NEW j \in 1..(n + 1), j # k
        PROVE  P(j) \in 1..n /\ r[j] = l[P(j)] /\ (P(j) < k <=> j < k)
    <2>1. CASE j < k
        BY <1>4, <2>1
    <2>2. CASE k < j
        BY <1>4, <2>2
    <2> QED
        BY <1>6, <2>1, <2>2
  <1>7. ASSUME NEW i \in 1..(n + 1), NEW j \in 1..(n + 1), i # k, j # k
        PROVE  (i < j => P(i) < P(j)) /\ (P(i) = P(j) => i = j)
      BY <1>7
  <1>8. ASSUME NEW j \in 1..n PROVE \E i \in 1..(n + 1) : i # k /\ P(i) = j
    <2>1. CASE j < k
        BY <2>1
    <2>2. CASE k <= j
      <3>1. j + 1 \in 1..(n + 1) /\ j + 1 # k /\ P(j + 1) = j
          BY <2>2
      <3> QED
          BY <3>1
    <2> QED
        BY <2>1, <2>2
  <1> HIDE DEF P
  \* the blocks in front of the new one end before it, the ones behind it begin after it
  <1>9. ASSUME NEW j \in 1..n
        PROVE  /\ j < k => l[j].base + l[j].size <= base
               /\ k <= j => base + bl[base] <= l[j].base
    <2>1. base + bl[base] <= l[j].base \/ l[j].base + l[j].size <= base
        BY DEF BlocksOK
    <2>2. l[j].base \in Nat /\ l[j].size \in Nat /\ l[j].size > Header
        BY <1>2, <1>3
    <2>3. j < k => l[j].base < base
        OBVIOUS
    <2>4. k <= j => base <= l[j].base
      <3>1. CASE k = j
          BY <3>1
      <3>2. CASE k < j
        <4>1. k \in 1..n
            BY <3>2
        <4>2. l[k].base + l[k].size < l[j].base
            BY <3>2, <4>1 DEF ListOK
        <4>3. base <= l[k].base /\ l[k].base \in Nat /\ l[k].size \in Nat
            BY <1>2, <4>1
        <4> QED
            BY <1>1, <2>2, <4>2, <4>3, SMTT(60)
      <3> QED
          BY <3>1, <3>2
    <2> QED
        BY <1>1, <2>1, <2>2, <2>3, <2>4
  <1>b. n = Len(l) /\ k \in 1..(n + 1) /\ \A i \in 1..(k - 1) : l[i].base < base
      OBVIOUS
  <1> HIDE <1>0
  <1>10. ListOK(r, Around(k))
    <2>1. ASSUME NEW i \in 1..(n + 1) PROVE r[i].size > Header
        BY <1>1, <1>3, <1>5, <1>6
    <2>2. ASSUME NEW i \in 1..(n + 1), NEW j \in 1..(n + 1), i < j
          PROVE  \/ r[i].base + r[i].size < r[j].base
                 \/ r[i].base + r[i].size = r[j].base /\ i \in {k - 1, k} /\ j = i + 1
      <3>1. CASE i # k /\ j # k
        <4>1. P(i) \in 1..n /\ P(j) \in 1..n /\ P(i) < P(j)
            BY <1>6, <1>7, <2>2, <3>1
        <4>2. l[P(i)].base + l[P(i)].size < l[P(j)].base
            BY <1>b, <4>1 DEF ListOK
        <4> QED
            BY <1>6, <3>1, <4>2
      <3>2. CASE j = k
        <4>1. i \in 1..n /\ i < k /\ r[i] = l[i] /\ r[j] = b
            BY <1>4, <1>5, <1>b, <2>2, <3>2
        <4>2. l[i].base + l[i].size <= base
            BY <1>9, <4>1
        <4>0. l[i].base \in Nat /\ l[i].size \in Nat
            BY <1>2, <4>1
        <4>3. CASE i = k - 1
          <5>1. k = i + 1
              BY <1>b, <4>3
          <5> QED
              BY <1>1, <1>5, <3>2, <4>0, <4>1, <4>2, <4>3, <5>1, SMTT(60)
        <4>4. CASE i # k - 1
          <5>1. k - 1 \in 1..n /\ i < k - 1 /\ k - 1 \in 1..(k - 1)
              BY <1>b, <4>1, <4>4
          <5>2. l[i].base + l[i].size < l[k - 1].base
              BY <1>b, <4>1, <5>1 DEF ListOK
          <5>3. l[k - 1].base < base /\ l[k - 1].base \in Nat
              BY <1>b, <1>2, <5>1
          <5> QED
              BY <1>1, <1>5, <4>0, <4>1, <5>2, <5>3, SMTT(60)
        <4> QED
            BY <4>3, <4>4
      <3>3. CASE i = k
        <4>1. j - 1 \in 1..n /\ k <= j - 1 /\ r[j] = l[j - 1] /\ r[i] = b
            BY <1>4, <1>5, <1>b, <2>2, <3>3
        <4>2. base + bl[base] <= l[j - 1].base
            BY <1>9, <4>1
        <4>3. CASE j = k + 1
          <5>1. l[j - 1].base \in Nat
              BY <1>2, <4>1
          <5> QED
              BY <1>1, <1>5, <3>3, <4>1, <4>2, <4>3, <5>1
        <4>4. CASE j # k + 1
          <5>1. k \in 1..n /\ k < j - 1
              BY <1>b, <4>1, <4>4
          <5>2. l[k].base + l[k].size < l[j - 1].base
              BY <1>b, <4>1, <5>1 DEF ListOK
          <5>3. base + bl[base] <= l[k].base /\ l[k].base \in Nat /\ l[k].size \in Nat
              BY <1>2, <1>9, <5>1
          <5>4. l[j - 1].base \in Nat
              BY <1>2, <4>1
          <5>5. base + bl[base] < l[j - 1].base
            <6>1. PICK x \in Nat : x = base + bl[base]
                BY <1>1
            <6>2. PICK y \in Nat : y = l[k].base
                BY <5>3
            <6>3. PICK z \in Nat : z = l[k].size
                BY <5>3
            <6>4. PICK w \in Nat : w = l[j - 1].base
                BY <5>4
            <6>5. x <= y /\ y + z < w
                BY <5>2, <5>3, <6>1, <6>2, <6>3, <6>4
            <6>6. x < w
                BY <6>5
            <6> QED
                BY <6>1, <6>4, <6>6, Zenon
          <5> QED
              BY <1>5, <4>1, <5>5
        <4> QED
            BY <4>3, <4>4
      <3> QED
          BY <3>1, <3>2, <3>3
    <2> QED
        BY <1>4, <2>1, <2>2 DEF ListOK, Around
  <1> USE <1>0
  <1>11. b.at \notin {l[j].at : j \in 1..n} /\ b.at \notin {s[j] : j \in 1..Len(s)}
      BY DEF Structs
  <1>12. StructsOK(r, s)
    <2>1. ASSUME NEW i \in 1..(n + 1), NEW j \in 1..(n + 1), r[i].at = r[j].at PROVE i = j
      <3>1. CASE i # k /\ j # k
        <4>1. P(i) \in 1..n /\ P(j) \in 1..n /\ l[P(i)].at = l[P(j)].at
            BY <1>6, <2>1, <3>1
        <4>2. P(i) = P(j)
            BY <4>1 DEF StructsOK
        <4> QED
            BY <1>7, <3>1, <4>2
      <3>2. CASE (i = k \/ j = k) /\ i # j
          BY <1>5, <1>6, <1>11, <2>1, <3>2
      <3> QED
          BY <3>1, <3>2
    <2>2. ASSUME NEW i \in 1..(n + 1), NEW j \in 1..Len(s) PROVE r[i].at # s[j]
      <3>1. CASE i = k
          BY <1>5, <1>11, <3>1
      <3>2. CASE i # k
        <4>1. P(i) \in 1..n /\ r[i] = l[P(i)]
            BY <1>6, <3>2
        <4> QED
            BY <4>1 DEF StructsOK
      <3> QED
          BY <3>1, <3>2
    <2> QED
        BY <1>4, <2>1, <2>2 DEF StructsOK
  <1>13. DOMAIN c = DOMAIN bl \ {base} /\ \A x \in DOMAIN c : c[x] = bl[x]
      BY DEF Without
  <1> HIDE DEF P
  <1>14. BlocksOK(r, c, v)
    <2>1. ASSUME NEW j \in 1..(n + 1) PROVE r[j].base + r[j].size <= v
      <3>1. CASE j = k
          BY <1>5, <3>1 DEF BlocksOK
      <3>2. CASE j # k
        <4>1. P(j) \in 1..n /\ r[j] = l[P(j)]
            BY <1>6, <3>2
        <4> QED
            BY <4>1 DEF BlocksOK
      <3> QED
          BY <3>1, <3>2
    <2>2. ASSUME NEW x \in DOMAIN c, NEW j \in 1..(n + 1)
          PROVE  x + c[x] <= r[j].base \/ r[j].base + r[j].size <= x
      <3>0. x \in DOMAIN bl /\ x # base /\ c[x] = bl[x]
          BY <1>13
      <3>1. CASE j = k
          BY <1>5, <3>0, <3>1 DEF BlocksOK
      <3>2. CASE j # k
        <4>1. P(j) \in 1..n /\ r[j] = l[P(j)]
            BY <1>6, <3>2
        <4>2. x + bl[x] <= l[P(j)].base \/ l[P(j)].base + l[P(j)].size <= x
            BY <3>0, <4>1 DEF BlocksOK
        <4> QED
            BY <3>0, <4>1, <4>2
      <3> QED
          BY <3>1, <3>2
    <2>3. /\ v \in Nat /\ DOMAIN c \subseteq Nat
          /\ \A x \in DOMAIN c : c[x] \in Nat /\ c[x] > Header /\ x + c[x] <= v
          /\ \A x, y \in DOMAIN c : x # y => x + c[x] <= y \/ y + c[y] <= x
        BY <1>13 DEF BlocksOK
    <2> QED
        BY <1>4, <2>1, <2>2, <2>3 DEF BlocksOK
  <1>15. EndOf(r) = IF k > n THEN b.at ELSE EndOf(l)
    <2>1. r # <<>> /\ n + 1 \in 1..(n + 1) /\ EndOf(r) = r[n + 1].at
        BY <1>4 DEF EndOf
    <2>2. CASE k > n
        BY <1>5, <2>1, <2>2
    <2>3. CASE k <= n
      <3>1. r[n + 1] = l[n] /\ l # <<>>
          BY <1>1, <1>4, <2>1, <2>3
      <3> QED
          BY <2>1, <2>3, <3>1 DEF EndOf
    <2> QED
        BY <2>2, <2>3
  <1>16. {r[j].at : j \in 1..(n + 1)} = {l[j].at : j \in 1..n} \cup {b.at}
    <2>1. ASSUME NEW j \in 1..(n + 1) PROVE r[j].at \in {l[i].at : i \in 1..n} \cup {b.at}
        BY <1>5, <1>6
    <2>2. ASSUME NEW j \in 1..n PROVE l[j].at \in {r[i].at : i \in 1..(n + 1)}
        BY <1>6, <1>8, SMTT(60)
    <2>3. b.at \in {r[i].at : i \in 1..(n + 1)}
        BY <1>5
    <2>4. {r[j].at : j \in 1..(n + 1)} \subseteq {l[i].at : i \in 1..n} \cup {b.at}
        BY <2>1
    <2>5. {l[j].at : j \in 1..n} \subseteq {r[i].at : i \in 1..(n + 1)}
        BY <2>2
    <2> QED
        BY <2>3, <2>4, <2>5
  <1>17. Structs(r, s) = Structs(l, s) \cup {b.at}
      BY <1>4, <1>16 DEF Structs
  <1> QED
      BY <1>10, <1>12, <1>14, <1>15, <1>17

\* The place where a block goes: behind the ones that begin before it.
LEMMA InsertPlace ==
    ASSUME NEW f, Len(f) \in Nat, NEW base \in Int, \A i \in 1..Len(f) : f[i].base \in Int,
           NEW k, k = Min({i \in 1..Len(f) : f[i].base >= base} \cup {Len(f) + 1})
    PROVE  Place(f, base, k)
  <1>0. PICK n \in Nat : n = Len(f)
      OBVIOUS
  <1> USE <1>0
  <1>1. PICK K : K = {i \in 1..n : f[i].base >= base} \cup {n + 1}
      OBVIOUS
  <1>2. K \in SUBSET Nat /\ K # {}
      BY <1>1
  <1>3. k \in K /\ \A i \in K : k <= i
      BY <1>1, <1>2, LeastNumber
  <1>4. k \in 1..(n + 1)
      BY <1>1, <1>3
  <1>5. ASSUME NEW i \in 1..(k - 1) PROVE f[i].base < base
    <2>1. i \in 1..n /\ ~(k <= i)
        BY <1>4
    <2>2. i \notin K
        BY <1>3, <2>1
    <2> QED
        BY <1>1, <2>1, <2>2
  <1>6. k <= n => base <= f[k].base
      BY <1>1, <1>3, <1>4
  <1> QED
      BY <1>4, <1>5, <1>6 DEF Place

\* kfree puts a block into the list: it is free now, and nothing else changes.
LEMMA InsertFreeHeap ==
    ASSUME HeapOK(free, free_end, spare, blocks, vend), NEW base \in DOMAIN blocks,
           NEW struct \in Nat, NEW spares, StructsOK(free, spares),
           struct \notin Structs(free, spares), InsertFree(base, struct, spares)
    PROVE  /\ HeapOK(free', free_end', spare', blocks', vend')
           /\ Structs(free', spare') = Structs(free, spares) \cup {struct}
           /\ DOMAIN blocks' = DOMAIN blocks \ {base}
  <1>1. PICK l : l = free
      OBVIOUS
  <1>2. ListOK(l, {}) /\ StructsOK(l, spares) /\ BlocksOK(l, blocks, vend) /\ l \in Seq(Entry)
      BY <1>1 DEF HeapOK, ListOK
  <1>3. PICK n \in Nat : n = Len(l)
      BY <1>2
  <1>4. base \in Nat /\ blocks[base] \in Nat
      BY <1>2 DEF BlocksOK
  <1>5. PICK b : b = [at |-> struct, base |-> base, size |-> blocks[base]]
      OBVIOUS
  <1>6. Describes(b, base, blocks) /\ b.at = struct
      BY <1>4, <1>5 DEF Entry, Describes
  <1>7. PICK k : k = Min({i \in 1..n : l[i].base >= base} \cup {n + 1})
      OBVIOUS
  <1>8. Place(l, base, k) /\ k \in 1..(n + 1)
    <2>1. \A i \in 1..Len(l) : l[i].base \in Int
        BY <1>2, EntryTypes
    <2>2. k = Min({i \in 1..Len(l) : l[i].base >= base} \cup {Len(l) + 1})
        BY <1>3, <1>7
    <2>3. base \in Int /\ Len(l) \in Nat
        BY <1>3, <1>4
    <2>4. Place(l, base, k)
        BY <2>1, <2>2, <2>3, InsertPlace, Zenon
    <2> QED
        BY <1>3, <2>4 DEF Place
  <1>9. PICK r : r = InsertAt(l, k, b)
      OBVIOUS
  <1>10. PICK c : c = Without(blocks, base)
      OBVIOUS
  <1>11. PICK e : e = IF k > n THEN struct ELSE free_end
      OBVIOUS
  <1>12. PICK h : h = Lists(r, spares, e)
      OBVIOUS
  <1>13. PICK m : m = MergeFree(h, k)
      OBVIOUS
  <1>14. PICK d : d = MergeFree(m, k - 1)
      OBVIOUS
  <1>15. free' = d.free /\ spare' = d.spare /\ free_end' = d.end /\ blocks' = c /\ vend' = vend
    <2>1. d = MergeFree(MergeFree([free |-> InsertAt(free, k, b), spare |-> spares,
                                   end |-> IF k > Len(free) THEN struct ELSE free_end], k),
                        k - 1)
        BY <1>1, <1>3, <1>9, <1>11, <1>12, <1>13, <1>14 DEF Lists
    <2>2. k = Min({i \in 1..Len(free) : free[i].base >= base} \cup {Len(free) + 1})
        BY <1>1, <1>3, <1>7
    <2> QED
        BY <1>5, <1>10, <2>1, <2>2 DEF InsertFree, Without
  <1>16. /\ ListOK(r, Around(k)) /\ StructsOK(r, spares) /\ BlocksOK(r, c, vend)
         /\ EndOf(r) = IF k > Len(l) THEN b.at ELSE EndOf(l)
         /\ Structs(r, spares) = Structs(l, spares) \cup {b.at}
    <2>1. b.at \notin Structs(l, spares)
        BY <1>1, <1>6
    <2> QED
        BY <1>2, <1>6, <1>8, <1>9, <1>10, <2>1, InsertOK
  <1>17. e = EndOf(r)
      BY <1>1, <1>3, <1>6, <1>11, <1>16 DEF HeapOK
  <1>18. /\ ListOK(m.free, {k - 1}) /\ StructsOK(m.free, m.spare) /\ BlocksOK(m.free, c, vend)
         /\ m.end = EndOf(m.free) /\ Structs(m.free, m.spare) = Structs(r, spares)
         /\ m = Lists(m.free, m.spare, m.end)
    <2>1. PICK T : T = {k - 1}
        OBVIOUS
    <2>2. Around(k) = With(T, k) /\ Before(T, k) /\ k \in Int
        BY <1>8, <2>1 DEF With, Before, Around
    <2>3. ListOK(r, With(T, k))
        BY <1>16, <2>2
    <2>4. m = MergeFree(Lists(r, spares, e), k)
        BY <1>12, <1>13
    <2>5. /\ ListOK(m.free, T) /\ StructsOK(m.free, m.spare) /\ BlocksOK(m.free, c, vend)
          /\ m.end = EndOf(m.free) /\ Structs(m.free, m.spare) = Structs(r, spares)
          /\ m = Lists(m.free, m.spare, m.end)
        BY <1>16, <1>17, <2>2, <2>3, <2>4, MergeFacts
    <2> QED
        BY <2>1, <2>5
  <1>19. /\ ListOK(d.free, {}) /\ StructsOK(d.free, d.spare) /\ BlocksOK(d.free, c, vend)
         /\ d.end = EndOf(d.free) /\ Structs(d.free, d.spare) = Structs(m.free, m.spare)
    <2>1. PICK T : T = {}
        OBVIOUS
    <2>2. PICK j \in Int : j = k - 1
        BY <1>8
    <2>3. {k - 1} = With(T, j) /\ Before(T, j)
        BY <2>1, <2>2 DEF With, Before
    <2>4. ListOK(m.free, With(T, j))
        BY <1>18, <2>3
    <2>5. d = MergeFree(Lists(m.free, m.spare, m.end), j)
        BY <1>14, <1>18, <2>2
    <2>6. /\ ListOK(d.free, T) /\ StructsOK(d.free, d.spare) /\ BlocksOK(d.free, c, vend)
          /\ d.end = EndOf(d.free) /\ Structs(d.free, d.spare) = Structs(m.free, m.spare)
        BY <1>18, <2>2, <2>3, <2>4, <2>5, MergeFacts
    <2> QED
        BY <2>1, <2>6
  <1>20. HeapOK(free', free_end', spare', blocks', vend')
      BY <1>15, <1>19 DEF HeapOK
  <1>21. Structs(free', spare') = Structs(free, spares) \cup {struct}
      BY <1>1, <1>6, <1>15, <1>16, <1>18, <1>19
  <1> QED
      BY <1>10, <1>15, <1>20, <1>21 DEF Without

-----------------------------------------------------------------------------
(* kmalloc takes memory from the list                                      *)

\* The blocks with one more, of n words.
Plus(bl, base, n) == [x \in DOMAIN bl \cup {base} |-> IF x = base THEN n ELSE bl[x]]

\* The list r keeps parts of the list l that are not in the n words at `base`.
Keeps(l, r, base, n) ==
    \A j \in 1..Len(r) : \E k \in 1..Len(l) :
       /\ l[k].base <= r[j].base /\ r[j].base + r[j].size <= l[k].base + l[k].size
       /\ r[j].base + r[j].size <= base \/ base + n <= r[j].base

\* No block is allocated where a free one begins.
LEMMA FreshBase ==
    ASSUME NEW l, NEW bl, NEW v, BlocksOK(l, bl, v), l \in Seq(Entry),
           NEW i \in 1..Len(l), l[i].size > Header
    PROVE  l[i].base \notin DOMAIN bl
  <1>1. l[i].base \in Nat /\ l[i].size \in Nat /\ Header \in Nat
      BY EntryTypes, SizesAssumption
  <1>2. SUFFICES ASSUME NEW x \in DOMAIN bl, x = l[i].base PROVE FALSE
      OBVIOUS
  <1>3. x + bl[x] <= l[i].base \/ l[i].base + l[i].size <= x
      BY DEF BlocksOK
  <1>4. bl[x] \in Nat /\ bl[x] > Header
      BY DEF BlocksOK
  <1> QED
      BY <1>1, <1>2, <1>3, <1>4

\* A block is allocated at the start of a free one.
LEMMA BlockAdded ==
    ASSUME NEW l, NEW r, NEW bl, NEW v, BlocksOK(l, bl, v), l \in Seq(Entry), r \in Seq(Entry),
           NEW i \in 1..Len(l), NEW n \in Nat, n > Header, n <= l[i].size,
           NEW base, base = l[i].base, NEW c, c = Plus(bl, base, n), Keeps(l, r, base, n)
    PROVE  BlocksOK(r, c, v)
  <1>1. \A j \in 1..Len(l) : l[j].at \in Nat /\ l[j].base \in Nat /\ l[j].size \in Nat
      BY EntryTypes
  <1>2. \A j \in 1..Len(r) : r[j].at \in Nat /\ r[j].base \in Nat /\ r[j].size \in Nat
      BY EntryTypes
  <1>3. Header \in Nat /\ base \in Nat /\ v \in Nat /\ base + n <= v
    <2>1. l[i].base + l[i].size <= v /\ v \in Nat
        BY DEF BlocksOK
    <2>2. l[i].base \in Nat /\ l[i].size \in Nat /\ Header \in Nat
        BY <1>1, SizesAssumption
    <2> QED
        BY <2>1, <2>2, SMTT(60)
  <1>4. \A x \in DOMAIN bl : x \in Nat /\ bl[x] \in Nat /\ bl[x] > Header /\ x + bl[x] <= v
      BY DEF BlocksOK
  <1>5. ASSUME NEW x \in DOMAIN bl PROVE x + bl[x] <= base \/ base + n <= x
    <2>1. x + bl[x] <= l[i].base \/ l[i].base + l[i].size <= x
        BY DEF BlocksOK
    <2>2. l[i].size \in Nat /\ x \in Nat /\ bl[x] \in Nat
        BY <1>1, <1>4
    <2> QED
        BY <1>3, <2>1, <2>2, SMTT(60)
  <1>6. base \notin DOMAIN bl
      BY <1>3, <1>4, <1>5, SMTT(60)
  <1>7. /\ DOMAIN c = DOMAIN bl \cup {base} /\ c[base] = n
        /\ \A x \in DOMAIN bl : c[x] = bl[x]
      BY <1>6 DEF Plus
  <1>8. \A x \in DOMAIN c : x \in Nat /\ c[x] \in Nat /\ c[x] > Header /\ x + c[x] <= v
      BY <1>3, <1>4, <1>7
  <1>9. ASSUME NEW x \in DOMAIN c, NEW y \in DOMAIN c, x # y
        PROVE  x + c[x] <= y \/ y + c[y] <= x
    <2>1. CASE x \in DOMAIN bl /\ y \in DOMAIN bl
        BY <1>7, <1>9, <2>1 DEF BlocksOK
    <2>2. CASE x = base
        BY <1>5, <1>7, <1>9, <2>2
    <2>3. CASE y = base
        BY <1>5, <1>7, <1>9, <2>3
    <2> QED
        BY <1>7, <2>1, <2>2, <2>3
  <1>10. ASSUME NEW j \in 1..Len(r)
         PROVE  /\ r[j].base + r[j].size <= v
                /\ \A x \in DOMAIN c : x + c[x] <= r[j].base \/ r[j].base + r[j].size <= x
    <2>1. PICK k \in 1..Len(l) :
             /\ l[k].base <= r[j].base /\ r[j].base + r[j].size <= l[k].base + l[k].size
             /\ r[j].base + r[j].size <= base \/ base + n <= r[j].base
        BY DEF Keeps
    <2>2. /\ l[k].base \in Nat /\ l[k].size \in Nat /\ r[j].base \in Nat /\ r[j].size \in Nat
        BY <1>1, <1>2
    <2>3. l[k].base + l[k].size <= v
        BY DEF BlocksOK
    <2>a. PICK B \in Nat : B = l[k].base
        BY <2>2
    <2>b. PICK Z \in Nat : Z = l[k].size
        BY <2>2
    <2>c. PICK rb \in Nat : rb = r[j].base
        BY <2>2
    <2>d. PICK rz \in Nat : rz = r[j].size
        BY <2>2
    <2>5. B = l[k].base /\ Z = l[k].size /\ rb = r[j].base /\ rz = r[j].size
        BY <2>a, <2>b, <2>c, <2>d
    <2>6. B <= rb /\ rb + rz <= B + Z
        BY <2>1, <2>5
    <2>4. ASSUME NEW x \in DOMAIN c
          PROVE  x + c[x] <= r[j].base \/ r[j].base + r[j].size <= x
      <3>1. CASE x = base
          BY <1>7, <2>1, <3>1
      <3>2. CASE x \in DOMAIN bl
        <4>1. x + bl[x] <= l[k].base \/ l[k].base + l[k].size <= x
            BY <3>2 DEF BlocksOK
        <4>2. x \in Nat /\ bl[x] \in Nat /\ c[x] = bl[x]
            BY <1>4, <1>7, <3>2
        <4>3. PICK y \in Nat : y = bl[x]
            BY <4>2
        <4>4. (x + y <= B \/ B + Z <= x) /\ x \in Nat
            BY <2>5, <4>1, <4>2, <4>3
        <4>5. x + y <= rb \/ rb + rz <= x
            BY <2>6, <4>4
        <4> QED
            BY <2>5, <4>2, <4>3, <4>5
      <3> QED
          BY <1>7, <3>1, <3>2
    <2>7. B + Z <= v /\ v \in Nat
        BY <1>3, <2>3, <2>5
    <2>8. rb + rz <= v
        BY <2>6, <2>7
    <2> QED
        BY <2>4, <2>5, <2>8
  <1> QED
      BY <1>3, <1>8, <1>9, <1>10 DEF BlocksOK

\* The end of the list without its i-th entry.
EndWithout(l, i, end) ==
    IF l[i].at # end THEN end ELSE IF i = 1 THEN None ELSE l[i - 1].at

\* The heap without its i-th free block, which is allocated now.
WholeTaken(l, end, s, bl, v, i) ==
    /\ HeapOK(RemoveAt(l, i), EndWithout(l, i, end), Pushed(l[i].at, s),
              Plus(bl, l[i].base, l[i].size), v)
    /\ Structs(RemoveAt(l, i), Pushed(l[i].at, s)) = Structs(l, s)
    /\ l[i].base \notin DOMAIN bl
    /\ DOMAIN Plus(bl, l[i].base, l[i].size) = DOMAIN bl \cup {l[i].base}

\* A free block is used as a whole.
LEMMA TakeBlock ==
    ASSUME NEW l, NEW end, NEW s, NEW bl, NEW v, HeapOK(l, end, s, bl, v), NEW i \in 1..Len(l)
    PROVE  WholeTaken(l, end, s, bl, v, i)
  <1> SUFFICES ASSUME NEW r, r = RemoveAt(l, i), NEW q, q = Pushed(l[i].at, s),
                      NEW e, e = EndWithout(l, i, end),
                      NEW c, c = Plus(bl, l[i].base, l[i].size)
               PROVE  /\ HeapOK(r, e, q, c, v) /\ Structs(r, q) = Structs(l, s)
                      /\ l[i].base \notin DOMAIN bl /\ DOMAIN c = DOMAIN bl \cup {l[i].base}
      BY Zenon DEF WholeTaken
  <1> DEFINE P(j) == IF j < i THEN j ELSE j + 1
  <1>1. l \in Seq(Entry) /\ ListOK(l, {}) /\ StructsOK(l, s) /\ BlocksOK(l, bl, v)
      BY DEF HeapOK, ListOK
  <1>2. PICK n \in Nat : n = Len(l)
      BY <1>1
  <1>3. r \in Seq(Entry) /\ Len(r) = n - 1
      BY <1>1, <1>2, RemoveAtFacts
  <1>4. \A j \in 1..(n - 1) : r[j] = IF j < i THEN l[j] ELSE l[j + 1]
      BY <1>1, <1>2, RemoveAtFacts
  <1>5. ASSUME NEW j \in 1..(n - 1) PROVE P(j) \in 1..n /\ P(j) # i /\ r[j] = l[P(j)]
      BY <1>2, <1>4
  <1>6. ASSUME NEW a \in 1..(n - 1), NEW b \in 1..(n - 1)
        PROVE  (a < b => P(a) < P(b)) /\ (P(a) = P(b) => a = b)
      OBVIOUS
  <1>7. ASSUME NEW k \in 1..n, k # i PROVE \E j \in 1..(n - 1) : P(j) = k
    <2>1. CASE k < i
      <3>1. k \in 1..(n - 1) /\ P(k) = k
          BY <1>2, <2>1
      <3> QED
          BY <3>1
    <2>2. CASE k > i
      <3>1. k - 1 \in 1..(n - 1) /\ P(k - 1) = k
          BY <1>2, <2>2
      <3> QED
          BY <3>1
    <2>3. k < i \/ k > i
        BY <1>2, <1>7
    <2> QED
        BY <2>1, <2>2, <2>3, Zenon
  <1> HIDE DEF P
  <1>8. \A j \in 1..n : l[j].at \in Nat /\ l[j].base \in Nat /\ l[j].size \in Nat
      BY <1>1, <1>2, EntryTypes
  <1>9. \A a, b \in 1..n : a < b => l[a].base + l[a].size < l[b].base
      BY <1>1, <1>2 DEF ListOK
  <1>10. \A j \in 1..n : l[j].size > Header
      BY <1>1, <1>2 DEF ListOK
  <1>11. ListOK(r, {})
    <2>1. ASSUME NEW a \in 1..(n - 1), NEW b \in 1..(n - 1), a < b
          PROVE  r[a].base + r[a].size < r[b].base
      <3>1. P(a) \in 1..n /\ P(b) \in 1..n /\ P(a) < P(b)
          BY <1>5, <1>6, <2>1
      <3> QED
          BY <1>5, <1>9, <3>1
    <2> QED
        BY <1>3, <1>5, <1>10, <2>1 DEF ListOK
  <1>12. StructsOK(r, s)
    <2>1. ASSUME NEW a \in 1..(n - 1), NEW b \in 1..(n - 1), r[a].at = r[b].at PROVE a = b
      <3>1. P(a) \in 1..n /\ P(b) \in 1..n /\ l[P(a)].at = l[P(b)].at
          BY <1>5, <2>1
      <3>2. P(a) = P(b)
          BY <1>1, <1>2, <3>1 DEF StructsOK
      <3> QED
          BY <1>6, <3>2
    <2>2. ASSUME NEW a \in 1..(n - 1), NEW j \in 1..Len(s) PROVE r[a].at # s[j]
      <3>1. P(a) \in 1..n /\ r[a] = l[P(a)]
          BY <1>5
      <3> QED
          BY <1>1, <1>2, <3>1 DEF StructsOK
    <2> QED
        BY <1>1, <1>3, <2>1, <2>2 DEF StructsOK
  <1>13. PICK x \in Nat : x = l[i].at
      BY <1>2, <1>8
  <1>14. x \notin Structs(r, s)
    <2>1. ASSUME NEW j \in 1..(n - 1) PROVE r[j].at # x
      <3>1. P(j) \in 1..n /\ P(j) # i /\ r[j] = l[P(j)]
          BY <1>5
      <3> QED
          BY <1>1, <1>2, <1>13, <3>1 DEF StructsOK
    <2>2. \A j \in 1..Len(s) : s[j] # x
        BY <1>1, <1>2, <1>13 DEF StructsOK
    <2> QED
        BY <1>3, <2>1, <2>2 DEF Structs
  <1>15. StructsOK(r, q) /\ Structs(r, q) = Structs(r, s) \cup {x}
    <2>1. q = Pushed(x, s)
        BY <1>13
    <2> QED
        BY <1>3, <1>12, <1>13, <1>14, <2>1, SpareFacts
  <1>16. Structs(r, s) \cup {x} = Structs(l, s)
    <2>1. {r[j].at : j \in 1..(n - 1)} \subseteq {l[k].at : k \in 1..n}
        BY <1>5
    <2>2. ASSUME NEW k \in 1..n PROVE l[k].at \in {r[j].at : j \in 1..(n - 1)} \cup {x}
        BY <1>5, <1>7, <1>13, ZenonT(60)
    <2>3. {l[k].at : k \in 1..n} \subseteq {r[j].at : j \in 1..(n - 1)} \cup {x}
        BY <2>2
    <2>4. x \in {l[k].at : k \in 1..n}
        BY <1>2, <1>13
    <2>5. {r[j].at : j \in 1..(n - 1)} \cup {x} = {l[k].at : k \in 1..n}
        BY <2>1, <2>3, <2>4
    <2> QED
        BY <1>2, <1>3, <2>5 DEF Structs
  <1>17. e = EndOf(r)
    <2>1. l # <<>> /\ end = l[n].at /\ n \in 1..n /\ i \in 1..n
        BY <1>1, <1>2 DEF HeapOK, EndOf
    <2>2. l[i].at = end <=> i = n
        BY <1>1, <1>2, <2>1 DEF StructsOK
    <2>3. CASE n = 1
        BY <1>3, <2>1, <2>2, <2>3 DEF EndOf, EndWithout
    <2>4. CASE n # 1
      <3>1. r # <<>> /\ n - 1 \in 1..(n - 1) /\ EndOf(r) = r[n - 1].at
          BY <1>2, <1>3, <2>4 DEF EndOf
      <3>2. P(n - 1) = IF i = n THEN n - 1 ELSE n
          BY <1>2, <2>1 DEF P
      <3> QED
          BY <1>5, <2>1, <2>2, <2>4, <3>1, <3>2 DEF EndWithout
    <2> QED
        BY <2>3, <2>4
  <1>18. BlocksOK(r, c, v) /\ l[i].base \notin DOMAIN bl /\ DOMAIN c = DOMAIN bl \cup {l[i].base}
    <2>1. PICK base \in Nat : base = l[i].base
        BY <1>2, <1>8
    <2>2. PICK z \in Nat : z = l[i].size
        BY <1>2, <1>8
    <2>3. ASSUME NEW j \in 1..Len(r)
          PROVE  \E k \in 1..Len(l) :
                    /\ l[k].base <= r[j].base /\ r[j].base + r[j].size <= l[k].base + l[k].size
                    /\ r[j].base + r[j].size <= base \/ base + z <= r[j].base
      <3>1. P(j) \in 1..n /\ P(j) # i /\ r[j] = l[P(j)]
          BY <1>3, <1>5
      <3>2. l[P(j)].base + l[P(j)].size < l[i].base \/ l[i].base + l[i].size < l[P(j)].base
          BY <1>2, <1>9, <3>1
      <3>3. l[P(j)].base \in Nat /\ l[P(j)].size \in Nat
          BY <1>8, <3>1
      <3>4. PICK k \in 1..Len(l) : k = P(j)
          BY <1>2, <3>1
      <3>5. l[k].base <= r[j].base /\ r[j].base + r[j].size <= l[k].base + l[k].size
        <4>1. PICK x1 \in Nat : x1 = r[j].base /\ x1 = l[k].base
            BY <3>1, <3>3, <3>4
        <4>2. PICK z1 \in Nat : z1 = r[j].size /\ z1 = l[k].size
            BY <3>1, <3>3, <3>4
        <4>3. x1 <= x1 /\ x1 + z1 <= x1 + z1
            OBVIOUS
        <4> QED
            BY <4>1, <4>2, <4>3, Zenon
      <3>6. r[j].base + r[j].size <= base \/ base + z <= r[j].base
        <4>1. PICK x1 \in Nat : x1 = r[j].base
            BY <3>1, <3>3
        <4>2. PICK z1 \in Nat : z1 = r[j].size
            BY <3>1, <3>3
        <4>3. x1 + z1 < base \/ base + z < x1
            BY <2>1, <2>2, <3>1, <3>2, <4>1, <4>2
        <4>4. x1 + z1 <= base \/ base + z <= x1
            BY <4>3
        <4> QED
            BY <4>1, <4>2, <4>4
      <3> QED
          BY <3>5, <3>6
    <2>4. c = Plus(bl, base, z) /\ z > Header /\ z <= l[i].size
        BY <1>2, <1>10, <2>1, <2>2
    <2>5. BlocksOK(r, c, v)
      <3>1. Keeps(l, r, base, z)
          BY <2>3 DEF Keeps
      <3> QED
          BY <1>1, <1>3, <2>1, <2>2, <2>4, <3>1, BlockAdded
    <2> QED
        BY <1>1, <1>2, <1>10, <2>5, FreshBase DEF Plus
  <1> QED
      BY <1>11, <1>15, <1>16, <1>17, <1>18 DEF HeapOK

\* An entry becomes g, which has its struct, begins no earlier and, when there is one
\* behind it, ends no later.
Becomes(l, i, g) ==
    /\ i \in 1..Len(l) /\ g \in Entry /\ g.at = l[i].at /\ g.size > Header
    /\ l[i].base <= g.base
    /\ g.base + g.size <= l[i].base + l[i].size \/ i = Len(l)

Replaced(l, i, g) == [l EXCEPT ![i] = g]

LEMMA ReplaceEntry ==
    ASSUME NEW l, ListOK(l, {}), NEW s, StructsOK(l, s), NEW i, NEW g, Becomes(l, i, g),
           NEW r, r = Replaced(l, i, g)
    PROVE  ListOK(r, {}) /\ StructsOK(r, s) /\ EndOf(r) = EndOf(l) /\ Structs(r, s) = Structs(l, s)
  <1>1. l \in Seq(Entry)
      BY DEF ListOK
  <1>2. PICK n \in Nat : n = Len(l)
      BY <1>1
  <1>3. /\ i \in 1..n /\ g \in Entry /\ g.at = l[i].at /\ g.size > Header
        /\ l[i].base <= g.base
        /\ g.base + g.size <= l[i].base + l[i].size \/ i = n
      BY <1>2 DEF Becomes
  <1>4. r \in Seq(Entry) /\ Len(r) = n /\ \A j \in 1..n : r[j] = IF j = i THEN g ELSE l[j]
      BY <1>1, <1>2, <1>3 DEF Replaced
  <1>5. \A j \in 1..n : l[j].at \in Nat /\ l[j].base \in Nat /\ l[j].size \in Nat
      BY <1>1, <1>2, EntryTypes
  <1>6. g.base \in Nat /\ g.size \in Nat
      BY <1>3 DEF Entry
  <1>7. \A j \in 1..n : r[j].at = l[j].at
      BY <1>3, <1>4
  <1>8. ASSUME NEW a \in 1..n, NEW b \in 1..n, a < b PROVE r[a].base + r[a].size < r[b].base
    <2>1. l[a].base + l[a].size < l[b].base
        BY <1>2, <1>8 DEF ListOK
    <2>2. PICK x \in Nat : x = l[a].base + l[a].size
        BY <1>5
    <2>3. PICK y \in Nat : y = l[b].base
        BY <1>5
    <2>4. CASE a = i
      <3>1. r[a] = g /\ r[b] = l[b] /\ i # n
          BY <1>4, <1>8, <2>4
      <3>2. g.base + g.size <= x
          BY <1>3, <2>2, <2>4, <3>1
      <3> QED
          BY <1>6, <2>1, <2>2, <2>3, <3>1, <3>2
    <2>5. CASE b = i
      <3>1. r[b] = g /\ r[a] = l[a]
          BY <1>4, <1>8, <2>5
      <3>2. y <= g.base
          BY <1>3, <2>3, <2>5
      <3> QED
          BY <1>6, <2>1, <2>2, <2>3, <3>1, <3>2
    <2>6. CASE a # i /\ b # i
        BY <1>4, <2>1, <2>6
    <2> QED
        BY <2>4, <2>5, <2>6
  <1>9. \A j \in 1..n : r[j].size > Header
      BY <1>2, <1>3, <1>4 DEF ListOK
  <1>10. ListOK(r, {})
      BY <1>4, <1>8, <1>9 DEF ListOK
  <1>11. StructsOK(r, s)
      BY <1>2, <1>4, <1>7 DEF StructsOK
  <1>12. {r[j].at : j \in 1..n} = {l[j].at : j \in 1..n}
      BY <1>7
  <1>13. Structs(r, s) = Structs(l, s)
      BY <1>2, <1>4, <1>12 DEF Structs
  <1>14. EndOf(r) = EndOf(l)
    <2>1. r # <<>> /\ l # <<>> /\ n \in 1..n
        BY <1>1, <1>2, <1>3, <1>4
    <2> QED
        BY <1>2, <1>4, <1>7, <2>1 DEF EndOf
  <1> QED
      BY <1>10, <1>11, <1>13, <1>14

\* Of a larger free block the first n words are used.
Larger(l, i, n) == i \in 1..Len(l) /\ n \in Nat /\ n > Header /\ n + Header < l[i].size

LEMMA SplitBlock ==
    ASSUME NEW l, NEW end, NEW s, NEW bl, NEW v, HeapOK(l, end, s, bl, v),
           NEW i, NEW n, Larger(l, i, n), NEW g, g = Shrink(l[i], n), NEW r, r = Replaced(l, i, g),
           NEW c, c = Plus(bl, l[i].base, n)
    PROVE  HeapOK(r, end, s, c, v) /\ Structs(r, s) = Structs(l, s)
  <1>0. i \in 1..Len(l) /\ n \in Nat /\ n > Header /\ n + Header < l[i].size
      BY DEF Larger
  <1> USE <1>0
  <1>1. l \in Seq(Entry) /\ ListOK(l, {}) /\ StructsOK(l, s) /\ BlocksOK(l, bl, v)
      BY DEF HeapOK, ListOK
  <1>2. PICK d \in Entry : d = l[i]
      BY <1>1
  <1>3. d.at \in Nat /\ d.base \in Nat /\ d.size \in Nat /\ Header \in Nat
      BY <1>2, SizesAssumption DEF Entry
  <1>4. g = Shrink(d, n)
      BY <1>2
  <1>5. g.at = d.at /\ g.base = d.base + n /\ g.size = d.size - n
      BY <1>2, <1>4 DEF Shrink, Entry
  <1>6. g \in Entry
    <2>1. d.base + n \in Nat /\ d.size - n \in Nat
        BY <1>2, <1>3
    <2> QED
        BY <1>2, <1>4, <2>1 DEF Shrink, Entry
  <1>7. Becomes(l, i, g)
    <2>1. n + Header < d.size
        BY <1>2
    <2>2. g.size > Header /\ d.base <= g.base /\ g.base + g.size <= d.base + d.size
        BY <1>3, <1>5, <2>1
    <2> QED
        BY <1>2, <1>5, <1>6, <2>2 DEF Becomes
  <1>8. r = Replaced(l, i, g)
      OBVIOUS
  <1>9. ListOK(r, {}) /\ StructsOK(r, s) /\ EndOf(r) = EndOf(l) /\ Structs(r, s) = Structs(l, s)
      BY <1>1, <1>7, <1>8, ReplaceEntry
  <1>10. r \in Seq(Entry) /\ Len(r) = Len(l)
         /\ \A j \in 1..Len(l) : r[j] = IF j = i THEN g ELSE l[j]
      BY <1>1, <1>6, <1>8 DEF Replaced
  <1>11. Keeps(l, r, d.base, n)
    <2>1. SUFFICES ASSUME NEW j \in 1..Len(l)
                   PROVE  /\ l[j].base <= r[j].base /\ r[j].base + r[j].size <= l[j].base + l[j].size
                          /\ r[j].base + r[j].size <= d.base \/ d.base + n <= r[j].base
        BY <1>10 DEF Keeps
    <2>2. l[j].base \in Nat /\ l[j].size \in Nat
        BY <1>1, EntryTypes
    <2>3. CASE j = i
        BY <1>2, <1>3, <1>5, <1>10, <2>3
    <2>4. CASE j # i
      <3>1. r[j] = l[j]
          BY <1>10, <2>4
      <3>2. l[j].base + l[j].size < d.base \/ d.base + d.size < l[j].base
          BY <1>1, <1>2, <2>4 DEF ListOK
      <3>3. n <= d.size
          BY <1>2, <1>3
      <3>4. PICK x \in Nat : x = l[j].base
          BY <2>2
      <3>5. PICK z \in Nat : z = l[j].size
          BY <2>2
      <3>6. x + z < d.base \/ d.base + d.size < x
          BY <3>2, <3>4, <3>5
      <3>7. x + z <= d.base \/ d.base + n <= x
          BY <1>3, <3>3, <3>6
      <3> QED
          BY <3>1, <3>4, <3>5, <3>7
    <2> QED
        BY <2>3, <2>4
  <1>12. BlocksOK(r, c, v)
    <2>1. PICK base \in Nat : base = l[i].base
        BY <1>2, <1>3
    <2>2. c = Plus(bl, base, n) /\ n <= l[i].size /\ Keeps(l, r, base, n)
        BY <1>2, <1>3, <1>11, <2>1
    <2> QED
        BY <1>1, <1>10, <2>1, <2>2, BlockAdded
  <1> QED
      BY <1>9, <1>12 DEF HeapOK

\* The free block that kmalloc takes.
LEMMA FitFacts ==
    ASSUME HeapOK(free, free_end, spare, blocks, vend), NEW f \in MallocFrames, Satisfiable(f)
    PROVE  /\ Min(Fits(f)) \in 1..Len(free) /\ Needed(f) <= free[Min(Fits(f))].size
           /\ Needed(f) \in Nat /\ Needed(f) > Header
  <1>1. Fits(f) # {} /\ Fits(f) \in SUBSET Nat
      BY DEF Satisfiable, Fits
  <1>2. Min(Fits(f)) \in Fits(f)
      BY <1>1, LeastNumber
  <1>3. f.size \in Nat \ {0} /\ Header \in Nat
      BY SizesAssumption DEF MallocFrames
  <1> QED
      BY <1>2, <1>3 DEF Fits, Needed

-----------------------------------------------------------------------------
(* The heap grows                                                          *)

\* Kernel space gets larger without the heap.
LEMMA SpaceGrows ==
    ASSUME NEW l, NEW end, NEW s, NEW bl, NEW v, HeapOK(l, end, s, bl, v), NEW n \in Nat
    PROVE  HeapOK(l, end, s, bl, v + n)
  <1>1. ListOK(l, {}) /\ end = EndOf(l) /\ StructsOK(l, s) /\ BlocksOK(l, bl, v)
      BY DEF HeapOK
  <1>2. \A i \in 1..Len(l) : l[i].base \in Nat /\ l[i].size \in Nat /\ l[i].base + l[i].size <= v
      BY <1>1, EntryTypes DEF ListOK, BlocksOK
  <1>3. v \in Nat
      BY <1>1 DEF BlocksOK
  <1>4. \A i \in 1..Len(l) : l[i].base + l[i].size <= v + n
      BY <1>2, <1>3
  <1>5. \A b \in DOMAIN bl : b \in Nat /\ bl[b] \in Nat /\ bl[b] > Header /\ b + bl[b] <= v + n
      BY <1>1 DEF BlocksOK
  <1>6. BlocksOK(l, bl, v + n)
      BY <1>1, <1>3, <1>4, <1>5 DEF BlocksOK
  <1> QED
      BY <1>1, <1>6 DEF HeapOK

\* The last free block ends where the new pages begin, and takes them in.
LEMMA LastGrows ==
    ASSUME NEW l, NEW end, NEW s, NEW bl, NEW v, HeapOK(l, end, s, bl, v), NEW i \in 1..Len(l),
           l[i].base + l[i].size = v, NEW n \in Nat,
           NEW g, g = [l[i] EXCEPT !.size = l[i].size + n], NEW r, r = Replaced(l, i, g)
    PROVE  HeapOK(r, end, s, bl, v + n) /\ Structs(r, s) = Structs(l, s)
  <1>1. /\ l \in Seq(Entry) /\ ListOK(l, {}) /\ end = EndOf(l) /\ StructsOK(l, s)
        /\ BlocksOK(l, bl, v)
      BY DEF HeapOK, ListOK
  <1>2. PICK d \in Entry : d = l[i]
      BY <1>1
  <1>3. d.base \in Nat /\ d.size \in Nat /\ v \in Nat /\ d.base + d.size = v /\ Header \in Nat
      BY <1>1, <1>2, SizesAssumption DEF Entry, BlocksOK
  <1>4. g \in Entry /\ g.at = d.at /\ g.base = d.base /\ g.size = d.size + n
    <2>1. g = [d EXCEPT !.size = d.size + n]
        BY <1>2
    <2> QED
        BY <1>2, <2>1, GrownEntry
  <1>5. d.size > Header
      BY <1>1, <1>2 DEF ListOK
  <1>6. i = Len(l)
    <2>1. SUFFICES ASSUME i < Len(l) PROVE FALSE
        BY <1>1
    <2>2. Len(l) \in 1..Len(l)
        BY <1>1, <2>1
    <2>3. d.base + d.size < l[Len(l)].base
        BY <1>1, <1>2, <2>1, <2>2 DEF ListOK
    <2>4. l[Len(l)].base \in Nat /\ l[Len(l)].size \in Nat
        BY <1>1, <2>2, EntryTypes
    <2>5. l[Len(l)].base + l[Len(l)].size <= v
        BY <1>1, <2>2 DEF BlocksOK
    <2> QED
        BY <1>3, <2>3, <2>4, <2>5
  <1>7. Becomes(l, i, g)
    <2>1. g.size > Header /\ d.base <= g.base
        BY <1>3, <1>4, <1>5
    <2> QED
        BY <1>2, <1>4, <1>6, <2>1 DEF Becomes
  <1>8. ListOK(r, {}) /\ StructsOK(r, s) /\ EndOf(r) = EndOf(l) /\ Structs(r, s) = Structs(l, s)
      BY <1>1, <1>7, ReplaceEntry
  <1>9. r \in Seq(Entry) /\ Len(r) = Len(l)
        /\ \A j \in 1..Len(l) : r[j] = IF j = i THEN g ELSE l[j]
      BY <1>1, <1>4 DEF Replaced
  <1>10. \A b \in DOMAIN bl : b \in Nat /\ bl[b] \in Nat /\ bl[b] > Header /\ b + bl[b] <= v
      BY <1>1 DEF BlocksOK
  <1>11. ASSUME NEW b \in DOMAIN bl PROVE b + bl[b] <= d.base
    <2>1. b + bl[b] <= d.base \/ d.base + d.size <= b
        BY <1>1, <1>2 DEF BlocksOK
    <2> QED
        BY <1>3, <1>10, <2>1
  <1>12. ASSUME NEW j \in 1..Len(l)
         PROVE  /\ r[j].base + r[j].size <= v + n
                /\ \A b \in DOMAIN bl : b + bl[b] <= r[j].base \/ r[j].base + r[j].size <= b
    <2>1. CASE j = i
      <3>1. r[j] = g
          BY <1>9, <2>1
      <3>2. d.base + (d.size + n) <= v + n
          BY <1>3
      <3> QED
          BY <1>4, <1>11, <3>1, <3>2
    <2>2. CASE j # i
      <3>1. r[j] = l[j]
          BY <1>9, <2>2
      <3>2. l[j].base \in Nat /\ l[j].size \in Nat
          BY <1>1, EntryTypes
      <3>3. l[j].base + l[j].size <= v
          BY <1>1 DEF BlocksOK
      <3>4. l[j].base + l[j].size <= v + n
          BY <1>3, <3>2, <3>3, SMTT(60)
      <3>5. \A b \in DOMAIN bl : b + bl[b] <= l[j].base \/ l[j].base + l[j].size <= b
          BY <1>1 DEF BlocksOK
      <3> QED
          BY <3>1, <3>4, <3>5
    <2> QED
        BY <2>1, <2>2
  <1>13. \A b \in DOMAIN bl : b + bl[b] <= v + n
      BY <1>3, <1>10
  <1>14. v + n \in Nat
      BY <1>3
  <1>15. \A b, c \in DOMAIN bl : b # c => b + bl[b] <= c \/ c + bl[c] <= b
      BY <1>1 DEF BlocksOK
  <1>16. BlocksOK(r, bl, v + n)
      BY <1>9, <1>10, <1>12, <1>13, <1>14, <1>15 DEF BlocksOK
  <1> QED
      BY <1>1, <1>8, <1>16 DEF HeapOK

\* The entry b describes what is behind the first h of n new words at v.
Rest(b, v, h, n) ==
    /\ h \in Nat /\ h > Header /\ n \in Nat /\ h + Header < n
    /\ b \in Entry /\ b.at = v /\ b.base = v + h /\ b.size = n - h

Longer(l, b) == Append(l, b)

\* The structs of the lists are allocated.
Allocated(l, s, bl) == Structs(l, s) \subseteq DOMAIN bl

\* The new pages begin with the struct of a free block that takes the rest of them.
LEMMA BlockAppended ==
    ASSUME NEW l, NEW end, NEW s, NEW bl, NEW v, HeapOK(l, end, s, bl, v),
           Allocated(l, s, bl), NEW h, NEW n, NEW b, Rest(b, v, h, n),
           NEW r, r = Longer(l, b), NEW c, c = Plus(bl, v, h)
    PROVE  HeapOK(r, v, s, c, v + n) /\ Structs(r, s) = With(Structs(l, s), v)
  <1> USE DEF Rest, Longer, Allocated
  <1>1. /\ l \in Seq(Entry) /\ ListOK(l, {}) /\ end = EndOf(l) /\ StructsOK(l, s)
        /\ BlocksOK(l, bl, v)
      BY DEF HeapOK, ListOK
  <1>2. PICK k \in Nat : k = Len(l)
      BY <1>1
  <1>3. /\ r \in Seq(Entry) /\ Len(r) = k + 1 /\ r[k + 1] = b
        /\ \A j \in 1..k : r[j] = l[j]
      BY <1>1, <1>2
  <1>4. v \in Nat /\ Header \in Nat
      BY <1>1, SizesAssumption DEF BlocksOK
  <1>5. \A x \in DOMAIN bl : x \in Nat /\ bl[x] \in Nat /\ bl[x] > Header /\ x + bl[x] <= v
      BY <1>1 DEF BlocksOK
  <1>6. \A x, y \in DOMAIN bl : x # y => x + bl[x] <= y \/ y + bl[y] <= x
      BY <1>1 DEF BlocksOK
  <1>7. v \notin DOMAIN bl
      BY <1>4, <1>5
  <1>8. DOMAIN c = DOMAIN bl \cup {v} /\ c[v] = h /\ \A x \in DOMAIN bl : c[x] = bl[x]
      BY <1>7 DEF Plus
  <1>9. \A j \in 1..k : l[j].base \in Nat /\ l[j].size \in Nat /\ l[j].base + l[j].size <= v
      BY <1>1, <1>2, EntryTypes DEF BlocksOK
  <1>10. ListOK(r, {})
    <2>1. ASSUME NEW i \in 1..(k + 1), NEW j \in 1..(k + 1), i < j
          PROVE  r[i].base + r[i].size < r[j].base
      <3>1. i \in 1..k /\ r[i] = l[i]
          BY <1>2, <1>3, <2>1
      <3>2. CASE j = k + 1
        <4>1. PICK x \in Nat : x = l[i].base + l[i].size
            BY <1>9, <3>1, SMTT(60)
        <4>2. x < v + h
            BY <1>4, <1>9, <3>1, <4>1
        <4> QED
            BY <1>3, <3>1, <3>2, <4>1, <4>2
      <3>3. CASE j # k + 1
        <4>1. j \in 1..k /\ r[j] = l[j]
            BY <1>2, <1>3, <3>3
        <4> QED
            BY <1>1, <1>2, <2>1, <3>1, <4>1 DEF ListOK
      <3> QED
          BY <3>2, <3>3
    <2>2. ASSUME NEW i \in 1..(k + 1) PROVE r[i].size > Header
      <3>1. CASE i = k + 1
          BY <1>3, <1>4, <3>1
      <3>2. CASE i # k + 1
        <4>1. i \in 1..k /\ r[i] = l[i]
            BY <1>2, <1>3, <3>2
        <4> QED
            BY <1>1, <1>2, <4>1 DEF ListOK
      <3> QED
          BY <3>1, <3>2
    <2> QED
        BY <1>3, <2>1, <2>2 DEF ListOK
  <1>11. v \notin {l[j].at : j \in 1..k} /\ v \notin {s[j] : j \in 1..Len(s)}
      BY <1>2, <1>7 DEF Structs
  <1>12. StructsOK(r, s)
    <2>1. ASSUME NEW i \in 1..(k + 1), NEW j \in 1..(k + 1), r[i].at = r[j].at PROVE i = j
      <3>1. CASE i \in 1..k /\ j \in 1..k
          BY <1>1, <1>2, <1>3, <2>1, <3>1 DEF StructsOK
      <3>2. CASE i \in 1..k /\ j = k + 1
          BY <1>3, <1>11, <2>1, <3>2
      <3>3. CASE i = k + 1 /\ j \in 1..k
          BY <1>3, <1>11, <2>1, <3>3
      <3>4. (i \in 1..k \/ i = k + 1) /\ (j \in 1..k \/ j = k + 1)
          BY <1>2
      <3> QED
          BY <3>1, <3>2, <3>3, <3>4
    <2>2. ASSUME NEW i \in 1..(k + 1), NEW j \in 1..Len(s) PROVE r[i].at # s[j]
      <3>1. CASE i = k + 1
          BY <1>3, <1>11, <3>1
      <3>2. CASE i # k + 1
        <4>1. i \in 1..k /\ r[i] = l[i]
            BY <1>2, <1>3, <3>2
        <4> QED
            BY <1>1, <1>2, <4>1 DEF StructsOK
      <3> QED
          BY <3>1, <3>2
    <2> QED
        BY <1>1, <1>3, <2>1, <2>2 DEF StructsOK
  <1>13. Structs(r, s) = Structs(l, s) \cup {v}
    <2>1. ASSUME NEW i \in 1..(k + 1) PROVE r[i].at \in {l[j].at : j \in 1..k} \cup {v}
      <3>1. i = k + 1 \/ i \in 1..k
          BY <1>2
      <3> QED
          BY <1>3, <3>1
    <2>2. ASSUME NEW j \in 1..k PROVE l[j].at \in {r[i].at : i \in 1..(k + 1)}
      <3>1. j \in 1..(k + 1)
          BY <1>2
      <3> QED
          BY <1>3, <3>1
    <2>3. v \in {r[i].at : i \in 1..(k + 1)}
      <3>1. k + 1 \in 1..(k + 1)
          BY <1>2
      <3> QED
          BY <1>3, <3>1
    <2>4. {r[i].at : i \in 1..(k + 1)} \subseteq {l[j].at : j \in 1..k} \cup {v}
        BY <2>1
    <2>5. {l[j].at : j \in 1..k} \subseteq {r[i].at : i \in 1..(k + 1)}
        BY <2>2
    <2>6. {r[i].at : i \in 1..(k + 1)} = {l[j].at : j \in 1..k} \cup {v}
        BY <2>3, <2>4, <2>5
    <2> QED
        BY <1>2, <1>3, <2>6 DEF Structs
  <1>14. \A x \in DOMAIN c : x \in Nat /\ c[x] \in Nat /\ c[x] > Header /\ x + c[x] <= v + h
      BY <1>4, <1>5, <1>8
  <1>15. ASSUME NEW x \in DOMAIN c, NEW y \in DOMAIN c, x # y
         PROVE  x + c[x] <= y \/ y + c[y] <= x
      BY <1>4, <1>5, <1>6, <1>8, <1>15
  <1>16. ASSUME NEW j \in 1..(k + 1)
         PROVE  /\ r[j].base + r[j].size <= v + n
                /\ \A x \in DOMAIN c : x + c[x] <= r[j].base \/ r[j].base + r[j].size <= x
    <2>1. CASE j = k + 1
        BY <1>3, <1>4, <1>14, <2>1
    <2>2. CASE j # k + 1
      <3>1. j \in 1..k /\ r[j] = l[j]
          BY <1>2, <1>3, <2>2
      <3>2. l[j].base + l[j].size <= v + n
          BY <1>4, <1>9, <3>1, SMTT(60)
      <3>3. ASSUME NEW x \in DOMAIN c
            PROVE  x + c[x] <= l[j].base \/ l[j].base + l[j].size <= x
        <4>1. CASE x = v
            BY <1>9, <3>1, <4>1
        <4>2. CASE x \in DOMAIN bl
            BY <1>1, <1>2, <1>8, <3>1, <4>2 DEF BlocksOK
        <4> QED
            BY <1>8, <4>1, <4>2
      <3> QED
          BY <3>1, <3>2, <3>3
    <2> QED
        BY <2>1, <2>2
  <1>17. v + n \in Nat /\ v + h <= v + n
      BY <1>4
  <1>18. \A x \in DOMAIN c : x + c[x] <= v + n
      BY <1>4, <1>14
  <1>19. BlocksOK(r, c, v + n)
      BY <1>3, <1>14, <1>15, <1>16, <1>17, <1>18 DEF BlocksOK
  <1>20. EndOf(r) = v
    <2>1. r # <<>>
        BY <1>2, <1>3
    <2> QED
        BY <1>3, <2>1 DEF EndOf
  <1> QED
      BY <1>10, <1>12, <1>13, <1>19, <1>20 DEF HeapOK, With

-----------------------------------------------------------------------------
(* Calls and returns                                                       *)

\* The function and the step say which kind of call it is.
LEMMA FrameKinds ==
    ASSUME NEW f \in Frames
    PROVE  /\ f.fn = "kmalloc" => f \in MallocFrames
           /\ f.fn = "kfree" => f \in KfreeFrames
           /\ f.fn = "page_alloc" /\ f.step \in {"start", "split", "fresh"} => f \in AskingFrames
           /\ f.fn = "page_alloc" /\ f.step = "chain" => f \in FoundFrames
           /\ f.fn = "page_alloc" /\ f.step = "joined" => f \in JoinFrames
           /\ f.fn = "page_free" => f \in PageFreeFrames
           /\ f.fn = "page_create" => f \in CreateFrames
           /\ f.fn = "page_split" => f \in SplitFrames
  <1>1. f \in MallocFrames => f.fn = "kmalloc"
      BY DEF MallocFrames
  <1>2. f \in KfreeFrames => f.fn = "kfree"
      BY DEF KfreeFrames
  <1>3. f \in AskingFrames => f.fn = "page_alloc" /\ f.step \in {"start", "split", "fresh"}
      BY DEF AskingFrames
  <1>4. f \in FoundFrames => f.fn = "page_alloc" /\ f.step = "chain"
      BY DEF FoundFrames
  <1>5. f \in JoinFrames => f.fn = "page_alloc" /\ f.step = "joined"
      BY DEF JoinFrames
  <1>6. f \in PageFreeFrames => f.fn = "page_free"
      BY DEF PageFreeFrames
  <1>7. f \in CreateFrames => f.fn = "page_create"
      BY DEF CreateFrames
  <1>8. f \in SplitFrames => f.fn = "page_split"
      BY DEF SplitFrames
  <1>9. f \in MallocFrames \/ f \in KfreeFrames \/ f \in AskingFrames \/ f \in FoundFrames
        \/ f \in JoinFrames \/ f \in PageFreeFrames \/ f \in CreateFrames \/ f \in SplitFrames
      BY DEF Frames
  <1> QED
      BY <1>1, <1>2, <1>3, <1>4, <1>5, <1>6, <1>7, <1>8, <1>9

\* The innermost call.
LEMMA TopFacts ==
    ASSUME StackOK(stack), NEW fn, NEW step, At(fn, step)
    PROVE  /\ stack # <<>> /\ Top = stack[1] /\ Top \in Frames
           /\ Top.fn = fn /\ Top.step = step
  <1>1. stack \in Seq(Frames) /\ stack # <<>>
      BY DEF StackOK, At
  <1>2. Head(stack) = stack[1] /\ stack[1] \in Frames
      BY <1>1
  <1> QED
      BY <1>1, <1>2 DEF At, Top

\* A call waits for a block, a chain, a return or for nothing.
LEMMA WantsFacts ==
    ASSUME NEW f
    PROVE  /\ Wants(f) \in {"block", "chain", "nothing", "runs"}
           /\ f.step \in {"got", "split", "fresh", "made"} => Wants(f) = "block"
           /\ f.step \in {"grown", "joined"} => Wants(f) = "chain"
           /\ f.step \in {"merge_prev", "freed"} => Wants(f) = "nothing"
           /\ f.step \in {"try", "start", "chain", "insert", "merge"} => Wants(f) = "runs"
  BY DEF Wants

LEMMA GivesFacts ==
    ASSUME NEW f
    PROVE  /\ f.fn = "kmalloc" => Gives(f) = "block"
           /\ f.fn = "page_alloc" => Gives(f) = "chain"
           /\ f.fn = "kfree" => Gives(f) = "nothing"
           /\ f.fn \in {"page_free", "page_create", "page_split"} => Gives(f) = "outermost"
  BY DEF Gives

LEMMA HoldsFacts ==
    ASSUME NEW f
    PROVE  /\ f.fn = "kfree" => Holds(f) = f.base
           /\ f.fn = "page_alloc" /\ f.step = "chain" => Holds(f) = f.page[1].at
           /\ f.fn = "page_alloc" /\ f.step # "chain" => Holds(f) = None
           /\ f.fn = "page_free" /\ f.step = "insert" => Holds(f) = f.chain[1].at
           /\ f.fn = "page_free" /\ f.step # "insert" => Holds(f) = None
           /\ f.fn = "page_split" => Holds(f) = f.page[1].at
           /\ f.fn \in {"kmalloc", "page_create"} => Holds(f) = None
  BY DEF Holds

\* None is in nobody's hands.
LEMMA NoneInHand ==
    ASSUME NEW s
    PROVE  None \notin InHand(s)
  BY DEF InHand

\* What the innermost call has in its hands.
LEMMA TopHolds ==
    ASSUME NEW s, StackOK(s), s # <<>>, Holds(s[1]) # None
    PROVE  Holds(s[1]) \in InHand(s)
  <1>1. s \in Seq(Frames)
      BY DEF StackOK
  <1>2. 1 \in 1..Len(s)
      BY <1>1
  <1> QED
      BY <1>2 DEF InHand

\* The innermost call calls one that has nothing in its hands, and keeps what it has.
LEMMA StackCall ==
    ASSUME NEW s, StackOK(s), s # <<>>, NEW f \in Frames, NEW g \in Frames, NEW t, t = Called(f, g, s),
           Continues(g, s), Wants(g) = Gives(f), Holds(f) = None, Holds(g) = Holds(s[1])
    PROVE  StackOK(t) /\ t # <<>> /\ t[1] = f /\ InHand(t) = InHand(s)
  <1>4. Handed(f, g, s)
      BY DEF Handed
  <1>5. /\ StackOK(t) /\ t # <<>> /\ t[1] = f
        /\ InHand(t) = (InHand(s) \ {Holds(s[1])}) \cup ({Holds(f), Holds(g)} \ {None})
      BY <1>4, StackPush
  <1>6. Holds(s[1]) = None \/ Holds(s[1]) \in InHand(s)
      BY TopHolds
  <1>7. None \notin InHand(s)
      BY NoneInHand
  <1> QED
      BY <1>5, <1>6, <1>7

\* It has nothing in its hands, and calls one that has.
LEMMA StackHandOver ==
    ASSUME NEW s, StackOK(s), s # <<>>, NEW f \in Frames, NEW g \in Frames, NEW t, t = Called(f, g, s),
           Continues(g, s), Wants(g) = Gives(f), Holds(f) \notin InHand(s), Holds(f) # None,
           Holds(g) = None, Holds(s[1]) = None
    PROVE  StackOK(t) /\ t # <<>> /\ t[1] = f /\ InHand(t) = InHand(s) \cup {Holds(f)}
  <1>4. Handed(f, g, s)
      BY DEF Handed
  <1>5. /\ StackOK(t) /\ t # <<>> /\ t[1] = f
        /\ InHand(t) = (InHand(s) \ {Holds(s[1])}) \cup ({Holds(f), Holds(g)} \ {None})
      BY <1>4, StackPush
  <1>7. None \notin InHand(s)
      BY NoneInHand
  <1> QED
      BY <1>5, <1>7

\* It goes on with what it has, or lets it go.
LEMMA StackGoesOn ==
    ASSUME NEW s, StackOK(s), s # <<>>, NEW g \in Frames, NEW t, t = Resumed(g, s), Continues(g, s),
           Holds(g) \in {None, Holds(s[1])}
    PROVE  /\ StackOK(t) /\ t # <<>> /\ t[1] = g
           /\ Holds(g) = Holds(s[1]) => InHand(t) = InHand(s)
           /\ Holds(g) = None => InHand(t) = InHand(s) \ {Holds(s[1])}
  <1>1. t = <<g>> \o Tail(s)
      BY DEF Resumed
  <1>2. Gives(g) = Gives(s[1])
      BY DEF Continues
  <1>3. g.fn = "page_alloc" => g.nolock = s[1].nolock
      BY DEF Continues
  <1>5. /\ StackOK(t) /\ t # <<>> /\ t[1] = g
        /\ InHand(t) = (InHand(s) \ {Holds(s[1])}) \cup ({Holds(g)} \ {None})
      BY <1>1, <1>2, <1>3, StackReplace
  <1>6. Holds(s[1]) = None \/ Holds(s[1]) \in InHand(s)
      BY TopHolds
  <1>7. None \notin InHand(s)
      BY NoneInHand
  <1> QED
      BY <1>5, <1>6, <1>7

\* It had nothing in its hands, and now has.
LEMMA StackPicksUp ==
    ASSUME NEW s, StackOK(s), s # <<>>, NEW g \in Frames, NEW t, t = Resumed(g, s), Continues(g, s),
           Holds(g) \notin InHand(s), Holds(g) # None, Holds(s[1]) = None
    PROVE  StackOK(t) /\ t # <<>> /\ t[1] = g /\ InHand(t) = InHand(s) \cup {Holds(g)}
  <1>1. t = <<g>> \o Tail(s)
      BY DEF Resumed
  <1>2. Gives(g) = Gives(s[1])
      BY DEF Continues
  <1>3. g.fn = "page_alloc" => g.nolock = s[1].nolock
      BY DEF Continues
  <1>5. /\ StackOK(t) /\ t # <<>> /\ t[1] = g
        /\ InHand(t) = (InHand(s) \ {Holds(s[1])}) \cup ({Holds(g)} \ {None})
      BY <1>1, <1>2, <1>3, StackReplace
  <1>7. None \notin InHand(s)
      BY NoneInHand
  <1> QED
      BY <1>5, <1>7

\* Only the outermost call can be one that gives its caller nothing to wait for.
LEMMA Outermost ==
    ASSUME NEW s, StackOK(s), s # <<>>, Gives(s[1]) = "outermost"
    PROVE  Tail(s) = <<>>
  <1>1. PICK t : t = Tail(s)
      OBVIOUS
  <1>2. t # <<>> => Wants(t[1]) = Gives(s[1])
      BY <1>1, StackPop
  <1>3. Wants(t[1]) \in {"block", "chain", "nothing", "runs"}
      BY WantsFacts
  <1> QED
      BY <1>1, <1>2, <1>3

\* A stack on which nothing was called.
LEMMA StackEmpty ==
    /\ StackOK(<<>>) /\ InHand(<<>>) = {}
    /\ \A r : RetOK(<<>>, r) /\ Returned(<<>>, r) = {}
  BY DEF StackOK, InHand, RetOK, Returned

\* kmalloc returns a block.
LEMMA ReturnBlock ==
    ASSUME StackOK(stack), stack # <<>>, Top = stack[1], Top \in MallocFrames, Top.step = "try",
           NEW v \in Nat, Return(v)
    PROVE  /\ StackOK(stack') /\ RetOK(stack', ret') /\ InHand(stack') = InHand(stack)
           /\ Returned(stack, ret) = {} /\ held' = held
           /\ \/ user' = user \cup {v} /\ Returned(stack', ret') = {}
              \/ user' = user /\ Returned(stack', ret') = {v}
  <1>1. Gives(stack[1]) = "block" /\ Holds(stack[1]) = None /\ Wants(stack[1]) = "runs"
      BY GivesFacts, HoldsFacts, WantsFacts DEF MallocFrames
  <1>2. PICK t : t = Tail(stack) /\ t = stack'
      BY DEF Return
  <1>3. /\ StackOK(t) /\ InHand(t) = InHand(stack) \ {Holds(stack[1])}
        /\ Len(stack) = 1 <=> t = <<>>
        /\ t # <<>> => Wants(t[1]) = Gives(stack[1])
      BY <1>2, StackPop
  <1>4. InHand(stack) \ {None} = InHand(stack)
      BY DEF InHand
  <1>5. CASE t = <<>>
    <2>1. user' = user \cup {v} /\ held' = held /\ ret' = None
      <3>1. Top.fn = "kmalloc"
          BY DEF MallocFrames
      <3> QED
          BY <1>3, <1>5, <3>1 DEF Return, Deliver
    <2> QED
        BY <1>1, <1>2, <1>3, <1>4, <1>5, <2>1 DEF RetOK, Returned
  <1>6. CASE t # <<>>
    <2>1. ret' = v /\ user' = user /\ held' = held
        BY <1>3, <1>6 DEF Return
    <2> QED
        BY <1>1, <1>2, <1>3, <1>4, <1>6, <2>1 DEF RetOK, Returned
  <1> QED
      BY <1>5, <1>6

\* kfree returns.
LEMMA ReturnNothing ==
    ASSUME StackOK(stack), stack # <<>>, Top = stack[1], Top \in KfreeFrames, Return(None)
    PROVE  /\ StackOK(stack') /\ RetOK(stack', ret')
           /\ InHand(stack') = InHand(stack) \ {Top.base}
           /\ Returned(stack', ret') = {} /\ held' = held /\ user' = user
  <1>1. Gives(stack[1]) = "nothing" /\ Holds(stack[1]) = Top.base
      BY GivesFacts, HoldsFacts DEF KfreeFrames
  <1>2. PICK t : t = Tail(stack) /\ t = stack'
      BY DEF Return
  <1>3. /\ StackOK(t) /\ InHand(t) = InHand(stack) \ {Holds(stack[1])}
        /\ Len(stack) = 1 <=> t = <<>>
        /\ t # <<>> => Wants(t[1]) = Gives(stack[1])
      BY <1>2, StackPop
  <1>4. held' = held /\ user' = user
    <2>1. Top.fn = "kfree"
        BY DEF KfreeFrames
    <2> QED
        BY <2>1 DEF Return, Deliver
  <1>5. RetOK(t, ret') /\ Returned(t, ret') = {}
      BY <1>1, <1>3 DEF RetOK, Returned
  <1> QED
      BY <1>1, <1>2, <1>3, <1>4, <1>5

-----------------------------------------------------------------------------
(* The steps of kmalloc and kfree                                          *)

\* A block that was free is owned now.
LEMMA OwnGain ==
    ASSUME NEW U, NEW Q, NEW P, NEW D, NEW K, NEW B, OwnOK(U, Q, P, D, K, {}, B),
           NEW v, v \notin B, NEW C, C = B \cup {v}
    PROVE  OwnOK(U \cup {v}, Q, P, D, K, {}, C) /\ OwnOK(U, Q, P, D, K, {v}, C)
  <1>1. OwnOK(U \cup {v}, Q, P, D, K, {}, C)
      BY DEF OwnOK
  <1>2. OwnOK(U, Q, P, D, K, {v}, C)
      BY DEF OwnOK
  <1> QED
      BY <1>1, <1>2

\* kmalloc returns a block that was free.
LEMMA AllocateOwned ==
    ASSUME KMemInv, stack # <<>>, Top = stack[1], Top \in MallocFrames, Top.step = "try",
           NEW v \in Nat, Return(v), v \notin DOMAIN blocks,
           DOMAIN blocks' = DOMAIN blocks \cup {v},
           HeapOK(free', free_end', spare', blocks', vend'),
           Structs(free', spare') = Structs(free, spare),
           UNCHANGED <<page_free, alloc_pointer, current_map, used_start>>
    PROVE  KMemInv'
  <1>1. /\ StackOK(stack) /\ PagesOK(page_free, held) /\ RegionOK(alloc_pointer, current_map)
        /\ OwnOK(user, Structs(free, spare), PageStructs(page_free), Kept(held, used_start),
                 InHand(stack), Returned(stack, ret), DOMAIN blocks)
      BY DEF KMemInv
  <1>2. /\ StackOK(stack') /\ RetOK(stack', ret') /\ InHand(stack') = InHand(stack)
        /\ Returned(stack, ret) = {} /\ held' = held
        /\ \/ user' = user \cup {v} /\ Returned(stack', ret') = {}
           \/ user' = user /\ Returned(stack', ret') = {v}
      BY <1>1, ReturnBlock
  <1>3. PICK U, Q, P, D, K, B :
          /\ U = user /\ Q = Structs(free, spare) /\ P = PageStructs(page_free)
          /\ D = Kept(held, used_start) /\ K = InHand(stack) /\ B = DOMAIN blocks
      OBVIOUS
  <1>4. OwnOK(U, Q, P, D, K, {}, B)
      BY <1>1, <1>2, <1>3
  <1>5. OwnOK(U \cup {v}, Q, P, D, K, {}, DOMAIN blocks') /\ OwnOK(U, Q, P, D, K, {v}, DOMAIN blocks')
      BY <1>3, <1>4, OwnGain
  <1>6. OwnOK(user', Q, P, D, K, Returned(stack', ret'), DOMAIN blocks')
      BY <1>2, <1>3, <1>5
  <1>7. /\ Q = Structs(free', spare') /\ P = PageStructs(page_free')
        /\ D = Kept(held', used_start') /\ K = InHand(stack')
      BY <1>2, <1>3
  <1>8. OwnOK(user', Structs(free', spare'), PageStructs(page_free'), Kept(held', used_start'),
              InHand(stack'), Returned(stack', ret'), DOMAIN blocks')
      BY <1>6, <1>7
  <1>9. PagesOK(page_free', held') /\ RegionOK(alloc_pointer', current_map')
      BY <1>1, <1>2
  <1> QED
      BY <1>2, <1>8, <1>9, InvAfter

LEMMA AllocateWholeStep ==
    ASSUME KMemInv, AllocateWhole
    PROVE  KMemInv'
  <1>1. HeapOK(free, free_end, spare, blocks, vend) /\ StackOK(stack)
      BY DEF KMemInv
  <1>2. stack # <<>> /\ Top = stack[1] /\ Top \in MallocFrames /\ Top.step = "try"
      BY <1>1, TopFacts, FrameKinds DEF AllocateWhole
  <1>3. PICK i \in 1..Len(free) : i = Min(Fits(Top)) /\ Needed(Top) <= free[i].size
      BY <1>1, <1>2, FitFacts DEF AllocateWhole
  <1>4. /\ free' = RemoveAt(free, i) /\ spare' = Pushed(free[i].at, spare) /\ vend' = vend
        /\ free_end' = EndWithout(free, i, free_end)
        /\ blocks' = Plus(blocks, free[i].base, free[i].size)
        /\ Return(free[i].base) /\ UNCHANGED <<page_free, alloc_pointer, current_map, used_start>>
      BY <1>3 DEF AllocateWhole, WithBlock, EndWithout, Plus, Pushed, WholeSize, pageVars
  <1>5. /\ HeapOK(free', free_end', spare', blocks', vend)
        /\ Structs(free', spare') = Structs(free, spare)
        /\ free[i].base \notin DOMAIN blocks /\ DOMAIN blocks' = DOMAIN blocks \cup {free[i].base}
    <2>1. WholeTaken(free, free_end, spare, blocks, vend, i)
        BY <1>1, TakeBlock, Zenon
    <2> QED
        BY <1>4, <2>1 DEF WholeTaken
  <1>6. free[i].base \in Nat
      BY <1>1, <1>3, EntryTypes DEF HeapOK, ListOK
  <1>7. HeapOK(free', free_end', spare', blocks', vend')
      BY <1>4, <1>5
  <1> QED
      BY <1>2, <1>4, <1>5, <1>6, <1>7, AllocateOwned

LEMMA AllocateShrinkStep ==
    ASSUME KMemInv, AllocateShrink
    PROVE  KMemInv'
  <1>1. HeapOK(free, free_end, spare, blocks, vend) /\ StackOK(stack)
      BY DEF KMemInv
  <1>2. stack # <<>> /\ Top = stack[1] /\ Top \in MallocFrames /\ Top.step = "try"
      BY <1>1, TopFacts, FrameKinds DEF AllocateShrink
  <1>3. PICK i \in 1..Len(free) : i = Min(Fits(Top)) /\ Needed(Top) <= free[i].size
      BY <1>1, <1>2, FitFacts DEF AllocateShrink
  <1>4. PICK n \in Nat : n = Needed(Top) /\ n > Header
      BY <1>1, <1>2, FitFacts DEF AllocateShrink
  <1>5. n + Header < free[i].size
    <2>1. ~(n + Header >= free[i].size)
        BY <1>3, <1>4 DEF AllocateShrink, TakeWhole
    <2>2. free[i].size \in Nat /\ Header \in Nat
        BY <1>1, <1>3, EntryTypes, SizesAssumption DEF HeapOK, ListOK
    <2> QED
        BY <1>4, <2>1, <2>2
  <1>6. /\ free' = Replaced(free, i, Shrink(free[i], n)) /\ spare' = spare /\ vend' = vend
        /\ free_end' = free_end /\ blocks' = Plus(blocks, free[i].base, n)
        /\ Return(free[i].base) /\ UNCHANGED <<page_free, alloc_pointer, current_map, used_start>>
      BY <1>3, <1>4 DEF AllocateShrink, WithBlock, Plus, Replaced, pageVars
  <1>7. /\ HeapOK(free', free_end, spare, blocks', vend)
        /\ Structs(free', spare) = Structs(free, spare)
        /\ free[i].base \notin DOMAIN blocks /\ DOMAIN blocks' = DOMAIN blocks \cup {free[i].base}
    <2>0. PICK g : g = Shrink(free[i], n)
        OBVIOUS
    <2>1. PICK r : r = free' /\ r = Replaced(free, i, g)
        BY <1>6, <2>0
    <2>2. PICK c : c = blocks' /\ c = Plus(blocks, free[i].base, n)
        BY <1>6
    <2>3. Larger(free, i, n)
        BY <1>3, <1>4, <1>5 DEF Larger
    <2>4. HeapOK(r, free_end, spare, c, vend) /\ Structs(r, spare) = Structs(free, spare)
        BY <1>1, <2>0, <2>1, <2>2, <2>3, SplitBlock
    <2>5. free[i].size > Header /\ free \in Seq(Entry) /\ BlocksOK(free, blocks, vend)
        BY <1>1, <1>3 DEF HeapOK, ListOK
    <2>6. free[i].base \notin DOMAIN blocks
        BY <1>3, <2>5, FreshBase
    <2>7. DOMAIN c = DOMAIN blocks \cup {free[i].base}
        BY <2>2 DEF Plus
    <2> QED
        BY <2>1, <2>2, <2>4, <2>6, <2>7
  <1>8. free[i].base \in Nat
      BY <1>1, <1>3, EntryTypes DEF HeapOK, ListOK
  <1>9. /\ HeapOK(free', free_end', spare', blocks', vend')
        /\ Structs(free', spare') = Structs(free, spare)
      BY <1>6, <1>7
  <1> QED
      BY <1>2, <1>6, <1>7, <1>8, <1>9, AllocateOwned

\* The structs without the first spare one.
LEMMA SpareTaken ==
    ASSUME NEW l \in Seq(Entry), NEW s, StructsOK(l, s), s # <<>>
    PROVE  /\ StructsOK(l, Tail(s)) /\ Head(s) \in Nat /\ Head(s) \notin Structs(l, Tail(s))
           /\ Structs(l, Tail(s)) \cup {Head(s)} = Structs(l, s)
  <1>1. s \in Seq(Nat)
      BY DEF StructsOK
  <1>2. PICK m \in Nat : m = Len(s) /\ m > 0
      BY <1>1
  <1>3. PICK q : q = Tail(s)
      OBVIOUS
  <1>4. q \in Seq(Nat) /\ Len(q) = m - 1 /\ \A j \in 1..(m - 1) : q[j] = s[j + 1]
      BY <1>1, <1>2, <1>3
  <1>5. Head(s) = s[1] /\ s[1] \in Nat
      BY <1>1, <1>2
  <1>6. \A j \in 1..(m - 1) : j + 1 \in 1..m /\ j + 1 # 1
      BY <1>2
  <1>7. ASSUME NEW i \in 1..(m - 1), NEW j \in 1..(m - 1), q[i] = q[j] PROVE i = j
    <2>1. i + 1 = j + 1
      <3>1. i + 1 \in 1..m /\ j + 1 \in 1..m /\ s[i + 1] = s[j + 1]
          BY <1>4, <1>6, <1>7
      <3> QED
          BY <1>2, <3>1 DEF StructsOK
    <2> QED
        BY <2>1
  <1>8. \A i \in 1..Len(l), j \in 1..(m - 1) : l[i].at # q[j]
      BY <1>2, <1>4, <1>6 DEF StructsOK
  <1>9. StructsOK(l, q)
      BY <1>4, <1>7, <1>8 DEF StructsOK
  <1>10. s[1] \notin Structs(l, q)
    <2>1. ASSUME NEW j \in 1..(m - 1) PROVE q[j] # s[1]
      <3>1. j + 1 \in 1..m /\ j + 1 # 1 /\ q[j] = s[j + 1] /\ 1 \in 1..m
          BY <1>2, <1>4, <1>6
      <3> QED
          BY <1>2, <3>1 DEF StructsOK
    <2>2. \A i \in 1..Len(l) : l[i].at # s[1]
        BY <1>2 DEF StructsOK
    <2> QED
        BY <1>4, <2>1, <2>2 DEF Structs
  <1>11. {q[j] : j \in 1..(m - 1)} \cup {s[1]} = {s[j] : j \in 1..m}
    <2>1. {q[j] : j \in 1..(m - 1)} \subseteq {s[j] : j \in 1..m}
        BY <1>4, <1>6
    <2>2. s[1] \in {s[j] : j \in 1..m}
        BY <1>2
    <2>3. ASSUME NEW j \in 1..m PROVE s[j] \in {q[i] : i \in 1..(m - 1)} \cup {s[1]}
      <3>1. CASE j = 1
          BY <3>1
      <3>2. CASE j # 1
        <4>1. j - 1 \in 1..(m - 1) /\ (j - 1) + 1 = j
            BY <1>2, <3>2
        <4>2. s[j] = q[j - 1]
            BY <1>4, <4>1
        <4> QED
            BY <4>1, <4>2
      <3> QED
          BY <3>1, <3>2
    <2>4. {s[j] : j \in 1..m} \subseteq {q[i] : i \in 1..(m - 1)} \cup {s[1]}
        BY <2>3
    <2> QED
        BY <2>1, <2>2, <2>4
  <1>12. Structs(l, q) \cup {s[1]} = Structs(l, s)
      BY <1>2, <1>4, <1>11 DEF Structs
  <1> QED
      BY <1>3, <1>5, <1>9, <1>10, <1>12

\* A block that a call has in its hands is free now; its struct was spare or just made.
LEMMA OwnLoss ==
    ASSUME NEW U, NEW Q, NEW P, NEW D, NEW K, NEW R, NEW B, OwnOK(U, Q, P, D, K, R, B),
           NEW v, v \in K, NEW S, S \in {Q, Q \cup R}
    PROVE  OwnOK(U, S, P, D, K \ {v}, {}, B \ {v})
  BY DEF OwnOK

\* The block that kfree frees is allocated.
LEMMA FreedBlock ==
    ASSUME KMemInv, stack # <<>>, Top = stack[1], Top \in KfreeFrames
    PROVE  Top.base \in InHand(stack) /\ Top.base \in DOMAIN blocks
  <1>1. /\ StackOK(stack)
        /\ OwnOK(user, Structs(free, spare), PageStructs(page_free), Kept(held, used_start),
                 InHand(stack), Returned(stack, ret), DOMAIN blocks)
      BY DEF KMemInv
  <1>2. Top.base \in Nat /\ Top.fn = "kfree"
      BY DEF KfreeFrames
  <1>3. Holds(stack[1]) = Top.base
      BY <1>2, HoldsFacts
  <1>4. Top.base # None
      BY <1>2, SizesAssumption
  <1>5. Top.base \in InHand(stack)
      BY <1>1, <1>3, <1>4, TopHolds
  <1> QED
      BY <1>1, <1>5 DEF OwnOK

\* kfree goes back to its caller.
LEMMA FreeOwned ==
    ASSUME KMemInv, stack # <<>>, Top = stack[1], Top \in KfreeFrames, Return(None),
           HeapOK(free', free_end', spare', blocks', vend'),
           \/ Structs(free', spare') = Structs(free, spare)
           \/ Structs(free', spare') = Structs(free, spare) \cup Returned(stack, ret),
           DOMAIN blocks' = DOMAIN blocks \ {Top.base},
           UNCHANGED <<page_free, alloc_pointer, current_map, used_start>>
    PROVE  KMemInv'
  <1>1. /\ StackOK(stack) /\ PagesOK(page_free, held) /\ RegionOK(alloc_pointer, current_map)
        /\ OwnOK(user, Structs(free, spare), PageStructs(page_free), Kept(held, used_start),
                 InHand(stack), Returned(stack, ret), DOMAIN blocks)
      BY DEF KMemInv
  <1>2. /\ StackOK(stack') /\ RetOK(stack', ret')
        /\ InHand(stack') = InHand(stack) \ {Top.base}
        /\ Returned(stack', ret') = {} /\ held' = held /\ user' = user
      BY <1>1, ReturnNothing
  <1>3. Top.base \in InHand(stack)
      BY FreedBlock
  <1>4. PICK S : S = Structs(free', spare')
      OBVIOUS
  <1>5. S \in {Structs(free, spare), Structs(free, spare) \cup Returned(stack, ret)}
      BY <1>4
  <1>6. OwnOK(user, S, PageStructs(page_free), Kept(held, used_start), InHand(stack) \ {Top.base}, {},
              DOMAIN blocks \ {Top.base})
      BY <1>1, <1>3, <1>5, OwnLoss
  <1>7. OwnOK(user', Structs(free', spare'), PageStructs(page_free'), Kept(held', used_start'),
              InHand(stack'), Returned(stack', ret'), DOMAIN blocks')
      BY <1>2, <1>4, <1>6
  <1>8. PagesOK(page_free', held') /\ RegionOK(alloc_pointer', current_map')
      BY <1>1, <1>2
  <1> QED
      BY <1>2, <1>7, <1>8, InvAfter

LEMMA FreeWithSpareStep ==
    ASSUME KMemInv, FreeWithSpare
    PROVE  KMemInv'
  <1>1. HeapOK(free, free_end, spare, blocks, vend) /\ StackOK(stack)
      BY DEF KMemInv
  <1>2. stack # <<>> /\ Top = stack[1] /\ Top \in KfreeFrames
      BY <1>1, TopFacts, FrameKinds DEF FreeWithSpare
  <1>3. free \in Seq(Entry) /\ StructsOK(free, spare) /\ spare # <<>>
      BY <1>1 DEF HeapOK, ListOK, FreeWithSpare
  <1>4. /\ StructsOK(free, Tail(spare)) /\ Head(spare) \in Nat
        /\ Head(spare) \notin Structs(free, Tail(spare))
        /\ Structs(free, Tail(spare)) \cup {Head(spare)} = Structs(free, spare)
      BY <1>3, SpareTaken
  <1>5. InsertFree(Top.base, Head(spare), Tail(spare))
      BY DEF FreeWithSpare
  <1>6. Top.base \in DOMAIN blocks
      BY <1>2, FreedBlock
  <1>7. /\ HeapOK(free', free_end', spare', blocks', vend')
        /\ Structs(free', spare') = Structs(free, Tail(spare)) \cup {Head(spare)}
        /\ DOMAIN blocks' = DOMAIN blocks \ {Top.base}
      BY <1>1, <1>4, <1>5, <1>6, InsertFreeHeap
  <1>8. Return(None) /\ UNCHANGED <<page_free, alloc_pointer, current_map, used_start>>
      BY <1>5 DEF InsertFree, pageVars
  <1>9. Structs(free', spare') = Structs(free, spare)
      BY <1>4, <1>7
  <1> QED
      BY <1>2, <1>7, <1>8, <1>9, FreeOwned

LEMMA FreeWithNewStep ==
    ASSUME KMemInv, FreeWithNew
    PROVE  KMemInv'
  <1>1. /\ HeapOK(free, free_end, spare, blocks, vend) /\ StackOK(stack) /\ RetOK(stack, ret)
        /\ OwnOK(user, Structs(free, spare), PageStructs(page_free), Kept(held, used_start),
                 InHand(stack), Returned(stack, ret), DOMAIN blocks)
      BY DEF KMemInv
  <1>2. stack # <<>> /\ Top = stack[1] /\ Top \in KfreeFrames /\ Top.step = "got"
      BY <1>1, TopFacts, FrameKinds DEF FreeWithNew
  <1>3. StructsOK(free, spare)
      BY <1>1 DEF HeapOK
  <1>4. Returned(stack, ret) = {ret} /\ ret \in Nat
      BY <1>1, <1>2, WantsFacts DEF Returned, RetOK
  <1>5. ret \notin Structs(free, spare)
      BY <1>1, <1>4 DEF OwnOK
  <1>6. InsertFree(Top.base, ret, spare)
      BY DEF FreeWithNew
  <1>7. Top.base \in DOMAIN blocks
      BY <1>2, FreedBlock
  <1>8. /\ HeapOK(free', free_end', spare', blocks', vend')
        /\ Structs(free', spare') = Structs(free, spare) \cup {ret}
        /\ DOMAIN blocks' = DOMAIN blocks \ {Top.base}
      BY <1>1, <1>3, <1>4, <1>5, <1>6, <1>7, InsertFreeHeap
  <1>9. Return(None) /\ UNCHANGED <<page_free, alloc_pointer, current_map, used_start>>
      BY <1>6 DEF InsertFree, pageVars
  <1>10. Structs(free', spare') = Structs(free, spare) \cup Returned(stack, ret)
      BY <1>4, <1>8
  <1> QED
      BY <1>2, <1>8, <1>9, <1>10, FreeOwned

\* The heap, the pages and what callers hold stay as they are.
HeapSame == UNCHANGED <<free, free_end, spare, blocks, vend, used_start>>
HeapKept == UNCHANGED <<free, free_end, spare, blocks, vend>>
RunsSame == UNCHANGED <<user, page_free, held, alloc_pointer, current_map>>

\* Only the calls go on; what was returned is used or still there.
LEMMA CallsGoOn ==
    ASSUME KMemInv, HeapSame, RunsSame, StackOK(stack'), RetOK(stack', ret'),
           InHand(stack') \subseteq InHand(stack),
           Returned(stack', ret') \subseteq Returned(stack, ret)
    PROVE  KMemInv'
  <1>1. /\ HeapOK(free, free_end, spare, blocks, vend)
        /\ PagesOK(page_free, held) /\ RegionOK(alloc_pointer, current_map)
        /\ OwnOK(user, Structs(free, spare), PageStructs(page_free), Kept(held, used_start),
                 InHand(stack), Returned(stack, ret), DOMAIN blocks)
      BY DEF KMemInv
  <1>2. /\ HeapOK(free', free_end', spare', blocks', vend')
        /\ PagesOK(page_free', held') /\ RegionOK(alloc_pointer', current_map')
      BY <1>1 DEF HeapSame, RunsSame
  <1>3. OwnOK(user, Structs(free, spare), PageStructs(page_free), Kept(held, used_start),
              InHand(stack'), Returned(stack', ret'), DOMAIN blocks)
      BY <1>1 DEF OwnOK
  <1>4. OwnOK(user', Structs(free', spare'), PageStructs(page_free'), Kept(held', used_start'),
              InHand(stack'), Returned(stack', ret'), DOMAIN blocks')
      BY <1>3 DEF HeapSame, RunsSame
  <1> QED
      BY <1>2, <1>4, InvAfter

\* A call that never returns changes nothing any more.
LEMMA HaltStep ==
    ASSUME KMemInv, NEW why, Halt(why)
    PROVE  KMemInv'
  <1>1. HeapSame /\ RunsSame /\ UNCHANGED <<stack, ret>>
      BY DEF Halt, heapVars, pageVars, HeapSame, RunsSame
  <1>2. StackOK(stack') /\ RetOK(stack', ret')
      BY <1>1 DEF KMemInv
  <1>3. InHand(stack') = InHand(stack) /\ Returned(stack', ret') = Returned(stack, ret)
      BY <1>1
  <1> QED
      BY <1>1, <1>2, <1>3, CallsGoOn

\* The frame a call of kmalloc begins with.
LEMMA MallocFrame ==
    ASSUME NEW size \in Nat \ {0}, NEW reserved \in BOOLEAN, NEW f, f = Malloc(size, reserved)
    PROVE  f \in MallocFrames /\ f.fn = "kmalloc" /\ f.step = "try" /\ f \in Frames
  <1>1. PageStruct \in Nat \ {0}
      BY SizesAssumption
  <1>2. f \in MallocFrames /\ f.fn = "kmalloc" /\ f.step = "try"
      BY <1>1 DEF Malloc, MallocFrames
  <1> QED
      BY <1>2 DEF Frames

\* The innermost call kmallocs a struct and goes on as g.
LEMMA CallMalloc ==
    ASSUME KMemInv, HeapSame, RunsSame, stack # <<>>, NEW g \in Frames,
           NEW size \in Nat \ {0}, NEW reserved \in BOOLEAN,
           stack' = Called(Malloc(size, reserved), g, stack), ret' = ret,
           Continues(g, stack), Wants(g) = "block", Holds(g) = Holds(stack[1])
    PROVE  KMemInv'
  <1>1. StackOK(stack)
      BY DEF KMemInv
  <1>2. PICK f : f = Malloc(size, reserved)
      OBVIOUS
  <1>3. f \in Frames /\ f.fn = "kmalloc" /\ f.step = "try"
      BY <1>2, MallocFrame
  <1>4. Gives(f) = "block" /\ Holds(f) = None /\ Wants(f) = "runs"
      BY <1>3, GivesFacts, HoldsFacts, WantsFacts
  <1>5. PICK t : t = stack' /\ t = Called(f, g, stack)
      BY <1>2
  <1>6. StackOK(t) /\ t # <<>> /\ t[1] = f /\ InHand(t) = InHand(stack)
      BY <1>1, <1>3, <1>4, <1>5, StackCall
  <1>8. Wants(t[1]) = "runs"
      BY <1>4, <1>6
  <1>9. RetOK(t, ret') /\ Returned(t, ret') = {}
      BY <1>8 DEF RetOK, Returned
  <1> QED
      BY <1>5, <1>6, <1>9, CallsGoOn

LEMMA FreeGetStructStep ==
    ASSUME KMemInv, FreeGetStruct
    PROVE  KMemInv'
  <1>1. StackOK(stack)
      BY DEF KMemInv
  <1>2. stack # <<>> /\ Top = stack[1] /\ Top \in KfreeFrames
      BY <1>1, TopFacts, FrameKinds DEF FreeGetStruct
  <1>3. PICK g : g = [Top EXCEPT !.step = "got"]
      OBVIOUS
  <1>4. g \in KfreeFrames /\ g.fn = "kfree" /\ g.step = "got" /\ g.base = Top.base
        /\ Top.fn = "kfree"
      BY <1>2, <1>3 DEF KfreeFrames
  <1>5. Gives(g) = Gives(stack[1]) /\ Wants(g) = "block" /\ Holds(g) = Holds(stack[1])
      BY <1>2, <1>4, GivesFacts, HoldsFacts, WantsFacts
  <1>6. g \in Frames /\ Continues(g, stack)
      BY <1>4, <1>5 DEF Frames, Continues
  <1>7. HeapSame /\ RunsSame
      BY DEF FreeGetStruct, heapVars, pageVars, HeapSame, RunsSame
  <1>8. stack' = Called(Malloc(FreeStruct, TRUE), g, stack) /\ ret' = ret
      BY <1>3 DEF FreeGetStruct, Call, Called
  <1>9. FreeStruct \in Nat \ {0}
      BY SizesAssumption
  <1> QED
      BY <1>2, <1>5, <1>6, <1>7, <1>8, <1>9, CallMalloc

\* page::alloc goes on to another step before it has found pages.
LEMMA AskingGoesOn ==
    ASSUME NEW f \in AskingFrames, NEW next \in {"split", "fresh"}, NEW g, g = [f EXCEPT !.step = next]
    PROVE  /\ g \in AskingFrames /\ g \in Frames /\ g.fn = "page_alloc" /\ f.fn = "page_alloc"
           /\ g.nolock = f.nolock /\ g.step = next /\ f.step # "chain" /\ f.reserved \in BOOLEAN
  <1>1. /\ g \in AskingFrames /\ g.fn = "page_alloc" /\ f.fn = "page_alloc"
        /\ g.nolock = f.nolock /\ g.step = next /\ f.reserved \in BOOLEAN
      BY DEF AskingFrames
  <1>2. f.step # "chain"
      BY DEF AskingFrames
  <1> QED
      BY <1>1, <1>2 DEF Frames

\* It kmallocs a struct Page.
LEMMA AskingCalls ==
    ASSUME KMemInv, NEW next \in {"split", "fresh"}, At("page_alloc", "start"),
           Call(Malloc(PageStruct, Top.reserved), next), HeapSame, RunsSame
    PROVE  KMemInv'
  <1>1. StackOK(stack)
      BY DEF KMemInv
  <1>2. stack # <<>> /\ Top = stack[1] /\ Top \in AskingFrames
      BY <1>1, TopFacts, FrameKinds
  <1>3. PICK g : g = [Top EXCEPT !.step = next]
      OBVIOUS
  <1>4. /\ g \in AskingFrames /\ g \in Frames /\ g.fn = "page_alloc" /\ Top.fn = "page_alloc"
        /\ g.nolock = Top.nolock /\ g.step = next /\ Top.step # "chain" /\ Top.reserved \in BOOLEAN
      BY <1>2, <1>3, AskingGoesOn
  <1>5. g.step # "chain" /\ Wants(g) = "block"
      BY <1>4, WantsFacts
  <1>6. Gives(g) = Gives(stack[1]) /\ Holds(g) = Holds(stack[1])
      BY <1>2, <1>4, <1>5, GivesFacts, HoldsFacts
  <1>7. stack' = Called(Malloc(PageStruct, Top.reserved), g, stack) /\ ret' = ret
      BY <1>3 DEF Call, Called
  <1>8. PageStruct \in Nat \ {0}
      BY SizesAssumption
  <1>9. Continues(g, stack)
      BY <1>2, <1>4, <1>6 DEF Continues
  <1> QED
      BY <1>2, <1>4, <1>5, <1>6, <1>7, <1>8, <1>9, CallMalloc

LEMMA PageSplitCallStep ==
    ASSUME KMemInv, PageSplitCall
    PROVE  KMemInv'
  <1>1. /\ At("page_alloc", "start") /\ Call(Malloc(PageStruct, Top.reserved), "split")
        /\ HeapSame /\ RunsSame
      BY DEF PageSplitCall, heapVars, pageVars, HeapSame, RunsSame
  <1> QED
      BY <1>1, AskingCalls

LEMMA PageFreshCallStep ==
    ASSUME KMemInv, PageFreshCall
    PROVE  KMemInv'
  <1>1. /\ At("page_alloc", "start") /\ Call(Malloc(PageStruct, Top.reserved), "fresh")
        /\ HeapSame /\ RunsSame
      BY DEF PageFreshCall, heapVars, pageVars, HeapSame, RunsSame
  <1> QED
      BY <1>1, AskingCalls

-----------------------------------------------------------------------------
(* The steps of kmalloc that grow the heap                                 *)

\* A kmalloc that finds nothing asks for at least one page.
LEMMA PagesAsked ==
    ASSUME free \in Seq(Entry), NEW f \in MallocFrames, ~Satisfiable(f)
    PROVE  PagesNeeded(f) \in Nat \ {0} /\ LastPassed(f) \in Entry \cup {None}
  <1>1. f.size \in Nat /\ Header \in Nat /\ PageStruct \in Nat /\ FreeStruct \in Nat
      BY SizesAssumption DEF MallocFrames
  <1>2. MinimumPages \in Nat /\ MinimumPages > 0 /\ PageWords \in Nat /\ PageWords > 0
      BY SizesAssumption, SMTT(60)
  <1>3. PICK need \in Nat : need = Needed(f)
      BY <1>1 DEF Needed
  <1>4. PICK want \in Nat : want = Needed(f) + PageStruct + FreeStruct /\ want >= need
      BY <1>1, <1>3
  <1>5. \A x \in Nat : x \div PageWords \in Nat
      BY <1>2
  <1>6. PICK w \in Nat : w = want \div PageWords
      BY <1>5
  <1>7. CASE LastPassed(f) = None
    <2>1. PagesNeeded(f) = MinimumPages + w
        BY <1>4, <1>6, <1>7 DEF PagesNeeded
    <2> QED
        BY <1>2, <1>7, <2>1
  <1>8. CASE LastPassed(f) # None
    <2>1. ~OverLimit(f) /\ free # <<>> /\ LastPassed(f) = Last(free)
        BY <1>8 DEF LastPassed
    <2>2. PICK n \in Nat : n = Len(free) /\ n \in 1..Len(free)
        BY <2>1
    <2>3. LastPassed(f) = free[n] /\ free[n] \in Entry
        BY <2>1, <2>2 DEF Last
    <2>4. ~(Needed(f) <= free[n].size)
        BY <2>1, <2>2 DEF Satisfiable, Fits
    <2>5. PICK z \in Nat : z = free[n].size
        BY <2>3 DEF Entry
    <2>6. want - z \in Nat
        BY <1>3, <1>4, <2>4, <2>5
    <2>7. PICK y \in Nat : y = (want - z) \div PageWords
        BY <1>5, <2>6
    <2>8. PagesNeeded(f) = MinimumPages + y \/ PagesNeeded(f) = MinimumPages + w
        BY <1>4, <1>6, <2>3, <2>5, <2>7 DEF PagesNeeded
    <2>9. PagesNeeded(f) \in Nat \ {0}
        BY <1>2, <2>8
    <2> QED
        BY <2>3, <2>9
  <1> QED
      BY <1>7, <1>8

\* The frame a call of page::alloc begins with.
LEMMA AllocFrame ==
    ASSUME NEW count \in Nat \ {0}, NEW reserved \in BOOLEAN, NEW nolock \in BOOLEAN,
           NEW f, f = PageAlloc(count, reserved, nolock)
    PROVE  /\ f \in AskingFrames /\ f \in Frames /\ f.fn = "page_alloc" /\ f.step = "start"
           /\ f.nolock = nolock
  <1>1. f \in AskingFrames /\ f.fn = "page_alloc" /\ f.step = "start" /\ f.nolock = nolock
      BY DEF PageAlloc, AskingFrames
  <1> QED
      BY <1>1 DEF Frames

\* The innermost call asks for pages and goes on as g.
LEMMA CallAlloc ==
    ASSUME KMemInv, HeapSame, RunsSame, stack # <<>>, NEW g \in Frames,
           NEW count \in Nat \ {0}, NEW reserved \in BOOLEAN, NEW nolock \in BOOLEAN,
           stack' = Called(PageAlloc(count, reserved, nolock), g, stack), ret' = ret,
           Continues(g, stack), Wants(g) = "chain", Holds(g) = Holds(stack[1])
    PROVE  KMemInv'
  <1>1. StackOK(stack)
      BY DEF KMemInv
  <1>2. PICK f : f = PageAlloc(count, reserved, nolock)
      OBVIOUS
  <1>3. f \in Frames /\ f.fn = "page_alloc" /\ f.step = "start"
      BY <1>2, AllocFrame
  <1>4. Gives(f) = "chain" /\ Holds(f) = None /\ Wants(f) = "runs"
      BY <1>3, GivesFacts, HoldsFacts, WantsFacts
  <1>5. PICK t : t = stack' /\ t = Called(f, g, stack)
      BY <1>2
  <1>6. StackOK(t) /\ t # <<>> /\ t[1] = f /\ InHand(t) = InHand(stack)
      BY <1>1, <1>3, <1>4, <1>5, StackCall
  <1>7. Wants(t[1]) = "runs"
      BY <1>4, <1>6
  <1>8. RetOK(t, ret') /\ Returned(t, ret') = {}
      BY <1>7 DEF RetOK, Returned
  <1> QED
      BY <1>5, <1>6, <1>8, CallsGoOn

LEMMA GrowStep ==
    ASSUME KMemInv, Grow
    PROVE  KMemInv'
  <1>1. StackOK(stack) /\ free \in Seq(Entry)
      BY DEF KMemInv, HeapOK, ListOK
  <1>2. stack # <<>> /\ Top = stack[1] /\ Top \in MallocFrames
      BY <1>1, TopFacts, FrameKinds DEF Grow
  <1>3. PICK count \in Nat \ {0} : count = PagesNeeded(Top)
      BY <1>1, <1>2, PagesAsked DEF Grow
  <1>4. PICK prev \in Entry \cup {None} : prev = LastPassed(Top)
      BY <1>1, <1>2, PagesAsked DEF Grow
  <1>5. PICK g : g = [Top EXCEPT !.step = "grown", !.prev = prev]
      OBVIOUS
  <1>6. g \in MallocFrames /\ g.fn = "kmalloc" /\ g.step = "grown" /\ Top.fn = "kmalloc"
      BY <1>2, <1>5 DEF MallocFrames
  <1>7. Gives(g) = Gives(stack[1]) /\ Holds(g) = Holds(stack[1]) /\ Wants(g) = "chain"
      BY <1>2, <1>6, GivesFacts, HoldsFacts, WantsFacts
  <1>8. g \in Frames /\ Continues(g, stack)
      BY <1>6, <1>7 DEF Frames, Continues
  <1>9. stack' = Called(PageAlloc(count, TRUE, TRUE), g, stack) /\ ret' = ret
      BY <1>3, <1>4, <1>5 DEF Grow, Called
  <1>10. HeapSame /\ RunsSame
      BY DEF Grow, heapVars, pageVars, HeapSame, RunsSame
  <1> QED
      BY <1>2, <1>7, <1>8, <1>9, <1>10, CallAlloc

\* One more run has grown the heap.
LEMMA UsedLonger ==
    ASSUME NEW u, UsedOK(u), NEW r \in Run, r.at \notin PageStructs(u), NEW w, w = <<r>> \o u
    PROVE  UsedOK(w) /\ PageStructs(w) = PageStructs(u) \cup {r.at}
  <1>1. PICK n \in Nat : n = Len(u)
      BY DEF UsedOK
  <1>2. /\ w \in Seq(Run) /\ Len(w) = n + 1 /\ w[1] = r
        /\ \A j \in 1..n : w[j + 1] = u[j]
      BY <1>1 DEF UsedOK
  <1>3. \A j \in 2..(n + 1) : j - 1 \in 1..n /\ w[j] = u[j - 1]
      BY <1>1, <1>2
  <1>4. PageStructs(w) \subseteq PageStructs(u) \cup {r.at}
      BY <1>1, <1>2, <1>3 DEF PageStructs
  <1>5. PageStructs(u) \cup {r.at} \subseteq PageStructs(w)
    <2>1. \A j \in 1..n : j + 1 \in 1..(n + 1) /\ 1 \in 1..(n + 1)
        BY <1>1
    <2>2. 1 \in 1..(n + 1)
        BY <1>1
    <2> QED
        BY <1>1, <1>2, <2>1, <2>2 DEF PageStructs
  <1>6. ASSUME NEW i \in 1..(n + 1), NEW j \in 1..(n + 1), w[i].at = w[j].at
        PROVE  i = j
    <2>1. \A k \in 1..n : u[k].at # r.at
        BY <1>1 DEF PageStructs
    <2>2. CASE i = 1 \/ j = 1
        BY <1>2, <1>3, <1>6, <2>1, <2>2
    <2>3. CASE i # 1 /\ j # 1
      <3>1. i \in 2..(n + 1) /\ j \in 2..(n + 1)
          BY <1>1, <2>3
      <3>2. u[i - 1].at = u[j - 1].at /\ i - 1 \in 1..n /\ j - 1 \in 1..n
          BY <1>3, <1>6, <3>1
      <3>3. i - 1 = j - 1
          BY <1>1, <3>2 DEF UsedOK
      <3> QED
          BY <3>3
    <2> QED
        BY <2>2, <2>3
  <1> QED
      BY <1>2, <1>4, <1>5, <1>6 DEF UsedOK

\* The pages are part of the heap, and kmalloc starts over.
LEMMA InstallOwned ==
    ASSUME KMemInv, UsedInv, RunsSame, HeapOK(free', free_end', spare', blocks', vend'),
           stack # <<>>, stack[1] \in MallocFrames, stack[1].step = "grown",
           ret[1] \in Run, Len(ret) = 1, used_start' = <<ret[1]>> \o used_start,
           NEW g \in MallocFrames, g.step = "try", stack' = Resumed(g, stack),
           \/ /\ Structs(free', spare') = Structs(free, spare)
              /\ DOMAIN blocks' = DOMAIN blocks
           \/ /\ Structs(free', spare') = Structs(free, spare) \cup {vend}
              /\ DOMAIN blocks' = DOMAIN blocks \cup {vend}
              /\ vend \notin DOMAIN blocks
    PROVE  KMemInv'
  <1>1. /\ StackOK(stack) /\ PagesOK(page_free, held) /\ RegionOK(alloc_pointer, current_map)
        /\ OwnOK(user, Structs(free, spare), PageStructs(page_free), Kept(held, used_start),
                 InHand(stack), Returned(stack, ret), DOMAIN blocks)
      BY DEF KMemInv
  <1>2. g.fn = "kmalloc" /\ stack[1].fn = "kmalloc"
      BY DEF MallocFrames
  <1>3. Gives(g) = Gives(stack[1]) /\ Holds(g) = None /\ Holds(stack[1]) = None
      BY <1>2, GivesFacts, HoldsFacts
  <1>4. Wants(g) = "runs" /\ Wants(stack[1]) = "chain"
      BY WantsFacts
  <1>5. g \in Frames /\ Continues(g, stack)
      BY <1>2, <1>3 DEF Frames, Continues
  <1>6. PICK t : t = stack' /\ t = Resumed(g, stack)
      OBVIOUS
  <1>7. StackOK(t) /\ t # <<>> /\ t[1] = g /\ InHand(t) = InHand(stack)
      BY <1>1, <1>3, <1>5, <1>6, StackGoesOn
  <1>8. RetOK(t, ret') /\ Returned(t, ret') = {} /\ Returned(stack, ret) = {ret[1].at}
      BY <1>4, <1>7 DEF RetOK, Returned
  <1>9. PICK U, Q, P, D, K, B :
          /\ U = user /\ Q = Structs(free, spare) /\ P = PageStructs(page_free)
          /\ D = Kept(held, used_start) \cup {ret[1].at} /\ K = InHand(stack) /\ B = DOMAIN blocks
      OBVIOUS
  <1>10. OwnOK(U, Q, P, D, K, {}, B)
      BY <1>1, <1>8, <1>9 DEF OwnOK
  <1>11. OwnOK(U, Structs(free', spare'), P, D, K, {}, DOMAIN blocks')
    <2>1. CASE Structs(free', spare') = Q /\ DOMAIN blocks' = B
        BY <1>10, <2>1
    <2>2. CASE /\ Structs(free', spare') = Q \cup {vend}
               /\ DOMAIN blocks' = B \cup {vend} /\ vend \notin B
        BY <1>10, <2>2 DEF OwnOK
    <2> QED
        BY <1>9, <2>1, <2>2
  <1>12. U = user' /\ P = PageStructs(page_free') /\ D = Kept(held', used_start')
    <2>1. ret[1].at \notin PageStructs(used_start)
        BY <1>1, <1>8 DEF OwnOK, Kept
    <2>2. PageStructs(used_start') = PageStructs(used_start) \cup {ret[1].at}
        BY <2>1, UsedLonger DEF UsedInv
    <2> QED
        BY <1>9, <2>2 DEF RunsSame, Kept
  <1>13. OwnOK(user', Structs(free', spare'), PageStructs(page_free'), Kept(held', used_start'),
               InHand(stack'), Returned(stack', ret'), DOMAIN blocks')
      BY <1>6, <1>7, <1>8, <1>9, <1>11, <1>12
  <1>14. PagesOK(page_free', held') /\ RegionOK(alloc_pointer', current_map')
      BY <1>1 DEF RunsSame
  <1> QED
      BY <1>6, <1>7, <1>8, <1>13, <1>14, InvAfter

LEMMA SizesFacts ==
    /\ PageWords \in Nat /\ Header \in Nat /\ FreeStruct \in Nat /\ PageStruct \in Nat
    /\ Header > 0 /\ FreeStruct > 0
    /\ FreeStruct <= PageStruct /\ 4 * Header + 3 * PageStruct < PageWords
  BY SizesAssumption, SMTT(60)

\* The words of the pages that page::alloc has returned.
LEMMA WordsGot ==
    ASSUME NEW c \in Int, c >= 1, NEW n, n = c * PageWords
    PROVE  /\ n \in Nat /\ Header + FreeStruct \in Nat /\ Header + FreeStruct > Header
           /\ (Header + FreeStruct) + Header < n
  <1>1. /\ PageWords \in Nat /\ Header \in Nat /\ FreeStruct \in Nat /\ PageStruct \in Nat
        /\ Header > 0 /\ FreeStruct > 0
        /\ FreeStruct <= PageStruct /\ 4 * Header + 3 * PageStruct < PageWords
      BY SizesFacts
  <1>3. PICK m \in Nat : m = c - 1
      OBVIOUS
  <1>4. m * PageWords \in Nat /\ c * PageWords = m * PageWords + PageWords
      BY <1>1, <1>3
  <1>5. n \in Nat /\ n >= PageWords
      BY <1>1, <1>4
  <1> QED
      BY <1>1, <1>5

\* The new pages begin with a struct: the block goes to the end of the list.
LEMMA AppendHeap ==
    ASSUME HeapOK(free, free_end, spare, blocks, vend), Structs(free, spare) \subseteq DOMAIN blocks,
           NEW n \in Nat, Header + FreeStruct \in Nat, Header + FreeStruct > Header,
           (Header + FreeStruct) + Header < n, AppendBlock(n), vend' = vend + n
    PROVE  /\ HeapOK(free', free_end', spare', blocks', vend')
           /\ Structs(free', spare') = Structs(free, spare) \cup {vend}
           /\ DOMAIN blocks' = DOMAIN blocks \cup {vend} /\ vend \notin DOMAIN blocks
  <1>1. PICK h \in Nat : h = Header + FreeStruct /\ h > Header /\ h + Header < n
      OBVIOUS
  <1>2. vend \in Nat /\ Header \in Nat
      BY SizesAssumption DEF HeapOK, BlocksOK
  <1>3. PICK b : b = [at |-> vend, base |-> vend + h, size |-> n - h]
      OBVIOUS
  <1>4. b \in Entry /\ b.at = vend /\ b.base = vend + h /\ b.size = n - h
    <2>1. vend + h \in Nat /\ n - h \in Nat
        BY <1>1, <1>2
    <2> QED
        BY <1>2, <1>3, <2>1 DEF Entry
  <1>5. /\ free \in Seq(Entry) /\ free_end = EndOf(free) /\ StructsOK(free, spare)
      BY DEF HeapOK, ListOK
  <1>6. free' = Append(free, b)
    <2>1. free' = IF free_end = None THEN <<b>> ELSE Append(SubSeq(free, 1, IndexOf(free_end)), b)
        BY <1>1, <1>3 DEF AppendBlock
    <2>2. CASE free = <<>>
      <3>1. free_end = None
          BY <1>5, <2>2 DEF EndOf
      <3>2. Append(<<>>, b) = <<b>>
          OBVIOUS
      <3> QED
          BY <2>1, <2>2, <3>1, <3>2
    <2>3. CASE free # <<>>
      <3>1. PICK k \in Nat : k = Len(free) /\ k \in 1..Len(free)
          BY <1>5, <2>3
      <3>2. free_end = free[k].at /\ free[k].at \in Nat
          BY <1>5, <2>3, <3>1, EntryTypes DEF EndOf
      <3>3. free_end # None
          BY <3>2, SizesAssumption
      <3>4. IndexOf(free_end) \in 1..Len(free) /\ free[IndexOf(free_end)].at = free_end
          BY <3>1, <3>2 DEF IndexOf
      <3>5. IndexOf(free_end) = k
          BY <1>5, <3>1, <3>2, <3>4 DEF StructsOK
      <3>6. SubSeq(free, 1, k) = free
          BY <1>5, <3>1
      <3> QED
          BY <2>1, <3>3, <3>5, <3>6
    <2> QED
        BY <2>2, <2>3
  <1>7. free_end' = vend /\ spare' = spare /\ blocks' = Plus(blocks, vend, h)
      BY <1>1 DEF AppendBlock, WithBlock, Plus
  <1>8. PICK r, c : r = free' /\ r = Longer(free, b) /\ c = blocks' /\ c = Plus(blocks, vend, h)
      BY <1>6, <1>7 DEF Longer
  <1>9. /\ HeapOK(r, vend, spare, c, vend + n) /\ Structs(r, spare) = Structs(free, spare) \cup {vend}
        /\ vend \notin DOMAIN blocks /\ DOMAIN c = DOMAIN blocks \cup {vend}
    <2>1. Rest(b, vend, h, n)
        BY <1>1, <1>4 DEF Rest
    <2>2. Allocated(free, spare, blocks)
        BY DEF Allocated
    <2>3. r = Longer(free, b) /\ c = Plus(blocks, vend, h)
        BY <1>8
    <2>4. HeapOK(r, vend, spare, c, vend + n) /\ Structs(r, spare) = With(Structs(free, spare), vend)
        BY <2>1, <2>2, <2>3, BlockAppended
    <2>5. \A x \in DOMAIN blocks : x \in Nat /\ blocks[x] \in Nat /\ blocks[x] > Header /\ x + blocks[x] <= vend
        BY DEF HeapOK, BlocksOK
    <2>6. vend \notin DOMAIN blocks
        BY <1>2, <2>5
    <2>7. DOMAIN c = DOMAIN blocks \cup {vend}
        BY <2>3 DEF Plus
    <2> QED
        BY <2>4, <2>6, <2>7 DEF With
  <1> QED
      BY <1>7, <1>8, <1>9

\* They touch the block the search passed last: it takes them, unless it is gone.
LEMMA ExtendHeap ==
    ASSUME HeapOK(free, free_end, spare, blocks, vend), NEW n \in Nat, NEW f, ExtendLast(f, n),
           PrevNow(f) # None, PrevNow(f).base + PrevNow(f).size = vend, vend' = vend + n
    PROVE  /\ HeapOK(free', free_end', spare', blocks', vend')
           /\ Structs(free', spare') = Structs(free, spare) /\ DOMAIN blocks' = DOMAIN blocks
  <1>1. free_end' = free_end /\ spare' = spare /\ blocks' = blocks
      BY DEF ExtendLast
  <1>2. free \in Seq(Entry)
      BY DEF HeapOK, ListOK
  <1>3. CASE ~InList(f.prev.at)
    <2>1. free' = free
        BY <1>3 DEF ExtendLast
    <2>2. HeapOK(free, free_end, spare, blocks, vend + n)
        BY SpaceGrows
    <2> QED
        BY <1>1, <2>1, <2>2
  <1>4. CASE InList(f.prev.at)
    <2>1. PICK i \in 1..Len(free) : i = IndexOf(f.prev.at)
        BY <1>4 DEF InList, IndexOf
    <2>2. f.prev # None /\ PrevNow(f) = free[i]
        BY <1>4, <2>1 DEF PrevNow
    <2>3. free[i].base + free[i].size = vend
        BY <2>2
    <2>4. PICK g : g = [free[i] EXCEPT !.size = free[i].size + n]
        OBVIOUS
    <2>5. free' = [free EXCEPT ![i].size = @ + n]
        BY <1>4, <2>1 DEF ExtendLast
    <2>6. free' = Replaced(free, i, g)
        BY <1>2, <2>1, <2>4, <2>5, GrownList DEF Replaced
    <2>7. PICK r : r = free' /\ r = Replaced(free, i, g)
        BY <2>6
    <2>8. HeapOK(r, free_end, spare, blocks, vend + n) /\ Structs(r, spare) = Structs(free, spare)
        BY <2>1, <2>3, <2>4, <2>7, LastGrows
    <2> QED
        BY <1>1, <2>7, <2>8
  <1> QED
      BY <1>3, <1>4

LEMMA InstallStep ==
    ASSUME KMemInv, UsedInv, Install
    PROVE  KMemInv'
  <1>1. /\ HeapOK(free, free_end, spare, blocks, vend) /\ StackOK(stack) /\ RetOK(stack, ret)
        /\ Structs(free, spare) \subseteq DOMAIN blocks
      BY DEF KMemInv, OwnOK
  <1>2. stack # <<>> /\ Top = stack[1] /\ Top \in MallocFrames /\ Top.step = "grown"
      BY <1>1, TopFacts, FrameKinds DEF Install
  <1>3. PICK c \in Int : c = ret[1].count /\ c >= 1
    <2>1. ret \in Seq(Run) /\ Len(ret) = 1 /\ ret[1].count >= 1
        BY <1>1, <1>2, WantsFacts DEF RetOK, Install
    <2>2. ret[1] \in Run
        BY <2>1
    <2>3. ret[1].count \in Int
        BY <2>2 DEF Run
    <2> QED
        BY <2>1, <2>3
  <1>4. PICK n : n = c * PageWords
      OBVIOUS
  <1>5. /\ n \in Nat /\ Header + FreeStruct \in Nat /\ Header + FreeStruct > Header
        /\ (Header + FreeStruct) + Header < n
      BY <1>3, <1>4, WordsGot
  <1>6. vend' = vend + n
      BY <1>3, <1>4 DEF Install
  <1>7. PICK g : g = [Top EXCEPT !.step = "try", !.prev = None]
      OBVIOUS
  <1>8. g \in MallocFrames /\ g.step = "try"
      BY <1>2, <1>7 DEF MallocFrames
  <1>9. stack' = Resumed(g, stack)
      BY <1>7 DEF Install, Resumed
  <1>10. /\ RunsSame /\ used_start' = <<ret[1]>> \o used_start
         /\ Len(ret) = 1 /\ ret[1] \in Run
    <2>1. ret \in Seq(Run) /\ Len(ret) = 1
        BY <1>1, <1>2, WantsFacts DEF RetOK, Install
    <2>2. ret[1] \in Run
        BY <2>1
    <2>3. RunsSame /\ used_start' = <<ret[1]>> \o used_start
        BY DEF Install, pageVars, RunsSame
    <2> QED
        BY <2>1, <2>2, <2>3
  <1>11. CASE PrevNow(Top) # None /\ PrevNow(Top).base + PrevNow(Top).size = vend
    <2>1. ExtendLast(Top, n)
        BY <1>3, <1>4, <1>11 DEF Install
    <2>2. /\ HeapOK(free', free_end', spare', blocks', vend')
          /\ Structs(free', spare') = Structs(free, spare) /\ DOMAIN blocks' = DOMAIN blocks
        BY <1>1, <1>5, <1>6, <1>11, <2>1, ExtendHeap
    <2> QED
        BY <1>2, <1>8, <1>9, <1>10, <2>2, InstallOwned
  <1>12. CASE ~(PrevNow(Top) # None /\ PrevNow(Top).base + PrevNow(Top).size = vend)
    <2>1. AppendBlock(n)
        BY <1>3, <1>4, <1>12 DEF Install
    <2>2. /\ HeapOK(free', free_end', spare', blocks', vend')
          /\ Structs(free', spare') = Structs(free, spare) \cup {vend}
          /\ DOMAIN blocks' = DOMAIN blocks \cup {vend} /\ vend \notin DOMAIN blocks
        BY <1>1, <1>5, <1>6, <2>1, AppendHeap
    <2> QED
        BY <1>2, <1>8, <1>9, <1>10, <2>2, InstallOwned
  <1> QED
      BY <1>11, <1>12

-----------------------------------------------------------------------------
(* The steps of page::alloc                                                *)

\* The struct x of a run was kmalloced, or was one of the free runs' P, which are P2 now.
Moved(x, P, R, P2) == (R = {x} /\ P2 = P) \/ (R = {} /\ x \in P /\ P2 = P \ {x})

LEMMA OwnMoved ==
    ASSUME NEW U, NEW Q, NEW P, NEW D, NEW K, NEW R, NEW B, OwnOK(U, Q, P, D, K, R, B),
           NEW x, NEW P2, Moved(x, P, R, P2)
    PROVE  x \notin K /\ OwnOK(U, Q, P2, D, K \cup {x}, {}, B)
  <1>1. CASE R = {x} /\ P2 = P
      BY <1>1 DEF OwnOK
  <1>2. CASE R = {} /\ x \in P /\ P2 = P \ {x}
      BY <1>2 DEF OwnOK
  <1> QED
      BY <1>1, <1>2 DEF Moved

\* page::alloc has found the run.
Found(f, run) == [f EXCEPT !.step = "chain", !.page = <<run>>]

LEMMA FoundFrame ==
    ASSUME NEW f \in AskingFrames, NEW run \in Run, NEW g, g = Found(f, run)
    PROVE  /\ g \in Frames /\ g.fn = "page_alloc" /\ g.step = "chain" /\ Holds(g) = run.at
           /\ Gives(g) = Gives(f) /\ g.nolock = f.nolock /\ Holds(f) = None /\ Wants(g) = "runs"
  <1>1. <<run>> \in OneRun
      BY DEF OneRun
  <1>2. /\ g \in FoundFrames /\ g.fn = "page_alloc" /\ g.step = "chain" /\ g.page = <<run>>
        /\ g.nolock = f.nolock /\ f.fn = "page_alloc"
      BY <1>1 DEF Found, AskingFrames, FoundFrames
  <1>3. f.step # "chain"
      BY DEF AskingFrames
  <1>4. g.page[1] = run
      BY <1>2
  <1> QED
      BY <1>2, <1>3, <1>4, HoldsFacts, GivesFacts, WantsFacts DEF Frames

LEMMA FoundOwned ==
    ASSUME KMemInv, HeapSame, user' = user, held' = held, stack # <<>>, stack[1] \in AskingFrames,
           NEW run \in Run, stack' = Resumed(Found(stack[1], run), stack),
           Moved(run.at, PageStructs(page_free), Returned(stack, ret), PageStructs(page_free')),
           PagesOK(page_free', held'), RegionOK(alloc_pointer', current_map')
    PROVE  KMemInv'
  <1>1. /\ HeapOK(free, free_end, spare, blocks, vend) /\ StackOK(stack)
        /\ OwnOK(user, Structs(free, spare), PageStructs(page_free), Kept(held, used_start),
                 InHand(stack), Returned(stack, ret), DOMAIN blocks)
      BY DEF KMemInv
  <1>2. PICK g : g = Found(stack[1], run)
      OBVIOUS
  <1>3. /\ g \in Frames /\ g.fn = "page_alloc" /\ g.step = "chain" /\ Holds(g) = run.at
        /\ Gives(g) = Gives(stack[1]) /\ g.nolock = stack[1].nolock /\ Holds(stack[1]) = None
        /\ Wants(g) = "runs"
      BY <1>2, FoundFrame
  <1>4. run.at \in Nat /\ run.at # None
      BY SizesAssumption DEF Run
  <1>5. /\ run.at \notin InHand(stack)
        /\ OwnOK(user, Structs(free, spare), PageStructs(page_free'), Kept(held, used_start),
                 InHand(stack) \cup {run.at}, {}, DOMAIN blocks)
      BY <1>1, OwnMoved
  <1>6. PICK t : t = stack' /\ t = Resumed(g, stack)
      BY <1>2
  <1>7. Continues(g, stack)
      BY <1>3 DEF Continues
  <1>8. StackOK(t) /\ t # <<>> /\ t[1] = g /\ InHand(t) = InHand(stack) \cup {Holds(g)}
      BY <1>1, <1>3, <1>4, <1>5, <1>6, <1>7, StackPicksUp
  <1>9. RetOK(t, ret') /\ Returned(t, ret') = {}
      BY <1>3, <1>8 DEF RetOK, Returned
  <1>10. InHand(stack') = InHand(stack) \cup {run.at}
      BY <1>3, <1>6, <1>8
  <1>11. OwnOK(user', Structs(free', spare'), PageStructs(page_free'), Kept(held', used_start'),
               InHand(stack'), Returned(stack', ret'), DOMAIN blocks')
      BY <1>5, <1>6, <1>9, <1>10 DEF HeapSame
  <1>12. HeapOK(free', free_end', spare', blocks', vend')
      BY <1>1 DEF HeapSame
  <1> QED
      BY <1>6, <1>8, <1>9, <1>11, <1>12, InvAfter

\* A list of runs with one of them changed.
Changed(l, i, g, r) ==
    /\ r \in Seq(Run) /\ Len(r) = Len(l)
    /\ \A j \in 1..Len(l) : r[j] = IF j = i THEN g ELSE l[j]

LEMMA ReplacedRun ==
    ASSUME NEW l \in Seq(Run), NEW i \in 1..Len(l), NEW g \in Run, NEW r, r = Replaced(l, i, g)
    PROVE  Changed(l, i, g, r)
  BY DEF Replaced, Changed

\* The first of them is shorter, and has its struct.
Shorter(l, n) == [l EXCEPT ![1].base = @ + n, ![1].count = (@ - n) % Wrap]

LEMMA FirstShrinks ==
    ASSUME NEW l \in Seq(Run), l # <<>>, NEW n \in Int,
           NEW r, r = Shorter(l, n)
    PROVE  /\ r \in Seq(Run) /\ Len(r) = Len(l) /\ \A j \in 1..Len(l) : r[j].at = l[j].at
  <1>1. PICK k \in Nat : k = Len(l) /\ k >= 1
      OBVIOUS
  <1>2. l[1] \in Run /\ 1 \in DOMAIN l
      BY <1>1
  <1>3. PICK b \in Int, c \in Int : b = l[1].base /\ c = l[1].count
      BY <1>2 DEF Run
  <1>4. b + n \in Int /\ (c - n) % Wrap \in Int
      BY <1>3 DEF Wrap
  <1>5. PICK g : g = [[l[1] EXCEPT !.base = b + n] EXCEPT !.count = (c - n) % Wrap]
      OBVIOUS
  <1>6. g \in Run /\ g.at = l[1].at
      BY <1>2, <1>4, <1>5 DEF Run
  <1>7. r = Replaced(l, 1, g)
    <2>1. PICK q : q = [l EXCEPT ![1].base = @ + n]
        OBVIOUS
    <2>2. q[1] = [l[1] EXCEPT !.base = b + n]
        BY <1>2, <1>3, <2>1
    <2>3. r = [q EXCEPT ![1].count = (@ - n) % Wrap]
        BY <2>1 DEF Shorter
    <2>4. q[1].count = c
        BY <1>2, <1>3, <2>2 DEF Run
    <2> QED
        BY <1>2, <1>5, <2>1, <2>2, <2>3, <2>4 DEF Replaced
  <1>8. 1 \in 1..Len(l)
      BY <1>1
  <1>9. Changed(l, 1, g, r)
      BY <1>6, <1>7, <1>8, ReplacedRun
  <1> QED
      BY <1>6, <1>9 DEF Changed

\* Runs that keep their structs.
LEMMA SameStructs ==
    ASSUME NEW l, NEW h, PagesOK(l, h), NEW r \in Seq(Run), Len(r) = Len(l),
           \A j \in 1..Len(l) : r[j].at = l[j].at
    PROVE  PagesOK(r, h) /\ PageStructs(r) = PageStructs(l)
  <1>1. PagesOK(r, h)
      BY DEF PagesOK
  <1>2. PageStructs(r) = PageStructs(l)
      BY DEF PageStructs
  <1> QED
      BY <1>1, <1>2

LEMMA PageSplitStep ==
    ASSUME KMemInv, PageSplit
    PROVE  KMemInv'
  <1>1. /\ StackOK(stack) /\ RetOK(stack, ret) /\ PagesOK(page_free, held)
        /\ RegionOK(alloc_pointer, current_map)
      BY DEF KMemInv
  <1>2. stack # <<>> /\ Top = stack[1] /\ Top \in AskingFrames /\ Top.step = "split"
      BY <1>1, TopFacts, FrameKinds DEF PageSplit
  <1>3. ret \in Nat /\ Returned(stack, ret) = {ret}
      BY <1>1, <1>2, WantsFacts DEF RetOK, Returned
  <1>4. page_free \in Seq(Run) /\ page_free # <<>>
      BY <1>1 DEF PagesOK, PageSplit
  <1>5. PICK n \in Int : n = Top.count
      BY <1>2 DEF AskingFrames
  <1>6. PICK r : r = page_free' /\ r = Shorter(page_free, n)
      BY <1>5 DEF PageSplit, Shorter
  <1>7. r \in Seq(Run) /\ Len(r) = Len(page_free) /\ \A j \in 1..Len(page_free) : r[j].at = page_free[j].at
      BY <1>4, <1>6, FirstShrinks
  <1>8. PagesOK(r, held) /\ PageStructs(r) = PageStructs(page_free)
      BY <1>1, <1>7, SameStructs
  <1>9. page_free[1] \in Run
      BY <1>4
  <1>10. PICK run : run = [at |-> ret, base |-> page_free[1].base, count |-> n]
      OBVIOUS
  <1>11. run \in Run /\ run.at = ret
      BY <1>3, <1>9, <1>10 DEF Run
  <1>12. stack' = Resumed(Found(stack[1], run), stack)
      BY <1>2, <1>5, <1>10 DEF PageSplit, Resumed, Found
  <1>13. Moved(run.at, PageStructs(page_free), Returned(stack, ret), PageStructs(page_free'))
      BY <1>3, <1>6, <1>8, <1>11 DEF Moved
  <1>14. HeapSame /\ user' = user /\ held' = held
      BY DEF PageSplit, heapVars, HeapSame
  <1>15. PagesOK(page_free', held') /\ RegionOK(alloc_pointer', current_map')
      BY <1>1, <1>6, <1>8, <1>14 DEF PageSplit
  <1> QED
      BY <1>2, <1>11, <1>12, <1>13, <1>14, <1>15, FoundOwned

\* The runs without the first.
LEMMA TailRuns ==
    ASSUME NEW l, NEW h, PagesOK(l, h), l # <<>>, NEW r, r = Tail(l)
    PROVE  PagesOK(r, h) /\ l[1] \in Run /\ l[1].at \in PageStructs(l)
           /\ PageStructs(r) = PageStructs(l) \ {l[1].at}
  <1>1. l \in Seq(Run)
      BY DEF PagesOK
  <1>2. PICK n \in Nat : n = Len(l) /\ n >= 1
      BY <1>1
  <1>3. r \in Seq(Run) /\ Len(r) = n - 1 /\ \A j \in 1..(n - 1) : r[j] = l[j + 1]
      BY <1>1, <1>2
  <1>4. \A j \in 1..(n - 1) : j + 1 \in 1..n /\ j + 1 # 1
      BY <1>2
  <1>5. \A i, j \in 1..n : l[i].at = l[j].at => i = j
      BY <1>2 DEF PagesOK
  <1>6. ASSUME NEW i \in 1..(n - 1), NEW j \in 1..(n - 1), r[i].at = r[j].at PROVE i = j
    <2>1. i + 1 = j + 1
        BY <1>3, <1>4, <1>5, <1>6
    <2> QED
        BY <2>1
  <1>7. PagesOK(r, h)
      BY <1>3, <1>6 DEF PagesOK
  <1>8. 1 \in 1..n /\ l[1] \in Run
      BY <1>1, <1>2
  <1>9. l[1].at \in PageStructs(l)
      BY <1>2, <1>8 DEF PageStructs
  <1>10. PageStructs(r) \subseteq PageStructs(l) \ {l[1].at}
    <2>1. ASSUME NEW j \in 1..(n - 1) PROVE r[j].at \in PageStructs(l) /\ r[j].at # l[1].at
      <3>1. j + 1 \in 1..n /\ j + 1 # 1 /\ r[j].at = l[j + 1].at
          BY <1>3, <1>4
      <3> QED
          BY <1>2, <1>5, <1>8, <3>1 DEF PageStructs
    <2> QED
        BY <1>3, <2>1 DEF PageStructs
  <1>11. PageStructs(l) \ {l[1].at} \subseteq PageStructs(r)
    <2>1. ASSUME NEW j \in 1..n, j # 1 PROVE l[j].at \in PageStructs(r)
      <3>1. j - 1 \in 1..(n - 1) /\ (j - 1) + 1 = j
          BY <1>2, <2>1
      <3>2. l[j].at = r[j - 1].at
          BY <1>3, <3>1
      <3> QED
          BY <1>3, <3>1, <3>2 DEF PageStructs
    <2> QED
        BY <1>2, <2>1 DEF PageStructs
  <1> QED
      BY <1>7, <1>8, <1>9, <1>10, <1>11

LEMMA PageTakeStep ==
    ASSUME KMemInv, PageTake
    PROVE  KMemInv'
  <1>1. StackOK(stack) /\ PagesOK(page_free, held) /\ RegionOK(alloc_pointer, current_map)
      BY DEF KMemInv
  <1>2. stack # <<>> /\ Top = stack[1] /\ Top \in AskingFrames /\ Top.step = "start"
      BY <1>1, TopFacts, FrameKinds DEF PageTake
  <1>3. Returned(stack, ret) = {}
      BY <1>2, WantsFacts DEF Returned
  <1>4. PICK r : r = page_free' /\ r = Tail(page_free)
      BY DEF PageTake
  <1>5. page_free # <<>>
      BY DEF PageTake
  <1>6. /\ PagesOK(r, held) /\ page_free[1] \in Run /\ page_free[1].at \in PageStructs(page_free)
        /\ PageStructs(r) = PageStructs(page_free) \ {page_free[1].at}
      BY <1>1, <1>4, <1>5, TailRuns
  <1>7. stack' = Resumed(Found(stack[1], page_free[1]), stack)
      BY <1>2 DEF PageTake, Resumed, Found
  <1>8. Moved(page_free[1].at, PageStructs(page_free), Returned(stack, ret), PageStructs(page_free'))
      BY <1>3, <1>4, <1>6 DEF Moved
  <1>9. HeapSame /\ user' = user /\ held' = held
      BY DEF PageTake, heapVars, HeapSame
  <1>10. PagesOK(page_free', held') /\ RegionOK(alloc_pointer', current_map')
      BY <1>1, <1>4, <1>6, <1>9 DEF PageTake
  <1> QED
      BY <1>2, <1>6, <1>7, <1>8, <1>9, <1>10, FoundOwned

LEMMA Elements ==
    ASSUME NEW S, NEW s \in Seq(S)
    PROVE  \A i \in 1..Len(s) : s[i] \in S
  OBVIOUS

\* What the allocator takes of memory that was never used, and where it goes on.
LEMMA FreshFacts ==
    ASSUME RegionOK(alloc_pointer, current_map), NEW count \in Nat
    PROVE  /\ FreshCount(count) \in Int /\ RegionEnd \in Int
           /\ RegionsLeft # {} => Min(RegionsLeft) \in 1..Len(Regions)
           /\ \A i \in 1..Len(Regions) : Regions[i].base \in Int
  <1>1. PICK S : S = [base : Nat, length : Nat, usable : BOOLEAN] /\ Regions \in Seq(S)
      BY SizesAssumption
  <1>2. \A x \in S : x.base \in Nat /\ x.length \in Nat /\ x.base \in Int
      BY <1>1
  <1>3. \A i \in 1..Len(Regions) : Regions[i].base \in Nat /\ Regions[i].length \in Nat
                                   /\ Regions[i].base \in Int
    <2>1. Regions \in Seq(S)
        BY <1>1
    <2>2. \A i \in 1..Len(Regions) : Regions[i] \in S
        BY <2>1, Elements
    <2> QED
        BY <1>2, <2>2
  <1>4. alloc_pointer \in Int /\ current_map \in 1..Len(Regions) /\ current_map \in Nat
      BY DEF RegionOK
  <1>5. RegionEnd \in Int
      BY <1>3, <1>4 DEF RegionEnd
  <1>6. FreshCount(count) \in Int
      BY <1>4, <1>5 DEF FreshCount
  <1>7. RegionsLeft \subseteq Nat /\ RegionsLeft \subseteq 1..Len(Regions)
      BY <1>1, <1>4 DEF RegionsLeft
  <1>8. RegionsLeft # {} => Min(RegionsLeft) \in RegionsLeft
      BY <1>7, LeastNumber
  <1> QED
      BY <1>3, <1>5, <1>6, <1>7, <1>8

LEMMA PageFreshStep ==
    ASSUME KMemInv, PageFresh
    PROVE  KMemInv'
  <1>1. /\ StackOK(stack) /\ RetOK(stack, ret) /\ PagesOK(page_free, held)
        /\ RegionOK(alloc_pointer, current_map)
      BY DEF KMemInv
  <1>2. stack # <<>> /\ Top = stack[1] /\ Top \in AskingFrames /\ Top.step = "fresh"
      BY <1>1, TopFacts, FrameKinds DEF PageFresh
  <1>3. ret \in Nat /\ Returned(stack, ret) = {ret}
      BY <1>1, <1>2, WantsFacts DEF RetOK, Returned
  <1>4. Top.count \in Nat
      BY <1>2 DEF AskingFrames
  <1>5. /\ FreshCount(Top.count) \in Int /\ RegionEnd \in Int
        /\ RegionsLeft # {} => Min(RegionsLeft) \in 1..Len(Regions)
        /\ \A i \in 1..Len(Regions) : Regions[i].base \in Int
      BY <1>1, <1>4, FreshFacts
  <1>6. PICK n \in Int : n = FreshCount(Top.count)
      BY <1>5
  <1>7. PICK skip \in BOOLEAN : skip = (alloc_pointer + n = RegionEnd)
      OBVIOUS
  <1>8. /\ skip => RegionsLeft # {}
        /\ current_map' = IF skip THEN Min(RegionsLeft) ELSE current_map
        /\ alloc_pointer' = IF skip THEN Regions[current_map'].base ELSE alloc_pointer + n
      BY <1>6, <1>7 DEF PageFresh
  <1>9. alloc_pointer \in Int /\ current_map \in 1..Len(Regions)
      BY <1>1 DEF RegionOK
  <1>10. RegionOK(alloc_pointer', current_map')
      BY <1>5, <1>6, <1>8, <1>9 DEF RegionOK
  <1>11. PICK run : run = [at |-> ret, base |-> alloc_pointer, count |-> n]
      OBVIOUS
  <1>12. run \in Run /\ run.at = ret
      BY <1>3, <1>9, <1>11 DEF Run
  <1>13. stack' = Resumed(Found(stack[1], run), stack)
      BY <1>2, <1>6, <1>11 DEF PageFresh, Resumed, Found
  <1>14. HeapSame /\ user' = user /\ held' = held /\ page_free' = page_free
      BY DEF PageFresh, heapVars, HeapSame
  <1>15. Moved(run.at, PageStructs(page_free), Returned(stack, ret), PageStructs(page_free'))
      BY <1>3, <1>12, <1>14 DEF Moved
  <1>16. PagesOK(page_free', held')
      BY <1>1, <1>14
  <1> QED
      BY <1>2, <1>10, <1>12, <1>13, <1>14, <1>15, <1>16, FoundOwned

\* A chain goes to the call that waits for it, and its struct with it.
LEMMA ReturnChain ==
    ASSUME StackOK(stack), stack # <<>>, stack[1].fn = "page_alloc", Tail(stack) # <<>>,
           NEW v \in Seq(Run), v # <<>>, Len(v) = 1 => v[1].count >= 1, Return(v)
    PROVE  /\ StackOK(stack') /\ RetOK(stack', ret')
           /\ Returned(stack', ret') = IF Len(v) = 1 THEN {v[1].at} ELSE {}
           /\ InHand(stack') = InHand(stack) \ {Holds(stack[1])}
           /\ user' = user /\ held' = held
  <1>1. Gives(stack[1]) = "chain"
      BY GivesFacts
  <1>2. PICK t : t = Tail(stack) /\ t = stack' /\ t # <<>>
      BY DEF Return
  <1>3. /\ StackOK(t) /\ InHand(t) = InHand(stack) \ {Holds(stack[1])}
        /\ Len(stack) = 1 <=> t = <<>>
        /\ t # <<>> => Wants(t[1]) = Gives(stack[1])
      BY <1>2, StackPop
  <1>4. ret' = v /\ user' = user /\ held' = held
      BY <1>2, <1>3 DEF Return
  <1>5. Wants(t[1]) = "chain"
      BY <1>1, <1>2, <1>3
  <1>6. RetOK(t, ret') /\ Returned(t, ret') = IF Len(v) = 1 THEN {v[1].at} ELSE {}
      BY <1>2, <1>4, <1>5 DEF RetOK, Returned
  <1> QED
      BY <1>2, <1>3, <1>4, <1>6

\* A run goes to the caller outside.
LEMMA OwnDelivered ==
    ASSUME NEW U, NEW Q, NEW P, NEW D, NEW K, NEW R, NEW B, OwnOK(U, Q, P, D, K, R, B), NEW x \in K
    PROVE  x \notin D /\ OwnOK(U, Q, P, D \cup {x}, K \ {x}, {}, B)
  BY DEF OwnOK

\* A run goes to the call that asked for it, which waited for nothing else.
LEMMA OwnReturned ==
    ASSUME NEW U, NEW Q, NEW P, NEW D, NEW K, NEW R, NEW B, OwnOK(U, Q, P, D, K, R, B), NEW x \in K
    PROVE  OwnOK(U, Q, P, D, K \ {x}, {x}, B)
  BY DEF OwnOK

LEMMA HeldMore ==
    ASSUME NEW l, NEW h, NEW u, PagesOK(l, h), NEW c \in OneRun, c[1].at \notin Kept(h, u),
           NEW g, g = h \cup {c}
    PROVE  PagesOK(l, g) /\ Kept(g, u) = Kept(h, u) \cup {c[1].at}
  <1>1. PagesOK(l, g)
      BY DEF PagesOK, HeldStructs, Kept
  <1>2. HeldStructs(g) = HeldStructs(h) \cup {c[1].at}
      BY DEF HeldStructs
  <1> QED
      BY <1>1, <1>2 DEF Kept

LEMMA PageDoneStep ==
    ASSUME KMemInv, PageDone
    PROVE  KMemInv'
  <1>1. /\ HeapOK(free, free_end, spare, blocks, vend) /\ StackOK(stack)
        /\ PagesOK(page_free, held) /\ RegionOK(alloc_pointer, current_map)
        /\ OwnOK(user, Structs(free, spare), PageStructs(page_free), Kept(held, used_start),
                 InHand(stack), Returned(stack, ret), DOMAIN blocks)
      BY DEF KMemInv
  <1>2. /\ stack # <<>> /\ Top = stack[1] /\ Top \in FoundFrames /\ Top.fn = "page_alloc"
        /\ Top.step = "chain"
      BY <1>1, TopFacts, FrameKinds DEF PageDone
  <1>3. Top.page \in OneRun /\ Top.count \in Nat \ {0}
      BY <1>2 DEF FoundFrames
  <1>4. PICK c \in OneRun : c = Top.page
      BY <1>3
  <1>5. c \in Seq(Run) /\ Len(c) = 1
      BY <1>4 DEF OneRun
  <1>6. c[1] \in Run /\ c # <<>>
      BY <1>5
  <1>7. c[1].at \in Nat /\ c[1].count \in Int
      BY <1>6 DEF Run
  <1>8. c[1].count >= 1
    <2>1. c[1].count >= Top.count
        BY <1>4 DEF PageDone
    <2> QED
        BY <1>3, <1>7, <2>1
  <1>9. Holds(stack[1]) = c[1].at /\ c[1].at # None
      BY <1>2, <1>4, <1>7, HoldsFacts, SizesAssumption
  <1>10. c[1].at \in InHand(stack)
      BY <1>1, <1>2, <1>9, TopHolds
  <1>11. HeapSame /\ UNCHANGED <<page_free, alloc_pointer, current_map>> /\ Return(c)
      BY <1>4 DEF PageDone, heapVars, pageVars, HeapSame
  <1>12. CASE Tail(stack) # <<>>
    <2>1. /\ StackOK(stack') /\ RetOK(stack', ret') /\ Returned(stack', ret') = {c[1].at}
          /\ InHand(stack') = InHand(stack) \ {Holds(stack[1])}
          /\ user' = user /\ held' = held
        BY <1>1, <1>2, <1>5, <1>6, <1>8, <1>11, <1>12, ReturnChain
    <2>2. PICK x : x = c[1].at
        OBVIOUS
    <2>3. OwnOK(user, Structs(free, spare), PageStructs(page_free), Kept(held, used_start),
                InHand(stack) \ {x}, {x}, DOMAIN blocks)
        BY <1>1, <1>10, <2>2, OwnReturned
    <2>4. OwnOK(user', Structs(free', spare'), PageStructs(page_free'), Kept(held', used_start'),
                InHand(stack'), Returned(stack', ret'), DOMAIN blocks')
        BY <1>9, <1>11, <2>1, <2>2, <2>3 DEF HeapSame
    <2>5. /\ HeapOK(free', free_end', spare', blocks', vend')
          /\ PagesOK(page_free', held') /\ RegionOK(alloc_pointer', current_map')
        BY <1>1, <1>11, <2>1 DEF HeapSame
    <2> QED
        BY <2>1, <2>4, <2>5, InvAfter
  <1>13. CASE Tail(stack) = <<>>
    <2>1. Len(stack) = 1
        BY <1>1, <1>2, <1>13, StackPop
    <2>2. stack' = <<>> /\ ret' = None /\ held' = held \cup {c} /\ user' = user
        BY <1>2, <1>11, <1>13, <2>1 DEF Return, Deliver
    <2>3. InHand(stack) \ {c[1].at} = {}
        BY <1>1, <1>2, <1>9, <1>13, StackPop, StackEmpty
    <2>4. PICK x : x = c[1].at
        OBVIOUS
    <2>5. /\ x \notin Kept(held, used_start)
          /\ OwnOK(user, Structs(free, spare), PageStructs(page_free), Kept(held, used_start) \cup {x},
                   InHand(stack) \ {x}, {}, DOMAIN blocks)
        BY <1>1, <1>10, <2>4, OwnDelivered
    <2>6. PICK g : g = held' /\ g = held \cup {c}
        BY <2>2
    <2>7. PagesOK(page_free, g) /\ Kept(g, used_start) = Kept(held, used_start) \cup {c[1].at}
        BY <1>1, <1>4, <2>4, <2>5, <2>6, HeldMore
    <2>8. InHand(stack') = {} /\ Returned(stack', ret') = {} /\ StackOK(stack') /\ RetOK(stack', ret')
        BY <2>2, StackEmpty
    <2>9. OwnOK(user, Structs(free, spare), PageStructs(page_free), Kept(g, used_start), {}, {},
                DOMAIN blocks)
        BY <2>3, <2>4, <2>5, <2>7
    <2>10. OwnOK(user', Structs(free', spare'), PageStructs(page_free'), Kept(held', used_start'),
                 InHand(stack'), Returned(stack', ret'), DOMAIN blocks')
        BY <1>11, <2>2, <2>6, <2>8, <2>9 DEF HeapSame
    <2>11. /\ HeapOK(free', free_end', spare', blocks', vend')
           /\ PagesOK(page_free', held') /\ RegionOK(alloc_pointer', current_map')
        BY <1>1, <1>11, <2>6, <2>7 DEF HeapSame
    <2> QED
        BY <2>8, <2>10, <2>11, InvAfter
  <1> QED
      BY <1>12, <1>13

LEMMA JoinedLength ==
    ASSUME NEW S, NEW a \in Seq(S), NEW b \in Seq(S)
    PROVE  a \o b \in Seq(S) /\ Len(a \o b) = Len(a) + Len(b)
  OBVIOUS

\* A chain of two parts is longer than one run.
LEMMA ChainJoined ==
    ASSUME NEW S, NEW a \in Seq(S), Len(a) = 1, NEW b \in Seq(S), b # <<>>, NEW v, v = a \o b
    PROVE  v \in Seq(S) /\ v # <<>> /\ Len(v) # 1
  <1>1. Len(b) \in Nat /\ Len(b) > 0
      OBVIOUS
  <1>2. a \o b \in Seq(S)
      OBVIOUS
  <1>3. Len(a \o b) = Len(a) + Len(b)
      BY JoinedLength
  <1>4. Len(v) > 1
      BY <1>1, <1>3
  <1> QED
      BY <1>1, <1>2, <1>4

LEMMA PageJoinStep ==
    ASSUME KMemInv, PageJoin
    PROVE  KMemInv'
  <1>1. StackOK(stack) /\ RetOK(stack, ret)
      BY DEF KMemInv
  <1>2. /\ stack # <<>> /\ Top = stack[1] /\ Top \in JoinFrames /\ Top.fn = "page_alloc"
        /\ Top.step = "joined"
      BY <1>1, TopFacts, FrameKinds DEF PageJoin
  <1>3. Tail(stack) # <<>>
    <2>1. Top.nolock = TRUE
        BY <1>2 DEF JoinFrames
    <2>2. Len(stack) # 1
        BY <1>1, <1>2, <2>1 DEF StackOK
    <2> QED
        BY <1>1, <1>2, <2>2, StackPop
  <1>4. PICK a : a = Top.page /\ a \in Seq(Run) /\ Len(a) = 1
      BY <1>2 DEF JoinFrames, OneRun
  <1>5. ret \in Seq(Run) /\ ret # <<>>
      BY <1>1, <1>2, WantsFacts DEF RetOK
  <1>6. PICK v : v = a \o ret
      OBVIOUS
  <1>7. v \in Seq(Run) /\ v # <<>> /\ Len(v) # 1
    <2>1. a \in Seq(Run) /\ Len(a) = 1
        BY <1>4
    <2> QED
        BY <1>5, <1>6, <2>1, ChainJoined
  <1>8. HeapSame /\ UNCHANGED <<page_free, alloc_pointer, current_map>> /\ Return(v)
      BY <1>4, <1>6 DEF PageJoin, heapVars, pageVars, HeapSame
  <1>10. /\ StackOK(stack') /\ RetOK(stack', ret') /\ Returned(stack', ret') = {}
         /\ InHand(stack') = InHand(stack) \ {Holds(stack[1])}
         /\ user' = user /\ held' = held
      BY <1>1, <1>2, <1>3, <1>7, <1>8, ReturnChain
  <1>11. RunsSame
      BY <1>8, <1>10 DEF RunsSame
  <1> QED
      BY <1>8, <1>10, <1>11, CallsGoOn

LEMMA PageRestStep ==
    ASSUME KMemInv, PageRest
    PROVE  KMemInv'
  <1>1. StackOK(stack)
      BY DEF KMemInv
  <1>2. /\ stack # <<>> /\ Top = stack[1] /\ Top \in FoundFrames /\ Top.fn = "page_alloc"
        /\ Top.step = "chain" /\ Top.nolock = TRUE
    <2>1. /\ stack # <<>> /\ Top = stack[1] /\ Top \in FoundFrames /\ Top.fn = "page_alloc"
          /\ Top.step = "chain"
        BY <1>1, TopFacts, FrameKinds DEF PageRest
    <2>2. Top.nolock \in BOOLEAN
        BY <2>1 DEF FoundFrames
    <2> QED
        BY <2>1, <2>2 DEF PageRest
  <1>3. Top.page \in OneRun /\ Top.count \in Nat /\ Top.reserved \in BOOLEAN
      BY <1>2 DEF FoundFrames
  <1>4. Top.page[1] \in Run
      BY <1>3 DEF OneRun
  <1>5. PICK n \in Nat \ {0} : n = Top.count - Top.page[1].count
    <2>1. Top.page[1].count \in Int
        BY <1>4 DEF Run
    <2>2. Top.page[1].count < Top.count
        BY DEF PageRest
    <2> QED
        BY <1>3, <2>1, <2>2
  <1>6. PICK f : f = PageAlloc(n, Top.reserved, TRUE)
      OBVIOUS
  <1>7. f \in Frames /\ f.fn = "page_alloc" /\ f.step = "start"
      BY <1>3, <1>6, AllocFrame, ZenonT(60)
  <1>8. PICK g : g = [Top EXCEPT !.step = "joined"]
      OBVIOUS
  <1>9. g \in JoinFrames /\ g.fn = "page_alloc" /\ g.step = "joined" /\ g.nolock = TRUE
      BY <1>2, <1>8 DEF FoundFrames, JoinFrames
  <1>10. g \in Frames
      BY <1>9 DEF Frames
  <1>11. /\ Gives(f) = "chain" /\ Gives(g) = "chain" /\ Gives(stack[1]) = "chain"
         /\ Wants(g) = "chain" /\ Wants(f) = "runs"
      BY <1>2, <1>7, <1>9, GivesFacts, WantsFacts
  <1>12. Holds(f) = None /\ Holds(g) = None
    <2>1. f.step # "chain" /\ g.step # "chain"
        BY <1>7, <1>9
    <2> QED
        BY <1>7, <1>9, <2>1, HoldsFacts
  <1>13. Continues(g, stack) /\ Handed(f, g, stack)
      BY <1>2, <1>9, <1>11, <1>12 DEF Continues, Handed
  <1>14. PICK t : t = stack' /\ t = Called(f, g, stack)
      BY <1>5, <1>6, <1>8 DEF PageRest, Call, Called
  <1>15. Wants(g) = Gives(f)
      BY <1>11
  <1>16. /\ StackOK(t) /\ t # <<>> /\ t[1] = f
         /\ InHand(t) = (InHand(stack) \ {Holds(stack[1])}) \cup ({Holds(f), Holds(g)} \ {None})
      BY <1>1, <1>2, <1>7, <1>10, <1>13, <1>14, <1>15, StackPush
  <1>17. InHand(t) \subseteq InHand(stack)
      BY <1>12, <1>16
  <1>18. RetOK(t, ret') /\ Returned(t, ret') = {}
      BY <1>11, <1>16 DEF RetOK, Returned
  <1>19. HeapSame /\ RunsSame
      BY DEF PageRest, heapVars, pageVars, HeapSame, RunsSame
  <1> QED
      BY <1>14, <1>16, <1>17, <1>18, <1>19, CallsGoOn

-----------------------------------------------------------------------------
(* The steps of page::free                                                 *)

\* One more run.
LEMMA RunInserted ==
    ASSUME NEW l, NEW h, PagesOK(l, h), NEW p \in Run, p.at \notin PageStructs(l),
           NEW k \in 1..(Len(l) + 1), NEW r, r = InsertAt(l, k, p)
    PROVE  PagesOK(r, h) /\ PageStructs(r) = PageStructs(l) \cup {p.at}
  <1>1. l \in Seq(Run)
      BY DEF PagesOK
  <1>2. PICK n \in Nat : n = Len(l)
      BY <1>1
  <1>3. r \in Seq(Run) /\ Inserted(l, k, p, r)
      BY <1>1, InsertAtFacts
  <1>4. /\ Len(r) = n + 1 /\ k \in 1..(n + 1)
        /\ \A j \in 1..(n + 1) : r[j] = IF j < k THEN l[j] ELSE IF j = k THEN p ELSE l[j - 1]
      BY <1>2, <1>3 DEF Inserted
  <1>5. \A i, j \in 1..n : l[i].at = l[j].at => i = j
      BY <1>2 DEF PagesOK
  <1>6. \A j \in 1..n : l[j].at # p.at
      BY <1>2 DEF PageStructs
  <1>7. r[k] = p
      BY <1>4
  <1>8. ASSUME NEW j \in 1..(n + 1), j # k
        PROVE  \E i \in 1..n : r[j] = l[i] /\ ((j < k /\ i = j) \/ (k < j /\ i = j - 1))
    <2>1. CASE j < k
        BY <1>2, <1>4, <2>1
    <2>2. CASE k < j
      <3>1. j - 1 \in 1..n /\ r[j] = l[j - 1]
          BY <1>2, <1>4, <2>2
      <3> QED
          BY <2>2, <3>1
    <2> QED
        BY <1>4, <1>8, <2>1, <2>2
  <1>9. ASSUME NEW i \in 1..(n + 1), NEW j \in 1..(n + 1), r[i].at = r[j].at PROVE i = j
    <2>1. CASE i # k /\ j # k
      <3>1. PICK x \in 1..n : r[i] = l[x] /\ ((i < k /\ x = i) \/ (k < i /\ x = i - 1))
          BY <1>8, <2>1
      <3>2. PICK y \in 1..n : r[j] = l[y] /\ ((j < k /\ y = j) \/ (k < j /\ y = j - 1))
          BY <1>8, <2>1
      <3>3. x = y
          BY <1>5, <1>9, <3>1, <3>2
      <3> QED
          BY <1>2, <1>4, <3>1, <3>2, <3>3
    <2>2. CASE i = k /\ j # k
        BY <1>6, <1>7, <1>8, <1>9, <2>2
    <2>3. CASE i # k /\ j = k
        BY <1>6, <1>7, <1>8, <1>9, <2>3
    <2> QED
        BY <2>1, <2>2, <2>3
  <1>10. PagesOK(r, h)
      BY <1>3, <1>4, <1>9 DEF PagesOK
  <1>11. PageStructs(r) \subseteq PageStructs(l) \cup {p.at}
    <2>1. ASSUME NEW j \in 1..(n + 1) PROVE r[j].at \in PageStructs(l) \cup {p.at}
        BY <1>2, <1>7, <1>8 DEF PageStructs
    <2> QED
        BY <1>4, <2>1 DEF PageStructs
  <1>12. PageStructs(l) \subseteq PageStructs(r)
    <2>1. ASSUME NEW i \in 1..n PROVE l[i].at \in PageStructs(r)
      <3>1. CASE i < k
        <4>1. i \in 1..(n + 1) /\ r[i] = l[i]
            BY <1>2, <1>4, <3>1
        <4> QED
            BY <1>4, <4>1 DEF PageStructs
      <3>2. CASE k <= i
        <4>1. i + 1 \in 1..(n + 1) /\ ~(i + 1 < k) /\ i + 1 # k /\ (i + 1) - 1 = i
            BY <1>2, <1>4, <3>2
        <4>2. r[i + 1] = l[i]
            BY <1>4, <4>1
        <4> QED
            BY <1>4, <4>1, <4>2 DEF PageStructs
      <3> QED
          BY <1>4, <3>1, <3>2
    <2> QED
        BY <1>2, <2>1 DEF PageStructs
  <1>13. p.at \in PageStructs(r)
      BY <1>4, <1>7 DEF PageStructs
  <1> QED
      BY <1>10, <1>11, <1>12, <1>13

\* One run less: the struct of run i is not in the list any more.
Gone(l, i, r) ==
    /\ r \in Seq(Run) /\ Len(r) = Len(l) - 1
    /\ \A j \in 1..(Len(l) - 1) : r[j].at = IF j < i THEN l[j].at ELSE l[j + 1].at

LEMMA RunRemoved ==
    ASSUME NEW l, NEW h, PagesOK(l, h), NEW i \in 1..Len(l), NEW r, Gone(l, i, r)
    PROVE  PagesOK(r, h) /\ l[i].at \in PageStructs(l) /\ PageStructs(r) = PageStructs(l) \ {l[i].at}
  <1>1. l \in Seq(Run)
      BY DEF PagesOK
  <1>2. PICK n \in Nat : n = Len(l) /\ i \in 1..n
      BY <1>1
  <1>3. /\ r \in Seq(Run) /\ Len(r) = n - 1
        /\ \A j \in 1..(n - 1) : r[j].at = IF j < i THEN l[j].at ELSE l[j + 1].at
      BY <1>2 DEF Gone
  <1>4. \A x, y \in 1..n : l[x].at = l[y].at => x = y
      BY <1>2 DEF PagesOK
  <1>5. ASSUME NEW j \in 1..(n - 1)
        PROVE  \E x \in 1..n : /\ x # i /\ r[j].at = l[x].at
                               /\ (j < i /\ x = j) \/ (i <= j /\ x = j + 1)
    <2>1. CASE j < i
      <3>1. j \in 1..n /\ j # i /\ r[j].at = l[j].at
          BY <1>2, <1>3, <2>1
      <3> QED
          BY <2>1, <3>1
    <2>2. CASE i <= j
      <3>1. j + 1 \in 1..n /\ j + 1 # i /\ ~(j < i)
          BY <1>2, <2>2
      <3>2. r[j].at = l[j + 1].at
          BY <1>3, <3>1
      <3> QED
          BY <2>2, <3>1, <3>2
    <2> QED
        BY <1>2, <2>1, <2>2
  <1>6. ASSUME NEW a \in 1..(n - 1), NEW b \in 1..(n - 1), r[a].at = r[b].at PROVE a = b
    <2>1. PICK x \in 1..n : /\ r[a].at = l[x].at
                            /\ (a < i /\ x = a) \/ (i <= a /\ x = a + 1)
        BY <1>5
    <2>2. PICK y \in 1..n : /\ r[b].at = l[y].at
                            /\ (b < i /\ y = b) \/ (i <= b /\ y = b + 1)
        BY <1>5
    <2>3. x = y
        BY <1>4, <1>6, <2>1, <2>2
    <2> QED
        BY <1>2, <2>1, <2>2, <2>3
  <1>7. PagesOK(r, h)
      BY <1>3, <1>6 DEF PagesOK
  <1>8. l[i].at \in PageStructs(l)
      BY <1>2 DEF PageStructs
  <1>9. PageStructs(r) \subseteq PageStructs(l) \ {l[i].at}
    <2>1. ASSUME NEW j \in 1..(n - 1) PROVE r[j].at \in PageStructs(l) /\ r[j].at # l[i].at
      <3>1. PICK x \in 1..n : x # i /\ r[j].at = l[x].at
          BY <1>5
      <3> QED
          BY <1>2, <1>4, <3>1 DEF PageStructs
    <2> QED
        BY <1>3, <2>1 DEF PageStructs
  <1>10. PageStructs(l) \ {l[i].at} \subseteq PageStructs(r)
    <2>1. ASSUME NEW x \in 1..n, x # i PROVE l[x].at \in PageStructs(r)
      <3>1. CASE x < i
        <4>1. x \in 1..(n - 1) /\ r[x].at = l[x].at
            BY <1>2, <1>3, <3>1
        <4> QED
            BY <1>3, <4>1 DEF PageStructs
      <3>2. CASE i < x
        <4>1. x - 1 \in 1..(n - 1) /\ ~(x - 1 < i) /\ (x - 1) + 1 = x
            BY <1>2, <3>2
        <4>2. r[x - 1].at = l[x].at
            BY <1>3, <4>1
        <4> QED
            BY <1>3, <4>1, <4>2 DEF PageStructs
      <3> QED
          BY <1>2, <2>1, <3>1, <3>2
    <2> QED
        BY <1>2, <2>1 DEF PageStructs
  <1> QED
      BY <1>7, <1>8, <1>9, <1>10

\* page::free goes on to a step behind the first.
LEMMA FreeingFrame ==
    ASSUME NEW f \in PageFreeFrames, NEW g \in PageFreeFrames, g.step # "insert",
           NEW s, s[1] = f
    PROVE  g \in Frames /\ Continues(g, s) /\ Holds(g) = None /\ Gives(f) = "outermost"
  <1>1. f.fn = "page_free" /\ g.fn = "page_free"
      BY DEF PageFreeFrames
  <1>2. Gives(f) = "outermost" /\ Gives(g) = "outermost" /\ Holds(g) = None
      BY <1>1, GivesFacts, HoldsFacts
  <1> QED
      BY <1>1, <1>2 DEF Frames, Continues

\* The struct of a run that is freed goes to the list.
LEMMA OwnPutBack ==
    ASSUME NEW U, NEW Q, NEW P, NEW D, NEW K, NEW R, NEW B, OwnOK(U, Q, P, D, K, R, B), NEW x \in K
    PROVE  x \notin P /\ OwnOK(U, Q, P \cup {x}, D, K \ {x}, {}, B)
  BY DEF OwnOK

LEMMA PageInsertStep ==
    ASSUME KMemInv, PageInsert
    PROVE  KMemInv'
  <1>1. /\ HeapOK(free, free_end, spare, blocks, vend) /\ StackOK(stack)
        /\ PagesOK(page_free, held) /\ RegionOK(alloc_pointer, current_map)
        /\ OwnOK(user, Structs(free, spare), PageStructs(page_free), Kept(held, used_start),
                 InHand(stack), Returned(stack, ret), DOMAIN blocks)
      BY DEF KMemInv
  <1>2. /\ stack # <<>> /\ Top = stack[1] /\ Top \in PageFreeFrames /\ Top.fn = "page_free"
        /\ Top.step = "insert"
      BY <1>1, TopFacts, FrameKinds DEF PageInsert
  <1>3. PICK c : c = Top.chain /\ c \in Seq(Run) /\ Len(c) = 1
      BY <1>2 DEF PageFreeFrames, OneRun
  <1>4. PICK p \in Run : p = c[1]
    <2>1. c \in Seq(Run) /\ Len(c) = 1
        BY <1>3
    <2> QED
        BY <2>1
  <1>5. Last(Top.chain) = p
      BY <1>3, <1>4 DEF Last
  <1>6. p.at \in Nat /\ p.base \in Int /\ p.at # None
      BY SizesAssumption DEF Run
  <1>7. Holds(stack[1]) = p.at
      BY <1>2, <1>3, <1>4, HoldsFacts
  <1>8. p.at \in InHand(stack)
      BY <1>1, <1>2, <1>6, <1>7, TopHolds
  <1>9. PICK l : l = page_free
      OBVIOUS
  <1>10. l \in Seq(Run)
      BY <1>1, <1>9 DEF PagesOK
  <1>11. PICK k : k = Min({i \in 1..Len(l) : l[i].base >= p.base} \cup {Len(l) + 1})
      OBVIOUS
  <1>12. k \in 1..(Len(l) + 1)
    <2>1. \A i \in 1..Len(l) : l[i] \in Run
        BY <1>10, Elements
    <2>2. \A i \in 1..Len(l) : l[i].base \in Int
        BY <2>1 DEF Run
    <2>3. Len(l) \in Nat
        BY <1>10
    <2>4. Place(l, p.base, k)
        BY <1>6, <1>11, <2>2, <2>3, InsertPlace, Zenon
    <2> QED
        BY <2>4 DEF Place
  <1>13. PICK r : r = page_free' /\ r = InsertAt(l, k, p)
      BY <1>5, <1>9, <1>11 DEF PageInsert
  <1>14. /\ p.at \notin PageStructs(page_free)
         /\ OwnOK(user, Structs(free, spare), PageStructs(page_free) \cup {p.at}, Kept(held, used_start),
                  InHand(stack) \ {p.at}, {}, DOMAIN blocks)
      BY <1>1, <1>8, OwnPutBack
  <1>15. PagesOK(r, held) /\ PageStructs(r) = PageStructs(l) \cup {p.at}
      BY <1>1, <1>9, <1>12, <1>13, <1>14, RunInserted
  <1>16. PICK prev : prev = IF k = 1 THEN None ELSE page_free[k - 1].at
      OBVIOUS
  <1>17. prev \in Nat \cup {None}
    <2>1. CASE k = 1
        BY <1>16, <2>1
    <2>2. CASE k # 1
      <3>1. k - 1 \in 1..Len(l)
          BY <1>10, <1>12, <2>2
      <3>2. l[k - 1] \in Run
          BY <1>10, <3>1, Elements
      <3> QED
          BY <1>9, <1>16, <2>2, <3>2 DEF Run
    <2> QED
        BY <2>1, <2>2
  <1>18. PICK g : g = [Top EXCEPT !.step = "merge", !.prev = prev]
      OBVIOUS
  <1>19. g \in PageFreeFrames /\ g.step = "merge"
      BY <1>2, <1>17, <1>18 DEF PageFreeFrames
  <1>20. g \in Frames /\ Continues(g, stack) /\ Holds(g) = None /\ Wants(g) = "runs"
    <2>1. g.step # "insert"
        BY <1>19
    <2> QED
        BY <1>2, <1>19, <2>1, FreeingFrame, WantsFacts
  <1>21. PICK t : t = stack' /\ t = Resumed(g, stack)
      BY <1>5, <1>9, <1>11, <1>16, <1>18 DEF PageInsert, Resumed
  <1>22. StackOK(t) /\ t # <<>> /\ t[1] = g /\ InHand(t) = InHand(stack) \ {Holds(stack[1])}
      BY <1>1, <1>2, <1>20, <1>21, StackGoesOn
  <1>23. RetOK(t, ret') /\ Returned(t, ret') = {}
      BY <1>20, <1>22 DEF RetOK, Returned
  <1>24. HeapSame /\ UNCHANGED <<user, held, alloc_pointer, current_map>>
      BY DEF PageInsert, heapVars, HeapSame
  <1>25. InHand(stack') = InHand(stack) \ {p.at} /\ PageStructs(page_free') = PageStructs(page_free) \cup {p.at}
      BY <1>7, <1>9, <1>13, <1>15, <1>21, <1>22
  <1>26. OwnOK(user', Structs(free', spare'), PageStructs(page_free'), Kept(held', used_start'),
               InHand(stack'), Returned(stack', ret'), DOMAIN blocks')
      BY <1>14, <1>21, <1>23, <1>24, <1>25 DEF HeapSame
  <1>27. /\ HeapOK(free', free_end', spare', blocks', vend')
         /\ PagesOK(page_free', held') /\ RegionOK(alloc_pointer', current_map')
      BY <1>1, <1>13, <1>15, <1>24 DEF HeapSame
  <1> QED
      BY <1>21, <1>22, <1>23, <1>26, <1>27, InvAfter

\* The run behind run i is swallowed.
LEMMA MergedRuns ==
    ASSUME NEW l \in Seq(Run), NEW i \in 1..(Len(l) - 1), NEW r, r = Swallow(l, i)
    PROVE  Gone(l, i + 1, r) /\ i + 1 \in 1..Len(l)
  <1>1. PICK n \in Nat : n = Len(l) /\ i \in 1..n /\ i + 1 \in 1..n
      OBVIOUS
  <1>2. l[i] \in Run /\ l[i + 1] \in Run
      BY <1>1, Elements
  <1>3. PICK x \in Int : x = l[i].count + l[i + 1].count
    <2>1. \A q \in Run : q.count \in Int
        BY DEF Run
    <2>2. l[i].count \in Int /\ l[i + 1].count \in Int
        BY <1>2, <2>1
    <2> QED
        BY <2>2
  <1>4. PICK g : g = [l[i] EXCEPT !.count = x]
      OBVIOUS
  <1>5. g \in Run /\ g.at = l[i].at
      BY <1>2, <1>3, <1>4 DEF Run
  <1>6. PICK c : c = Replaced(l, i, g)
      OBVIOUS
  <1>7. c = [l EXCEPT ![i].count = @ + l[i + 1].count]
      BY <1>1, <1>3, <1>4, <1>6 DEF Replaced
  <1>8. Changed(l, i, g, c)
      BY <1>1, <1>5, <1>6, ReplacedRun
  <1>9. /\ c \in Seq(Run) /\ Len(c) = n
        /\ \A j \in 1..n : c[j] = IF j = i THEN g ELSE l[j]
      BY <1>1, <1>8 DEF Changed
  <1>10. \A j \in 1..n : c[j].at = l[j].at
      BY <1>5, <1>9
  <1>11. r = RemoveAt(c, i + 1)
      BY <1>7 DEF Swallow
  <1>12. i + 1 \in 1..Len(c)
      BY <1>1, <1>9
  <1>13. /\ r \in Seq(Run) /\ Len(r) = Len(c) - 1
         /\ \A j \in 1..(Len(c) - 1) : r[j] = IF j < i + 1 THEN c[j] ELSE c[j + 1]
      BY <1>9, <1>11, <1>12, RemoveAtFacts, ZenonT(60)
  <1>14. ASSUME NEW j \in 1..(n - 1)
         PROVE  r[j].at = IF j < i + 1 THEN l[j].at ELSE l[j + 1].at
    <2>1. j \in 1..n /\ j + 1 \in 1..n
        BY <1>1
    <2>2. r[j] = IF j < i + 1 THEN c[j] ELSE c[j + 1]
        BY <1>9, <1>13
    <2> QED
        BY <1>10, <2>1, <2>2
  <1> QED
      BY <1>1, <1>9, <1>13, <1>14 DEF Gone

\* The call of page::free frees the struct x of a run that was swallowed.
LEMMA MergeFrees ==
    ASSUME KMemInv, stack # <<>>, stack[1] \in PageFreeFrames, Holds(stack[1]) = None,
           NEW g \in Frames, Continues(g, stack), Holds(g) = None, Wants(g) = "nothing",
           NEW x \in Nat, x \notin InHand(stack), stack' = Called(Free(x), g, stack),
           HeapKept, UNCHANGED <<user, held, alloc_pointer, current_map>>,
           PagesOK(page_free', held),
           OwnOK(user, Structs(free, spare), PageStructs(page_free'), Kept(held, used_start'),
                 InHand(stack) \cup {x}, {}, DOMAIN blocks)
    PROVE  KMemInv'
  <1>1. /\ HeapOK(free, free_end, spare, blocks, vend) /\ StackOK(stack)
        /\ RegionOK(alloc_pointer, current_map)
      BY DEF KMemInv
  <1>2. x # None
      BY SizesAssumption
  <1>3. PICK f : f = Free(x)
      OBVIOUS
  <1>4. f \in KfreeFrames /\ f.fn = "kfree" /\ f.step = "start" /\ f.base = x
      BY <1>3 DEF Free, KfreeFrames
  <1>5. f \in Frames /\ Holds(f) = x /\ Gives(f) = "nothing" /\ Wants(f) = "runs"
      BY <1>4, HoldsFacts, GivesFacts, WantsFacts DEF Frames
  <1>6. PICK t : t = stack' /\ t = Called(f, g, stack)
      BY <1>3
  <1>7. StackOK(t) /\ t # <<>> /\ t[1] = f /\ InHand(t) = InHand(stack) \cup {Holds(f)}
      BY <1>1, <1>2, <1>5, <1>6, StackHandOver
  <1>8. RetOK(t, ret') /\ Returned(t, ret') = {}
      BY <1>5, <1>7 DEF RetOK, Returned
  <1>9. InHand(stack') = InHand(stack) \cup {x} /\ Returned(stack', ret') = {}
      BY <1>5, <1>6, <1>7, <1>8
  <1>10. OwnOK(user', Structs(free', spare'), PageStructs(page_free'), Kept(held', used_start'),
               InHand(stack'), Returned(stack', ret'), DOMAIN blocks')
      BY <1>9 DEF HeapKept
  <1>11. /\ HeapOK(free', free_end', spare', blocks', vend')
         /\ PagesOK(page_free', held') /\ RegionOK(alloc_pointer', current_map')
      BY <1>1 DEF HeapKept
  <1> QED
      BY <1>6, <1>7, <1>8, <1>10, <1>11, InvAfter

\* A run l[i] that swallows the next one: a struct is left over.
LEMMA SwallowLeaves ==
    ASSUME NEW l, NEW h, PagesOK(l, h), NEW s, NEW i \in Touching(l, s), NEW r, r = Swallow(l, i)
    PROVE  /\ PagesOK(r, h) /\ l[i + 1].at \in Nat /\ l[i + 1].at \in PageStructs(l)
           /\ PageStructs(r) = PageStructs(l) \ {l[i + 1].at}
  <1>1. l \in Seq(Run)
      BY DEF PagesOK
  <1>2. i \in 1..(Len(l) - 1)
      BY DEF Touching
  <1>3. Gone(l, i + 1, r) /\ i + 1 \in 1..Len(l)
      BY <1>1, <1>2, MergedRuns
  <1>4. PICK k : k = i + 1 /\ k \in 1..Len(l) /\ Gone(l, k, r)
      BY <1>3
  <1>5. PagesOK(r, h) /\ l[k].at \in PageStructs(l) /\ PageStructs(r) = PageStructs(l) \ {l[k].at}
      BY <1>4, RunRemoved
  <1>6. l[k] \in Run
      BY <1>1, <1>4, Elements
  <1>7. l[k].at \in Nat
      BY <1>6 DEF Run
  <1> QED
      BY <1>4, <1>5, <1>7

\* The struct of a run that grew the heap is freed.
LEMMA OwnUnused ==
    ASSUME NEW U, NEW Q, NEW P, NEW H, NEW V, NEW K, NEW B, OwnOK(U, Q, P, H \cup V, K, {}, B),
           H \cap V = {}, NEW x \in V
    PROVE  x \notin K /\ OwnOK(U, Q, P, H \cup (V \ {x}), K \cup {x}, {}, B)
  BY DEF OwnOK

\* _merge_free of pages: nothing to do, or a struct is handed to kfree.
LEMMA MergePagesOwned ==
    ASSUME KMemInv, UsedInv, stack # <<>>, Top = stack[1], Top \in PageFreeFrames,
           Top.step \in {"merge", "merge_prev"}, NEW s, NEW next \in {"merge_prev", "freed"},
           MergePages(s, next), HeapKept, UNCHANGED <<user, held, alloc_pointer, current_map>>
    PROVE  KMemInv'
  <1>1. /\ StackOK(stack) /\ PagesOK(page_free, held)
        /\ OwnOK(user, Structs(free, spare), PageStructs(page_free), Kept(held, used_start),
                 InHand(stack), Returned(stack, ret), DOMAIN blocks)
      BY DEF KMemInv
  <1>2. Wants(stack[1]) \in {"runs", "nothing"} /\ Holds(stack[1]) = None
    <2>1. Top.fn = "page_free" /\ Top.step # "insert"
        BY DEF PageFreeFrames
    <2> QED
        BY <2>1, WantsFacts, HoldsFacts
  <1>3. Returned(stack, ret) = {}
      BY <1>2 DEF Returned
  <1>4. PICK g : g = [Top EXCEPT !.step = next]
      OBVIOUS
  <1>5. g \in PageFreeFrames /\ g.step = next
      BY <1>4 DEF PageFreeFrames
  <1>6. g \in Frames /\ Continues(g, stack) /\ Holds(g) = None /\ Wants(g) = "nothing"
    <2>1. g.step # "insert"
        BY <1>5
    <2> QED
        BY <1>5, <2>1, FreeingFrame, WantsFacts
  <1>7. CASE Goto(next) /\ UNCHANGED <<page_free, used_start>>
    <2>1. PICK t : t = stack' /\ t = Resumed(g, stack)
        BY <1>4, <1>7 DEF Goto, Resumed
    <2>2. StackOK(t) /\ t # <<>> /\ t[1] = g /\ InHand(t) = InHand(stack)
        BY <1>1, <1>2, <1>6, <2>1, StackGoesOn
    <2>3. RetOK(t, ret') /\ Returned(t, ret') = {}
        BY <1>6, <2>2 DEF RetOK, Returned
    <2>4. HeapSame /\ RunsSame
        BY <1>7 DEF HeapKept, HeapSame, RunsSame
    <2> QED
        BY <2>1, <2>2, <2>3, <2>4, CallsGoOn
  <1>8. ASSUME NEW i \in Touching(page_free, s), page_free' = Swallow(page_free, i),
               Call(Free(page_free[i + 1].at), next), UNCHANGED used_start
        PROVE  KMemInv'
    <2>1. PICK x, r : x = page_free[i + 1].at /\ r = page_free' /\ r = Swallow(page_free, i)
        BY <1>8
    <2>2. /\ PagesOK(r, held) /\ x \in Nat /\ x \in PageStructs(page_free)
          /\ PageStructs(r) = PageStructs(page_free) \ {x}
        BY <1>1, <2>1, SwallowLeaves
    <2>3. Moved(x, PageStructs(page_free), Returned(stack, ret), PageStructs(r))
        BY <1>3, <2>2 DEF Moved
    <2>4. /\ x \notin InHand(stack)
          /\ OwnOK(user, Structs(free, spare), PageStructs(r), Kept(held, used_start),
                   InHand(stack) \cup {x}, {}, DOMAIN blocks)
        BY <1>1, <2>3, OwnMoved
    <2>5. stack' = Called(Free(x), g, stack)
        BY <1>4, <1>8, <2>1 DEF Call, Called
    <2>6. PagesOK(page_free', held) /\ Kept(held, used_start') = Kept(held, used_start)
        BY <1>8, <2>1, <2>2
    <2> QED
        BY <1>2, <1>6, <2>1, <2>2, <2>4, <2>5, <2>6, MergeFrees
  <1>9. ASSUME NEW i \in Touching(used_start, s), used_start' = Swallow(used_start, i),
               Call(Free(used_start[i + 1].at), next), UNCHANGED page_free
        PROVE  KMemInv'
    <2>1. PICK x, r : x = used_start[i + 1].at /\ r = used_start' /\ r = Swallow(used_start, i)
        BY <1>9
    <2>2. PagesOK(used_start, {})
        BY DEF UsedInv, UsedOK, PagesOK
    <2>3. /\ x \in Nat /\ x \in PageStructs(used_start)
          /\ PageStructs(r) = PageStructs(used_start) \ {x}
        BY <2>1, <2>2, SwallowLeaves
    <2>4. PICK H, V : H = HeldStructs(held) /\ V = PageStructs(used_start) /\ H \cap V = {}
        BY DEF UsedInv
    <2>5. OwnOK(user, Structs(free, spare), PageStructs(page_free), H \cup V,
                InHand(stack), {}, DOMAIN blocks)
        BY <1>1, <1>3, <2>4 DEF Kept
    <2>6. /\ x \notin InHand(stack)
          /\ OwnOK(user, Structs(free, spare), PageStructs(page_free), H \cup (V \ {x}),
                   InHand(stack) \cup {x}, {}, DOMAIN blocks)
        BY <2>3, <2>4, <2>5, OwnUnused
    <2>7. Kept(held, used_start') = H \cup (V \ {x})
        BY <2>1, <2>3, <2>4 DEF Kept
    <2>8. stack' = Called(Free(x), g, stack)
        BY <1>4, <1>9, <2>1 DEF Call, Called
    <2>9. /\ PagesOK(page_free', held)
          /\ OwnOK(user, Structs(free, spare), PageStructs(page_free'), Kept(held, used_start'),
                   InHand(stack) \cup {x}, {}, DOMAIN blocks)
        BY <1>1, <1>9, <2>6, <2>7
    <2> QED
        BY <1>2, <1>6, <2>3, <2>6, <2>8, <2>9, MergeFrees
  <1> QED
      BY <1>7, <1>8, <1>9 DEF MergePages

LEMMA PageMergeNextStep ==
    ASSUME KMemInv, UsedInv, PageMergeNext
    PROVE  KMemInv'
  <1>1. StackOK(stack)
      BY DEF KMemInv
  <1>2. stack # <<>> /\ Top = stack[1] /\ Top \in PageFreeFrames /\ Top.step = "merge"
      BY <1>1, TopFacts, FrameKinds DEF PageMergeNext
  <1>3. HeapKept /\ UNCHANGED <<user, held, alloc_pointer, current_map>>
      BY DEF PageMergeNext, heapVars, HeapKept
  <1>4. PICK s : s = Last(Top.chain).at /\ MergePages(s, "merge_prev")
      BY DEF PageMergeNext
  <1> QED
      BY <1>2, <1>3, <1>4, MergePagesOwned

LEMMA PageMergePrevStep ==
    ASSUME KMemInv, UsedInv, PageMergePrev
    PROVE  KMemInv'
  <1>1. StackOK(stack)
      BY DEF KMemInv
  <1>2. stack # <<>> /\ Top = stack[1] /\ Top \in PageFreeFrames /\ Top.step = "merge_prev"
      BY <1>1, TopFacts, FrameKinds DEF PageMergePrev
  <1>3. HeapKept /\ UNCHANGED <<user, held, alloc_pointer, current_map>>
      BY DEF PageMergePrev, heapVars, HeapKept
  <1>4. PICK s : s = Top.prev /\ MergePages(s, "freed")
      BY DEF PageMergePrev
  <1> QED
      BY <1>2, <1>3, <1>4, MergePagesOwned

\* The outermost call returns, and keeps nothing.
LEMMA AllReturned ==
    ASSUME KMemInv, HeapSame, RunsSame, stack' = <<>>
    PROVE  KMemInv'
  <1>1. StackOK(stack') /\ InHand(stack') = {} /\ RetOK(stack', ret') /\ Returned(stack', ret') = {}
      BY StackEmpty
  <1> QED
      BY <1>1, CallsGoOn

LEMMA PageFreedStep ==
    ASSUME KMemInv, PageFreed
    PROVE  KMemInv'
  <1>1. StackOK(stack)
      BY DEF KMemInv
  <1>2. /\ stack # <<>> /\ Top = stack[1] /\ Top \in PageFreeFrames /\ Top.fn = "page_free"
      BY <1>1, TopFacts, FrameKinds DEF PageFreed
  <1>3. PICK c : c = Top.chain /\ c \in Seq(Run) /\ Len(c) = 1
      BY <1>2 DEF PageFreeFrames, OneRun
  <1>4. Front(c) = <<>>
      BY <1>3 DEF Front
  <1>5. Tail(stack) = <<>>
      BY <1>1, <1>2, GivesFacts, Outermost
  <1>6. stack' = <<>>
      BY <1>3, <1>4, <1>5 DEF PageFreed
  <1>7. HeapSame /\ RunsSame
      BY DEF PageFreed, heapVars, pageVars, HeapSame, RunsSame
  <1> QED
      BY <1>6, <1>7, AllReturned

LEMMA PageCreatedStep ==
    ASSUME KMemInv, PageCreated
    PROVE  KMemInv'
  <1>1. StackOK(stack)
      BY DEF KMemInv
  <1>2. stack # <<>> /\ Top = stack[1] /\ Top.fn = "page_create"
      BY <1>1, TopFacts DEF PageCreated
  <1>3. Tail(stack) = <<>>
      BY <1>1, <1>2, GivesFacts, Outermost
  <1>4. stack' = <<>> /\ user' = user /\ held' = held
      BY <1>2, <1>3 DEF PageCreated, Return, Deliver
  <1>5. HeapSame /\ RunsSame
      BY <1>4 DEF PageCreated, heapVars, pageVars, HeapSame, RunsSame
  <1> QED
      BY <1>4, <1>5, AllReturned

\* Both parts of a run that is split are held.
LEMMA OwnSplit ==
    ASSUME NEW U, NEW Q, NEW P, NEW D, NEW K, NEW R, NEW B, OwnOK(U, Q, P, D, K, R, B), NEW x \in K,
           NEW y \in R, NEW E, E = (D \cup {x}) \cup {y}
    PROVE  x \notin D /\ y \notin D \cup {x} /\ OwnOK(U, Q, P, E, {}, {}, B)
  BY DEF OwnOK

LEMMA PageSplitOffStep ==
    ASSUME KMemInv, PageSplitOff
    PROVE  KMemInv'
  <1>1. /\ HeapOK(free, free_end, spare, blocks, vend) /\ StackOK(stack) /\ RetOK(stack, ret)
        /\ PagesOK(page_free, held) /\ RegionOK(alloc_pointer, current_map)
        /\ OwnOK(user, Structs(free, spare), PageStructs(page_free), Kept(held, used_start),
                 InHand(stack), Returned(stack, ret), DOMAIN blocks)
      BY DEF KMemInv
  <1>2. /\ stack # <<>> /\ Top = stack[1] /\ Top \in SplitFrames /\ Top.fn = "page_split"
        /\ Top.step = "made"
      BY <1>1, TopFacts, FrameKinds DEF PageSplitOff
  <1>3. PICK c : c = Top.page /\ c \in Seq(Run) /\ Len(c) = 1
      BY <1>2 DEF SplitFrames, OneRun
  <1>4. PICK run \in Run : run = c[1]
    <2>1. c \in Seq(Run) /\ Len(c) = 1
        BY <1>3
    <2> QED
        BY <2>1
  <1>5. PICK n \in Nat : n = Top.count
      BY <1>2 DEF SplitFrames
  <1>6. run.at \in Nat /\ run.base \in Int /\ run.count \in Int /\ run.at # None
      BY SizesAssumption DEF Run
  <1>7. ret \in Nat /\ ret \in Returned(stack, ret)
      BY <1>1, <1>2, WantsFacts DEF RetOK, Returned
  <1>8. run.at \in InHand(stack)
    <2>1. Holds(stack[1]) = run.at
        BY <1>2, <1>3, <1>4, HoldsFacts
    <2> QED
        BY <1>1, <1>2, <1>6, <2>1, TopHolds
  <1>9. PICK p : p = [run EXCEPT !.count = n]
      OBVIOUS
  <1>10. p \in Run /\ p.at = run.at
      BY <1>5, <1>9 DEF Run
  <1>11. PICK q : q = [at |-> ret, base |-> run.base + n, count |-> run.count - n]
      OBVIOUS
  <1>12. q \in Run /\ q.at = ret
    <2>1. run.base + n \in Int /\ run.count - n \in Int
        BY <1>5, <1>6
    <2> QED
        BY <1>7, <1>11, <2>1 DEF Run
  <1>13. PICK a, b : a = <<p>> /\ b = <<q>>
      OBVIOUS
  <1>14. a \in OneRun /\ b \in OneRun /\ a[1].at = run.at /\ b[1].at = ret
      BY <1>10, <1>12, <1>13 DEF OneRun
  <1>15. PICK g : g = held \cup {a}
      OBVIOUS
  <1>16. PICK h : h = g \cup {b}
      OBVIOUS
  <1>17. held' = h
      BY <1>3, <1>4, <1>5, <1>9, <1>11, <1>13, <1>15, <1>16 DEF PageSplitOff
  <1>18. PICK E : E = (Kept(held, used_start) \cup {run.at}) \cup {ret}
      OBVIOUS
  <1>19. /\ run.at \notin Kept(held, used_start) /\ ret \notin Kept(held, used_start) \cup {run.at}
         /\ OwnOK(user, Structs(free, spare), PageStructs(page_free), E, {}, {}, DOMAIN blocks)
      BY <1>1, <1>7, <1>8, <1>18, OwnSplit
  <1>20. PagesOK(page_free, g) /\ Kept(g, used_start) = Kept(held, used_start) \cup {a[1].at}
      BY <1>1, <1>14, <1>15, <1>19, HeldMore
  <1>21. b[1].at \notin Kept(g, used_start)
      BY <1>14, <1>19, <1>20
  <1>22. PagesOK(page_free, h) /\ Kept(h, used_start) = Kept(g, used_start) \cup {b[1].at}
      BY <1>14, <1>16, <1>20, <1>21, HeldMore
  <1>23. Kept(h, used_start) = E
      BY <1>14, <1>18, <1>20, <1>22
  <1>24. stack' = <<>>
    <2>1. Tail(stack) = <<>>
        BY <1>1, <1>2, GivesFacts, Outermost
    <2> QED
        BY <2>1 DEF PageSplitOff
  <1>25. StackOK(stack') /\ InHand(stack') = {} /\ RetOK(stack', ret') /\ Returned(stack', ret') = {}
      BY <1>24, StackEmpty
  <1>26. HeapSame /\ UNCHANGED <<user, page_free, alloc_pointer, current_map>>
      BY DEF PageSplitOff, heapVars, pageVars, HeapSame
  <1>27. OwnOK(user', Structs(free', spare'), PageStructs(page_free'), Kept(held', used_start'),
               InHand(stack'), Returned(stack', ret'), DOMAIN blocks')
      BY <1>17, <1>19, <1>23, <1>25, <1>26 DEF HeapSame
  <1>28. /\ HeapOK(free', free_end', spare', blocks', vend')
         /\ PagesOK(page_free', held') /\ RegionOK(alloc_pointer', current_map')
      BY <1>1, <1>17, <1>22, <1>26 DEF HeapSame
  <1> QED
      BY <1>25, <1>27, <1>28, InvAfter

-----------------------------------------------------------------------------
(* Calls from outside                                                      *)

LEMMA StackOne ==
    ASSUME NEW f \in Frames, f.fn = "page_alloc" => f.nolock = FALSE, NEW t, t = <<f>>
    PROVE  StackOK(t) /\ t # <<>> /\ t[1] = f /\ InHand(t) = {Holds(f)} \ {None}
  <1>1. t \in Seq(Frames) /\ Len(t) = 1 /\ t[1] = f /\ t # <<>>
      OBVIOUS
  <1>2. StackOK(t)
      BY <1>1 DEF StackOK
  <1>3. InHand(t) = {Holds(f)} \ {None}
      BY <1>1 DEF InHand
  <1> QED
      BY <1>1, <1>2, <1>3

LEMMA StackTwo ==
    ASSUME NEW f \in Frames, NEW g \in Frames, Wants(g) = Gives(f), Holds(f) = None,
           g.fn # "page_alloc", NEW t, t = <<f, g>>
    PROVE  StackOK(t) /\ t # <<>> /\ t[1] = f /\ InHand(t) = {Holds(g)} \ {None}
  <1>1. t \in Seq(Frames) /\ Len(t) = 2 /\ t[1] = f /\ t[2] = g /\ t # <<>>
      OBVIOUS
  <1>2. StackOK(t)
    <2>1. \A k \in 1..(Len(t) - 1) : Wants(t[k + 1]) = Gives(t[k])
      <3>1. \A k \in 1..(Len(t) - 1) : k = 1 /\ k + 1 = 2
          BY <1>1
      <3> QED
          BY <1>1, <3>1
    <2>2. ASSUME NEW k \in 1..2, NEW l \in 1..2, k # l, Holds(t[k]) = Holds(t[l])
          PROVE  Holds(t[k]) = None
      <3>1. (k = 1 \/ k = 2) /\ (l = 1 \/ l = 2)
          OBVIOUS
      <3> QED
          BY <1>1, <2>2, <3>1
    <2> QED
        BY <1>1, <2>1, <2>2 DEF StackOK
  <1>3. InHand(t) = {Holds(g)} \ {None}
    <2>1. \A k \in 1..2 : k = 1 \/ k = 2
        OBVIOUS
    <2>2. 1 \in 1..2 /\ 2 \in 1..2
        OBVIOUS
    <2> QED
        BY <1>1, <2>1, <2>2 DEF InHand
  <1> QED
      BY <1>1, <1>2, <1>3

\* Nobody is inside.
LEMMA IdleFacts ==
    ASSUME stack = <<>>
    PROVE  InHand(stack) = {} /\ Returned(stack, ret) = {}
  BY StackEmpty

\* A call begins that has nothing in its hands.
LEMMA CallBegins ==
    ASSUME KMemInv, stack = <<>>, HeapSame, RunsSame, StackOK(stack'), stack' # <<>>,
           InHand(stack') = {}, Wants(stack'[1]) = "runs"
    PROVE  KMemInv'
  <1>1. RetOK(stack', ret') /\ Returned(stack', ret') = {}
      BY DEF RetOK, Returned
  <1> QED
      BY <1>1, CallsGoOn

LEMMA CallKmallocStep ==
    ASSUME KMemInv, CallKmalloc
    PROVE  KMemInv'
  <1>1. PICK size \in Sizes : stack' = <<Malloc(size, FALSE)>>
      BY DEF CallKmalloc
  <1>2. stack = <<>> /\ HeapSame /\ RunsSame
      BY DEF CallKmalloc, Begin, Idle, heapVars, pageVars, HeapSame, RunsSame
  <1>3. size \in Nat \ {0}
      BY SizesAssumption
  <1>4. PICK f : f = Malloc(size, FALSE)
      OBVIOUS
  <1>5. f \in Frames /\ f.fn = "kmalloc" /\ f.step = "try"
      BY <1>3, <1>4, MallocFrame
  <1>6. Holds(f) = None /\ Wants(f) = "runs" /\ f.fn # "page_alloc"
      BY <1>5, HoldsFacts, WantsFacts
  <1>7. PICK t : t = stack' /\ t = <<f>>
      BY <1>1, <1>4
  <1>8. StackOK(t) /\ t # <<>> /\ t[1] = f /\ InHand(t) = {Holds(f)} \ {None}
      BY <1>5, <1>6, <1>7, StackOne
  <1> QED
      BY <1>2, <1>6, <1>7, <1>8, CallBegins

LEMMA CallPageAllocStep ==
    ASSUME KMemInv, CallPageAlloc
    PROVE  KMemInv'
  <1>1. PICK count \in Counts : stack' = <<PageAlloc(count, FALSE, FALSE)>>
      BY DEF CallPageAlloc
  <1>2. stack = <<>> /\ HeapSame /\ RunsSame
      BY DEF CallPageAlloc, Begin, Idle, heapVars, pageVars, HeapSame, RunsSame
  <1>3. count \in Nat \ {0}
      BY SizesAssumption
  <1>4. PICK f : f = PageAlloc(count, FALSE, FALSE)
      OBVIOUS
  <1>5. f \in Frames /\ f.fn = "page_alloc" /\ f.step = "start" /\ f.nolock = FALSE
      BY <1>3, <1>4, AllocFrame
  <1>6. Holds(f) = None /\ Wants(f) = "runs"
    <2>1. f.step # "chain"
        BY <1>5
    <2> QED
        BY <1>5, <2>1, HoldsFacts, WantsFacts
  <1>7. PICK t : t = stack' /\ t = <<f>>
      BY <1>1, <1>4
  <1>8. StackOK(t) /\ t # <<>> /\ t[1] = f /\ InHand(t) = {Holds(f)} \ {None}
      BY <1>5, <1>7, StackOne
  <1> QED
      BY <1>2, <1>6, <1>7, <1>8, CallBegins

LEMMA CallPageCreateStep ==
    ASSUME KMemInv, CallPageCreate
    PROVE  KMemInv'
  <1>1. PICK f, g : f = Malloc(PageStruct, TRUE) /\ g = [fn |-> "page_create", step |-> "made"]
      OBVIOUS
  <1>2. PICK t : t = stack' /\ t = <<f, g>>
      BY <1>1 DEF CallPageCreate
  <1>3. stack = <<>> /\ HeapSame /\ RunsSame
      BY DEF CallPageCreate, BeginCreate, Idle, heapVars, pageVars, HeapSame, RunsSame
  <1>4. PageStruct \in Nat \ {0}
      BY SizesAssumption
  <1>5. f \in Frames /\ f.fn = "kmalloc" /\ f.step = "try"
      BY <1>1, <1>4, MallocFrame
  <1>6. Holds(f) = None /\ Wants(f) = "runs" /\ Gives(f) = "block"
      BY <1>5, HoldsFacts, WantsFacts, GivesFacts
  <1>7. g \in CreateFrames /\ g.fn = "page_create" /\ g.step = "made"
      BY <1>1 DEF CreateFrames
  <1>8. g \in Frames /\ Holds(g) = None /\ Wants(g) = "block" /\ g.fn # "page_alloc"
      BY <1>7, HoldsFacts, WantsFacts DEF Frames
  <1>9. StackOK(t) /\ t # <<>> /\ t[1] = f /\ InHand(t) = {Holds(g)} \ {None}
      BY <1>2, <1>5, <1>6, <1>8, StackTwo
  <1> QED
      BY <1>2, <1>3, <1>6, <1>8, <1>9, CallBegins

\* What a caller gives back goes into the hands of a call.
LEMMA OwnHanded ==
    ASSUME NEW U, NEW Q, NEW P, NEW D, NEW B, OwnOK(U, Q, P, D, {}, {}, B), NEW x
    PROVE  /\ x \in U => OwnOK(U \ {x}, Q, P, D, {x}, {}, B) /\ x \in B
           /\ x \in D => OwnOK(U, Q, P, D \ {x}, {x}, {}, B) /\ x \in B
  <1>1. ASSUME x \in U PROVE OwnOK(U \ {x}, Q, P, D, {x}, {}, B) /\ x \in B
      BY <1>1 DEF OwnOK
  <1>2. ASSUME x \in D PROVE OwnOK(U, Q, P, D \ {x}, {x}, {}, B) /\ x \in B
      BY <1>2 DEF OwnOK
  <1> QED
      BY <1>1, <1>2

LEMMA CallKfreeStep ==
    ASSUME KMemInv, CallKfree
    PROVE  KMemInv'
  <1>1. /\ HeapOK(free, free_end, spare, blocks, vend)
        /\ PagesOK(page_free, held) /\ RegionOK(alloc_pointer, current_map)
        /\ OwnOK(user, Structs(free, spare), PageStructs(page_free), Kept(held, used_start),
                 InHand(stack), Returned(stack, ret), DOMAIN blocks)
      BY DEF KMemInv
  <1>2. PICK x \in user : stack' = <<Free(x)>> /\ user' = user \ {x}
      BY DEF CallKfree
  <1>3. /\ stack = <<>> /\ HeapSame
        /\ UNCHANGED <<page_free, held, alloc_pointer, current_map>>
      BY DEF CallKfree, Begin, Idle, heapVars, pageVars, HeapSame
  <1>4. InHand(stack) = {} /\ Returned(stack, ret) = {}
      BY <1>3, IdleFacts
  <1>5. OwnOK(user, Structs(free, spare), PageStructs(page_free), Kept(held, used_start), {}, {},
              DOMAIN blocks)
      BY <1>1, <1>4
  <1>6. /\ OwnOK(user \ {x}, Structs(free, spare), PageStructs(page_free), Kept(held, used_start), {x}, {},
                 DOMAIN blocks)
        /\ x \in DOMAIN blocks
      BY <1>2, <1>5, OwnHanded
  <1>7. x \in Nat /\ x # None
      BY <1>1, <1>6, SizesAssumption DEF HeapOK, BlocksOK
  <1>8. PICK f : f = Free(x)
      OBVIOUS
  <1>9. f \in KfreeFrames /\ f.fn = "kfree" /\ f.step = "start" /\ f.base = x
      BY <1>7, <1>8 DEF Free, KfreeFrames
  <1>10. f \in Frames /\ Holds(f) = x /\ Wants(f) = "runs" /\ f.fn # "page_alloc"
      BY <1>9, HoldsFacts, WantsFacts DEF Frames
  <1>11. PICK t : t = stack' /\ t = <<f>>
      BY <1>2, <1>8
  <1>12. StackOK(t) /\ t # <<>> /\ t[1] = f /\ InHand(t) = {Holds(f)} \ {None}
      BY <1>10, <1>11, StackOne
  <1>13. RetOK(t, ret') /\ Returned(t, ret') = {}
      BY <1>10, <1>12 DEF RetOK, Returned
  <1>14. InHand(stack') = {x}
      BY <1>7, <1>10, <1>11, <1>12
  <1>15. OwnOK(user', Structs(free', spare'), PageStructs(page_free'), Kept(held', used_start'),
               InHand(stack'), Returned(stack', ret'), DOMAIN blocks')
      BY <1>2, <1>3, <1>6, <1>11, <1>13, <1>14 DEF HeapSame
  <1>16. /\ HeapOK(free', free_end', spare', blocks', vend')
         /\ PagesOK(page_free', held') /\ RegionOK(alloc_pointer', current_map')
      BY <1>1, <1>3 DEF HeapSame
  <1> QED
      BY <1>11, <1>12, <1>13, <1>15, <1>16, InvAfter

\* A run that is held no more.
LEMMA HeldLess ==
    ASSUME NEW l, NEW h, PagesOK(l, h), NEW c \in h, NEW g, g = h \ {c}
    PROVE  /\ PagesOK(l, g) /\ HeldStructs(g) = HeldStructs(h) \ {c[1].at}
           /\ c[1].at \in HeldStructs(h) /\ c \in OneRun
  <1>1. PagesOK(l, g) /\ c \in OneRun
      BY DEF PagesOK
  <1>2. c[1].at \in HeldStructs(h)
      BY DEF HeldStructs
  <1>3. HeldStructs(g) \subseteq HeldStructs(h) \ {c[1].at}
      BY DEF PagesOK, HeldStructs
  <1>4. HeldStructs(h) \ {c[1].at} \subseteq HeldStructs(g)
      BY DEF HeldStructs
  <1> QED
      BY <1>1, <1>2, <1>3, <1>4

\* A call begins with a run that was held in its hands.
LEMMA RunGivenBack ==
    ASSUME KMemInv, UsedInv, HeapSame, UNCHANGED <<user, page_free, alloc_pointer, current_map>>,
           stack = <<>>, NEW c \in held, held' = held \ {c}, StackOK(stack'), stack' # <<>>,
           Wants(stack'[1]) = "runs", InHand(stack') = {c[1].at}
    PROVE  KMemInv'
  <1>1. /\ HeapOK(free, free_end, spare, blocks, vend)
        /\ PagesOK(page_free, held) /\ RegionOK(alloc_pointer, current_map)
        /\ OwnOK(user, Structs(free, spare), PageStructs(page_free), Kept(held, used_start),
                 InHand(stack), Returned(stack, ret), DOMAIN blocks)
      BY DEF KMemInv
  <1>2. InHand(stack) = {} /\ Returned(stack, ret) = {}
      BY IdleFacts
  <1>3. OwnOK(user, Structs(free, spare), PageStructs(page_free), Kept(held, used_start), {}, {},
              DOMAIN blocks)
      BY <1>1, <1>2
  <1>4. PICK g : g = held' /\ g = held \ {c}
      OBVIOUS
  <1>5. /\ PagesOK(page_free, g) /\ Kept(g, used_start) = Kept(held, used_start) \ {c[1].at}
        /\ c[1].at \in Kept(held, used_start)
    <2>1. PagesOK(page_free, held) /\ HeldStructs(held) \cap PageStructs(used_start) = {}
        BY <1>1 DEF UsedInv
    <2>2. /\ PagesOK(page_free, g) /\ HeldStructs(g) = HeldStructs(held) \ {c[1].at}
          /\ c[1].at \in HeldStructs(held)
        BY <1>4, <2>1, HeldLess
    <2> QED
        BY <2>1, <2>2 DEF Kept
  <1>6. PICK x : x = c[1].at /\ x \in Kept(held, used_start)
      BY <1>5
  <1>7. OwnOK(user, Structs(free, spare), PageStructs(page_free), Kept(held, used_start) \ {x}, {x}, {},
              DOMAIN blocks)
    <2>1. x \in Kept(held, used_start)
        BY <1>6
    <2> QED
        BY <1>3, <2>1, OwnHanded
  <1>8. RetOK(stack', ret') /\ Returned(stack', ret') = {}
      BY DEF RetOK, Returned
  <1>9. OwnOK(user', Structs(free', spare'), PageStructs(page_free'), Kept(held', used_start'),
              InHand(stack'), Returned(stack', ret'), DOMAIN blocks')
      BY <1>4, <1>5, <1>6, <1>7, <1>8 DEF HeapSame
  <1>10. /\ HeapOK(free', free_end', spare', blocks', vend')
         /\ PagesOK(page_free', held') /\ RegionOK(alloc_pointer', current_map')
      BY <1>1, <1>4, <1>5 DEF HeapSame
  <1> QED
      BY <1>8, <1>9, <1>10, InvAfter

LEMMA CallPageFreeStep ==
    ASSUME KMemInv, UsedInv, CallPageFree
    PROVE  KMemInv'
  <1>1. PagesOK(page_free, held)
      BY DEF KMemInv
  <1>2. PICK c \in held : stack' = <<PageFree(c)>> /\ held' = held \ {c}
      BY DEF CallPageFree
  <1>3. stack = <<>> /\ HeapSame /\ UNCHANGED <<user, page_free, alloc_pointer, current_map>>
      BY DEF CallPageFree, Begin, Idle, heapVars, pageVars, HeapSame
  <1>4. c \in OneRun
      BY <1>1 DEF PagesOK
  <1>5. c[1] \in Run
      BY <1>4 DEF OneRun
  <1>6. c[1].at \in Nat /\ c[1].at # None
      BY <1>5, SizesAssumption DEF Run
  <1>7. PICK f : f = PageFree(c)
      OBVIOUS
  <1>8. f \in PageFreeFrames /\ f.fn = "page_free" /\ f.step = "insert" /\ f.chain = c
      BY <1>4, <1>7 DEF PageFree, PageFreeFrames
  <1>9. f \in Frames /\ Holds(f) = c[1].at /\ Wants(f) = "runs" /\ f.fn # "page_alloc"
      BY <1>8, HoldsFacts, WantsFacts DEF Frames
  <1>10. PICK t : t = stack' /\ t = <<f>>
      BY <1>2, <1>7
  <1>11. StackOK(t) /\ t # <<>> /\ t[1] = f /\ InHand(t) = {Holds(f)} \ {None}
      BY <1>9, <1>10, StackOne
  <1>12. InHand(t) = {c[1].at} /\ Wants(t[1]) = "runs"
      BY <1>6, <1>9, <1>11
  <1> QED
      BY <1>2, <1>3, <1>10, <1>11, <1>12, RunGivenBack

LEMMA CallPageSplitStep ==
    ASSUME KMemInv, UsedInv, CallPageSplit
    PROVE  KMemInv'
  <1>1. PagesOK(page_free, held)
      BY DEF KMemInv
  <1>0. PICK c \in held : \E m \in 1..c[1].count - 1 :
          /\ stack' = <<Malloc(PageStruct, TRUE),
                        [fn |-> "page_split", step |-> "made", page |-> c, count |-> m]>>
          /\ held' = held \ {c}
      BY DEF CallPageSplit
  <1>2. PICK n \in 1..c[1].count - 1 :
          /\ stack' = <<Malloc(PageStruct, TRUE),
                        [fn |-> "page_split", step |-> "made", page |-> c, count |-> n]>>
          /\ held' = held \ {c}
      BY <1>0
  <1>3. stack = <<>> /\ HeapSame /\ UNCHANGED <<user, page_free, alloc_pointer, current_map>>
      BY DEF CallPageSplit, BeginCreate, Idle, heapVars, pageVars, HeapSame
  <1>4. c \in OneRun
      BY <1>1 DEF PagesOK
  <1>5. c[1] \in Run
    <2>1. c \in Seq(Run) /\ Len(c) = 1
        BY <1>4 DEF OneRun
    <2>2. 1 \in 1..Len(c)
        BY <2>1
    <2> QED
        BY <2>1, <2>2, Elements
  <1>6. c[1].at \in Nat /\ c[1].at # None /\ c[1].count \in Int
      BY <1>5, SizesAssumption DEF Run
  <1>7. PICK f, g : /\ f = Malloc(PageStruct, TRUE)
                    /\ g = [fn |-> "page_split", step |-> "made", page |-> c, count |-> n]
      OBVIOUS
  <1>8. PICK t : t = stack' /\ t = <<f, g>>
      BY <1>2, <1>7
  <1>9. PageStruct \in Nat \ {0} /\ n \in Nat \ {0}
      BY <1>6, SizesAssumption
  <1>10. f \in Frames /\ f.fn = "kmalloc" /\ f.step = "try"
      BY <1>7, <1>9, MallocFrame
  <1>11. Holds(f) = None /\ Wants(f) = "runs" /\ Gives(f) = "block"
      BY <1>10, HoldsFacts, WantsFacts, GivesFacts
  <1>12. g \in SplitFrames /\ g.fn = "page_split" /\ g.step = "made" /\ g.page = c
      BY <1>4, <1>7, <1>9 DEF SplitFrames
  <1>13. g \in Frames /\ Holds(g) = c[1].at /\ Wants(g) = "block" /\ g.fn # "page_alloc"
      BY <1>12, HoldsFacts, WantsFacts DEF Frames
  <1>14. StackOK(t) /\ t # <<>> /\ t[1] = f /\ InHand(t) = {Holds(g)} \ {None}
      BY <1>8, <1>10, <1>11, <1>13, StackTwo
  <1>15. InHand(t) = {c[1].at} /\ Wants(t[1]) = "runs"
      BY <1>6, <1>11, <1>13, <1>14
  <1>16. held' = held \ {c}
      BY <1>2
  <1> QED
      BY <1>3, <1>8, <1>14, <1>15, <1>16, RunGivenBack

LEMMA InstallOtherStep ==
    ASSUME KMemInv, InstallOther
    PROVE  KMemInv'
  <1>1. /\ HeapOK(free, free_end, spare, blocks, vend) /\ StackOK(stack) /\ RetOK(stack, ret)
        /\ PagesOK(page_free, held) /\ RegionOK(alloc_pointer, current_map)
        /\ OwnOK(user, Structs(free, spare), PageStructs(page_free), Kept(held, used_start),
                 InHand(stack), Returned(stack, ret), DOMAIN blocks)
      BY DEF KMemInv
  <1>2. /\ UNCHANGED <<free, free_end, spare, blocks, used_start, stack, ret>> /\ RunsSame
        /\ vend' = vend + PageWords
      BY DEF InstallOther, heapVars, pageVars, RunsSame
  <1>3. PageWords \in Nat
      BY SizesFacts
  <1>4. HeapOK(free, free_end, spare, blocks, vend + PageWords)
      BY <1>1, <1>3, SpaceGrows
  <1>5. HeapOK(free', free_end', spare', blocks', vend')
      BY <1>2, <1>4
  <1>6. OwnOK(user', Structs(free', spare'), PageStructs(page_free'), Kept(held', used_start'),
              InHand(stack'), Returned(stack', ret'), DOMAIN blocks')
      BY <1>1, <1>2 DEF RunsSame
  <1>7. /\ StackOK(stack') /\ RetOK(stack', ret')
        /\ PagesOK(page_free', held') /\ RegionOK(alloc_pointer', current_map')
      BY <1>1, <1>2 DEF RunsSame
  <1> QED
      BY <1>5, <1>6, <1>7, InvAfter

-----------------------------------------------------------------------------
(* The first page                                                          *)

LEMMA InitHeap ==
    ASSUME Init
    PROVE  /\ HeapOK(free, free_end, spare, blocks, vend)
           /\ Structs(free, spare) \subseteq DOMAIN blocks
  <1>1. /\ PageWords \in Nat /\ Header \in Nat /\ FreeStruct \in Nat /\ PageStruct \in Nat
        /\ Header > 0 /\ FreeStruct > 0
        /\ FreeStruct <= PageStruct /\ 4 * Header + 3 * PageStruct < PageWords
      BY SizesFacts
  <1>2. PICK page \in Nat : page = Header + PageStruct
      BY <1>1
  <1>3. PICK used \in Nat : used = page + Header + FreeStruct
      BY <1>1, <1>2
  <1>4. /\ page > Header /\ used - page > Header /\ used - page \in Nat /\ page # 0
        /\ PageWords - used > Header /\ PageWords - used \in Nat /\ used <= PageWords
        /\ used + (PageWords - used) = PageWords /\ page + (used - page) = used
        /\ 0 + page = page /\ page <= used
      BY <1>1, <1>2, <1>3
  <1>5. PICK e : e = [at |-> page, base |-> used, size |-> PageWords - used]
      OBVIOUS
  <1>6. e \in Entry /\ e.at = page /\ e.base = used /\ e.size = PageWords - used
      BY <1>4, <1>5 DEF Entry
  <1>7. PICK l : l = free /\ l = <<e>>
      BY <1>2, <1>3, <1>5 DEF Init
  <1>8. l \in Seq(Entry) /\ Len(l) = 1 /\ l[1] = e /\ l # <<>>
      BY <1>6, <1>7
  <1>9. free_end = page /\ spare = <<>> /\ vend = PageWords
      BY <1>2 DEF Init
  <1>10. blocks = [b \in {0, page} |-> IF b = 0 THEN page ELSE used - page]
      BY <1>2, <1>3 DEF Init
  <1>11. DOMAIN blocks = {0, page} /\ blocks[0] = page /\ blocks[page] = used - page
      BY <1>4, <1>10
  <1>12. ListOK(l, {})
      BY <1>4, <1>6, <1>8 DEF ListOK
  <1>13. EndOf(l) = page
      BY <1>6, <1>8 DEF EndOf
  <1>14. StructsOK(l, <<>>)
      BY <1>8 DEF StructsOK
  <1>15. BlocksOK(l, blocks, PageWords)
    <2>1. DOMAIN blocks \subseteq Nat
        BY <1>11
    <2>2. \A b \in DOMAIN blocks :
             /\ blocks[b] \in Nat /\ blocks[b] > Header /\ b + blocks[b] <= used
             /\ b + blocks[b] <= PageWords
        BY <1>1, <1>2, <1>3, <1>4, <1>11
    <2>3. \A b, c \in DOMAIN blocks : b # c => b + blocks[b] <= c \/ c + blocks[c] <= b
        BY <1>2, <1>4, <1>11
    <2>4. \A i \in 1..Len(l) : i = 1 /\ l[i].base = used /\ l[i].base + l[i].size = PageWords
        BY <1>4, <1>6, <1>8
    <2> QED
        BY <1>1, <2>1, <2>2, <2>3, <2>4 DEF BlocksOK
  <1>16. Structs(l, <<>>) \subseteq DOMAIN blocks
      BY <1>6, <1>8, <1>11 DEF Structs
  <1> QED
      BY <1>7, <1>9, <1>12, <1>13, <1>14, <1>15, <1>16 DEF HeapOK

LEMMA InitInv ==
    ASSUME Init
    PROVE  KMemInv
  <1>1. /\ HeapOK(free, free_end, spare, blocks, vend)
        /\ Structs(free, spare) \subseteq DOMAIN blocks
      BY InitHeap
  <1>2. stack = <<>> /\ page_free = <<>> /\ held = {} /\ user = {} /\ used_start = <<>>
      BY DEF Init
  <1>3. StackOK(stack) /\ InHand(stack) = {} /\ RetOK(stack, ret) /\ Returned(stack, ret) = {}
      BY <1>2, StackEmpty
  <1>4. PagesOK(page_free, held) /\ PageStructs(page_free) = {} /\ Kept(held, used_start) = {}
      BY <1>2 DEF PagesOK, PageStructs, HeldStructs, Kept
  <1>5. RegionOK(alloc_pointer, current_map)
    <2>1. PICK S : S = [base : Nat, length : Nat, usable : BOOLEAN] /\ Regions \in Seq(S)
        BY SizesAssumption
    <2>2. Regions \in Seq(S) /\ Regions # <<>>
        BY <2>1, SizesAssumption
    <2>3. 1 \in 1..Len(Regions)
        BY <2>2
    <2>4. Regions[1] \in S
        BY <2>2, <2>3, Elements
    <2>5. Regions[1].base \in Nat
        BY <2>1, <2>4
    <2> QED
        BY <2>3, <2>5 DEF Init, RegionOK
  <1>6. OwnOK(user, Structs(free, spare), PageStructs(page_free), Kept(held, used_start),
              InHand(stack), Returned(stack, ret), DOMAIN blocks)
      BY <1>1, <1>2, <1>3, <1>4 DEF OwnOK
  <1> QED
      BY <1>1, <1>3, <1>4, <1>5, <1>6 DEF KMemInv

-----------------------------------------------------------------------------
(* The theorems                                                            *)

\* Every step keeps the invariant.
LEMMA NextInv ==
    ASSUME KMemInv, UsedInv, Next
    PROVE  KMemInv'
  <1>1. CASE AllocateWhole
      BY <1>1, AllocateWholeStep
  <1>2. CASE AllocateShrink
      BY <1>2, AllocateShrinkStep
  <1>3. CASE Grow
      BY <1>3, GrowStep
  <1>4. CASE GrowForever
      BY <1>4, HaltStep DEF GrowForever
  <1>5. CASE Install
      BY <1>5, InstallStep
  <1>6. CASE InstallChain
      BY <1>6, HaltStep DEF InstallChain
  <1>7. CASE FreeWithSpare
      BY <1>7, FreeWithSpareStep
  <1>8. CASE FreeGetStruct
      BY <1>8, FreeGetStructStep
  <1>9. CASE FreeWithNew
      BY <1>9, FreeWithNewStep
  <1>10. CASE PageSplitCall
      BY <1>10, PageSplitCallStep
  <1>11. CASE PageSplit
      BY <1>11, PageSplitStep
  <1>12. CASE PageSplitNull
      BY <1>12, HaltStep DEF PageSplitNull
  <1>13. CASE PageTake
      BY <1>13, PageTakeStep
  <1>14. CASE PageFreshCall
      BY <1>14, PageFreshCallStep
  <1>15. CASE PageFresh
      BY <1>15, PageFreshStep
  <1>16. CASE PageExhausted
      BY <1>16, HaltStep DEF PageExhausted
  <1>17. CASE PageDone
      BY <1>17, PageDoneStep
  <1>18. CASE PageRest
      BY <1>18, PageRestStep
  <1>19. CASE PageRestRelock
      BY <1>19, HaltStep DEF PageRestRelock
  <1>20. CASE PageJoin
      BY <1>20, PageJoinStep
  <1>21. CASE PageInsert
      BY <1>21, PageInsertStep
  <1>22. CASE PageMergeNext
      BY <1>22, PageMergeNextStep
  <1>23. CASE PageMergePrev
      BY <1>23, PageMergePrevStep
  <1>24. CASE PageFreed
      BY <1>24, PageFreedStep
  <1>25. CASE PageCreated
      BY <1>25, PageCreatedStep
  <1>26. CASE PageSplitOff
      BY <1>26, PageSplitOffStep
  <1>27. CASE CallKmalloc
      BY <1>27, CallKmallocStep
  <1>28. CASE CallKfree
      BY <1>28, CallKfreeStep
  <1>29. CASE CallPageAlloc
      BY <1>29, CallPageAllocStep
  <1>30. CASE CallPageFree
      BY <1>30, CallPageFreeStep
  <1>31. CASE CallPageCreate
      BY <1>31, CallPageCreateStep
  <1>32. CASE CallPageSplit
      BY <1>32, CallPageSplitStep
  <1>33. CASE InstallOther
      BY <1>33, InstallOtherStep
  <1> QED
      BY <1>1, <1>2, <1>3, <1>4, <1>5, <1>6, <1>7, <1>8, <1>9, <1>10, <1>11, <1>12, <1>13, <1>14,
         <1>15, <1>16, <1>17, <1>18, <1>19, <1>20, <1>21, <1>22, <1>23, <1>24, <1>25, <1>26, <1>27,
         <1>28, <1>29, <1>30, <1>31, <1>32, <1>33 DEF Next

\* The runs that grew the heap stay the same, and callers get only runs that calls had.
LEMMA UsedStays ==
    ASSUME KMemInv, UsedInv, used_start' = used_start,
           HeldStructs(held') \subseteq HeldStructs(held) \cup InHand(stack) \cup Returned(stack, ret)
    PROVE  UsedInv'
  <1>1. (InHand(stack) \cup Returned(stack, ret)) \cap PageStructs(used_start) = {}
      BY DEF KMemInv, OwnOK, Kept
  <1>2. HeldStructs(held') \cap PageStructs(used_start') = {}
      BY <1>1 DEF UsedInv
  <1>3. UsedOK(used_start')
      BY DEF UsedInv
  <1> QED
      BY <1>2, <1>3 DEF UsedInv, UsedOK, HeldStructs, PageStructs, Run

LEMMA UsedSame ==
    ASSUME KMemInv, UsedInv, UNCHANGED <<held, used_start>>
    PROVE  UsedInv'
  BY UsedStays

LEMMA UsedInstall ==
    ASSUME KMemInv, UsedInv, Install
    PROVE  UsedInv'
  <1>1. StackOK(stack) /\ RetOK(stack, ret)
      BY DEF KMemInv
  <1>2. stack # <<>> /\ Top = stack[1] /\ Top \in MallocFrames /\ Top.step = "grown"
      BY <1>1, TopFacts, FrameKinds DEF Install
  <1>3. Wants(stack[1]) = "chain"
      BY <1>2, WantsFacts
  <1>4. ret \in Seq(Run) /\ Len(ret) = 1
      BY <1>1, <1>2, <1>3 DEF RetOK, Install
  <1>5. PICK r \in Run : r = ret[1]
      BY <1>4
  <1>6. Returned(stack, ret) = {r.at}
      BY <1>2, <1>3, <1>4, <1>5 DEF Returned
  <1>7. r.at \notin PageStructs(used_start) /\ r.at \notin HeldStructs(held)
      BY <1>6 DEF KMemInv, OwnOK, Kept
  <1>8. PICK w : w = used_start' /\ w = <<r>> \o used_start
      BY <1>5 DEF Install
  <1>9. UsedOK(w) /\ PageStructs(w) = PageStructs(used_start) \cup {r.at}
      BY <1>7, <1>8, UsedLonger DEF UsedInv
  <1>10. HeldStructs(held) \cap PageStructs(w) = {}
      BY <1>7, <1>9 DEF UsedInv
  <1>11. UsedOK(used_start') /\ HeldStructs(held') \cap PageStructs(used_start') = {}
      BY <1>8, <1>9, <1>10 DEF Install
  <1> QED
      BY <1>11 DEF UsedInv, UsedOK, HeldStructs, PageStructs, Run

LEMMA UsedMerge ==
    ASSUME KMemInv, UsedInv, NEW s, NEW next, MergePages(s, next), held' = held
    PROVE  UsedInv'
  <1>1. CASE used_start' = used_start
      BY <1>1, UsedSame
  <1>2. ASSUME NEW i \in Touching(used_start, s), used_start' = Swallow(used_start, i)
        PROVE  UsedInv'
    <2>1. PICK r : r = used_start' /\ r = Swallow(used_start, i)
        BY <1>2
    <2>2. PagesOK(used_start, {})
        BY DEF UsedInv, UsedOK, PagesOK
    <2>3. PagesOK(r, {}) /\ PageStructs(r) \subseteq PageStructs(used_start)
        BY <2>1, <2>2, SwallowLeaves
    <2>4. UsedOK(used_start') /\ HeldStructs(held') \cap PageStructs(used_start') = {}
        BY <2>1, <2>3 DEF UsedInv, UsedOK, PagesOK
    <2> QED
        BY <2>4 DEF UsedInv, UsedOK, HeldStructs, PageStructs, Run
  <1> QED
      BY <1>1, <1>2 DEF MergePages

LEMMA UsedDone ==
    ASSUME KMemInv, UsedInv, PageDone
    PROVE  UsedInv'
  <1>1. StackOK(stack)
      BY DEF KMemInv
  <1>2. /\ stack # <<>> /\ Top = stack[1] /\ Top \in FoundFrames /\ Top.fn = "page_alloc"
        /\ Top.step = "chain"
      BY <1>1, TopFacts, FrameKinds DEF PageDone
  <1>3. Top.page \in OneRun
      BY <1>2 DEF FoundFrames
  <1>4. PICK c \in OneRun : c = Top.page
      BY <1>3
  <1>5. c \in Seq(Run) /\ Len(c) = 1
      BY <1>4 DEF OneRun
  <1>6. c[1] \in Run
      BY <1>5
  <1>7. c[1].at \in Nat
      BY <1>6 DEF Run
  <1>8. Holds(stack[1]) = c[1].at /\ c[1].at # None
      BY <1>2, <1>4, <1>7, HoldsFacts, SizesAssumption
  <1>9. c[1].at \in InHand(stack)
      BY <1>1, <1>2, <1>8, TopHolds
  <1>10. held' = held \/ held' = held \cup {c}
      BY <1>2, <1>4 DEF PageDone, Return, Deliver
  <1>11. HeldStructs(held') \subseteq HeldStructs(held) \cup {c[1].at}
      BY <1>10 DEF HeldStructs
  <1>12. used_start' = used_start
      BY DEF PageDone
  <1> QED
      BY <1>9, <1>11, <1>12, UsedStays

LEMMA UsedSplitOff ==
    ASSUME KMemInv, UsedInv, PageSplitOff
    PROVE  UsedInv'
  <1>1. StackOK(stack) /\ RetOK(stack, ret)
      BY DEF KMemInv
  <1>2. /\ stack # <<>> /\ Top = stack[1] /\ Top \in SplitFrames /\ Top.fn = "page_split"
        /\ Top.step = "made"
      BY <1>1, TopFacts, FrameKinds DEF PageSplitOff
  <1>3. Top.page \in OneRun
      BY <1>2 DEF SplitFrames
  <1>4. Top.page[1] \in Run
      BY <1>3 DEF OneRun
  <1>5. PICK run \in Run : run = Top.page[1]
      BY <1>4
  <1>6. run.at \in Nat
      BY <1>5 DEF Run
  <1>7. run.at \in InHand(stack)
    <2>1. Holds(stack[1]) = run.at /\ run.at # None
        BY <1>2, <1>5, <1>6, HoldsFacts, SizesAssumption
    <2> QED
        BY <1>1, <1>2, <2>1, TopHolds
  <1>8. ret \in Returned(stack, ret)
      BY <1>1, <1>2, WantsFacts DEF RetOK, Returned
  <1>9. PICK a, b : a.at = run.at /\ b.at = ret /\ held' = held \cup {<<a>>, <<b>>}
    <2>1. [run EXCEPT !.count = Top.count].at = run.at
        BY <1>5 DEF Run
    <2>2. [at |-> ret, base |-> run.base + Top.count, count |-> run.count - Top.count].at = ret
        OBVIOUS
    <2>3. held' = held \cup {<<[run EXCEPT !.count = Top.count]>>,
              <<[at |-> ret, base |-> run.base + Top.count, count |-> run.count - Top.count]>>}
        BY <1>5 DEF PageSplitOff
    <2> QED
        BY <2>1, <2>2, <2>3
  <1>10. HeldStructs(held') \subseteq HeldStructs(held) \cup {run.at, ret}
      BY <1>9 DEF HeldStructs
  <1>11. used_start' = used_start
      BY DEF PageSplitOff
  <1> QED
      BY <1>7, <1>8, <1>10, <1>11, UsedStays

\* A call that joins two parts of a chain is nested.
LEMMA JoinNested ==
    ASSUME KMemInv, PageJoin
    PROVE  Len(stack) # 1
  <1>1. StackOK(stack)
      BY DEF KMemInv
  <1>2. stack # <<>> /\ Top = stack[1] /\ Top \in JoinFrames /\ Top.fn = "page_alloc"
      BY <1>1, TopFacts, FrameKinds DEF PageJoin
  <1>3. Top.nolock = TRUE
      BY <1>2 DEF JoinFrames
  <1> QED
      BY <1>1, <1>2, <1>3 DEF StackOK

\* Every step keeps the runs that grew the heap apart from the others.
LEMMA NextUsed ==
    ASSUME KMemInv, UsedInv, Next
    PROVE  UsedInv'
  <1>1. CASE AllocateWhole \/ AllocateShrink
    <2>1. UNCHANGED <<held, used_start>>
        BY <1>1 DEF AllocateWhole, AllocateShrink, Return, Deliver, At, Top
    <2> QED
        BY <2>1, UsedSame
  <1>2. CASE FreeWithSpare \/ FreeWithNew \/ PageCreated
    <2>1. UNCHANGED <<held, used_start>>
        BY <1>2 DEF FreeWithSpare, FreeWithNew, InsertFree, PageCreated, Return, Deliver, At, Top
    <2> QED
        BY <2>1, UsedSame
  <1>3. CASE GrowForever \/ InstallChain \/ PageSplitNull \/ PageExhausted \/ PageRestRelock
    <2>1. UNCHANGED <<held, used_start>>
        BY <1>3 DEF GrowForever, InstallChain, PageSplitNull, PageExhausted, PageRestRelock, Halt
    <2> QED
        BY <2>1, UsedSame
  <1>4. CASE Grow \/ FreeGetStruct \/ PageSplitCall \/ PageSplit \/ PageTake \/ PageFreshCall
             \/ PageFresh \/ PageRest \/ PageInsert \/ PageFreed
    <2>1. UNCHANGED <<held, used_start>>
        BY <1>4 DEF Grow, FreeGetStruct, PageSplitCall, PageSplit, PageTake, PageFreshCall,
                    PageFresh, PageRest, PageInsert, PageFreed
    <2> QED
        BY <2>1, UsedSame
  <1>5. CASE CallKmalloc \/ CallKfree \/ CallPageAlloc \/ CallPageCreate \/ InstallOther
    <2>1. UNCHANGED <<held, used_start>>
        BY <1>5 DEF CallKmalloc, CallKfree, CallPageAlloc, CallPageCreate, InstallOther
    <2> QED
        BY <2>1, UsedSame
  <1>6. CASE CallPageFree \/ CallPageSplit
    <2>1. used_start' = used_start /\ held' \subseteq held
        BY <1>6 DEF CallPageFree, CallPageSplit
    <2>2. HeldStructs(held') \subseteq HeldStructs(held)
        BY <2>1 DEF HeldStructs
    <2> QED
        BY <2>1, <2>2, UsedStays
  <1>7. CASE Install
      BY <1>7, UsedInstall
  <1>8. CASE PageMergeNext \/ PageMergePrev
      BY <1>8, UsedMerge DEF PageMergeNext, PageMergePrev
  <1>9. CASE PageDone
      BY <1>9, UsedDone
  <1>10. CASE PageJoin
    <2>1. UNCHANGED <<held, used_start>>
        BY <1>10, JoinNested DEF PageJoin, Return
    <2> QED
        BY <2>1, UsedSame
  <1>11. CASE PageSplitOff
      BY <1>11, UsedSplitOff
  <1> QED
      BY <1>1, <1>2, <1>3, <1>4, <1>5, <1>6, <1>7, <1>8, <1>9, <1>10, <1>11 DEF Next

LEMMA StutterInv ==
    ASSUME KMemInv, UNCHANGED vars
    PROVE  KMemInv'
  <1>1. HeapSame /\ RunsSame /\ UNCHANGED <<stack, ret>>
      BY DEF vars, heapVars, pageVars, HeapSame, RunsSame
  <1>2. StackOK(stack') /\ RetOK(stack', ret')
      BY <1>1 DEF KMemInv
  <1>3. InHand(stack') = InHand(stack) /\ Returned(stack', ret') = Returned(stack, ret)
      BY <1>1
  <1> QED
      BY <1>1, <1>2, <1>3, CallsGoOn

\* Whatever is called, in whichever order, and wherever a call stops for good: the lists,
\* the blocks, the calls in progress and what each of them owns fit together.
THEOREM KMemInvariant == Spec => [](KMemInv /\ UsedInv)
  <1>1. Init => KMemInv /\ UsedInv
    <2>1. Init => UsedInv
        BY DEF Init, UsedInv, UsedOK, HeldStructs
    <2> QED
        BY <2>1, InitInv
  <1>2. KMemInv /\ UsedInv /\ [Next]_vars => KMemInv' /\ UsedInv'
    <2>1. KMemInv /\ UsedInv /\ UNCHANGED vars => UsedInv'
        BY UsedSame DEF vars
    <2> QED
        BY <2>1, NextInv, NextUsed, StutterInv
  <1> QED
      BY <1>1, <1>2, PTL DEF Spec

\* The words of a free block, from its first to the one behind its last.
Span(e) == <<e.base, e.base + e.size>>

\* A set with an element for each number up to n, all different, has n elements.
LEMMA Counted ==
    ASSUME NEW n \in Nat, NEW F, NEW T, F \in [1..n -> T],
           \A i, j \in 1..n : F[i] = F[j] => i = j, \A t \in T : \E i \in 1..n : F[i] = t
    PROVE  Cardinality(T) = n
  <1>1. F \in Injection(1..n, T)
      BY DEF Injection, IsInjective
  <1>2. F \in Surjection(1..n, T)
      BY DEF Surjection
  <1>3. ExistsBijection(1..n, T)
      BY <1>1, <1>2 DEF ExistsBijection, Bijection
  <1> QED
      BY <1>3, FS_CountingElements

\* The free blocks: apart from each other, and as many as the list is long.
LEMMA FreeApart ==
    ASSUME NEW l, ListOK(l, {})
    PROVE  /\ \A i, j \in 1..Len(l) :
                 \/ i = j
                 \/ l[i].base + l[i].size <= l[j].base
                 \/ l[j].base + l[j].size <= l[i].base
           /\ Cardinality({Span(l[i]) : i \in 1..Len(l)}) = Len(l)
  <1>1. l \in Seq(Entry)
      BY DEF ListOK
  <1>2. PICK n \in Nat : n = Len(l)
      BY <1>1
  <1>3. Header \in Nat /\ \A i \in 1..n : l[i].base \in Nat /\ l[i].size \in Nat /\ l[i].size > Header
      BY <1>1, <1>2, EntryTypes, SizesFacts DEF ListOK
  <1>4. \A i, j \in 1..n : i < j => l[i].base + l[i].size < l[j].base
      BY <1>2 DEF ListOK
  <1>5. \A i, j \in 1..n : i < j => l[i].base + l[i].size <= l[j].base /\ l[i].base < l[j].base
      BY <1>3, <1>4
  <1>6. ASSUME NEW i \in 1..n, NEW j \in 1..n
        PROVE  i = j \/ l[i].base + l[i].size <= l[j].base \/ l[j].base + l[j].size <= l[i].base
    <2>1. i < j \/ j < i \/ i = j
        OBVIOUS
    <2> QED
        BY <1>5, <2>1
  <1>7. ASSUME NEW i \in 1..n, NEW j \in 1..n, l[i].base = l[j].base PROVE i = j
    <2>1. i < j \/ j < i \/ i = j
        OBVIOUS
    <2>2. ~(l[i].base < l[j].base) /\ ~(l[j].base < l[i].base)
        BY <1>3, <1>7
    <2> QED
        BY <1>5, <2>1, <2>2
  <1>8. PICK T : T = {Span(l[i]) : i \in 1..n}
      OBVIOUS
  <1>9. PICK F : F = [i \in 1..n |-> Span(l[i])]
      OBVIOUS
  <1>10. F \in [1..n -> T]
      BY <1>8, <1>9
  <1>11. \A i \in 1..n : F[i] = Span(l[i])
      BY <1>9
  <1>12. \A i, j \in 1..n : F[i] = F[j] => i = j
    <2>1. ASSUME NEW i \in 1..n, NEW j \in 1..n, F[i] = F[j] PROVE i = j
      <3>1. Span(l[i]) = Span(l[j])
          BY <1>11, <2>1
      <3>2. l[i].base = l[j].base
          BY <3>1 DEF Span
      <3> QED
          BY <1>7, <3>2
    <2> QED
        BY <2>1
  <1>13. \A t \in T : \E i \in 1..n : F[i] = t
      BY <1>8, <1>11
  <1>14. Cardinality(T) = n
      BY <1>10, <1>12, <1>13, Counted
  <1> QED
      BY <1>2, <1>6, <1>8, <1>14

LEMMA NoOverlapHolds ==
    ASSUME KMemInv
    PROVE  NoOverlap
  <1>1. ListOK(free, {}) /\ BlocksOK(free, blocks, vend) /\ free \in Seq(Entry)
      BY DEF KMemInv, HeapOK, ListOK
  <1>2. PICK n \in Nat : n = Len(free)
      BY <1>1
  <1>3. PICK A : A = {<<b, b + blocks[b]>> : b \in DOMAIN blocks}
      OBVIOUS
  <1>4. PICK V : V = {Span(free[i]) : i \in 1..n}
      OBVIOUS
  <1>5. {<<e.base, e.base + e.size>> : e \in Entries} = V
      BY <1>2, <1>4 DEF Entries, Span
  <1>6. /\ \A i, j \in 1..n :
              \/ i = j
              \/ free[i].base + free[i].size <= free[j].base
              \/ free[j].base + free[j].size <= free[i].base
        /\ Cardinality(V) = n
      BY <1>1, <1>2, <1>4, FreeApart
  <1>7. Header \in Nat /\ \A i \in 1..n : /\ free[i].base \in Nat /\ free[i].size \in Nat
                                           /\ free[i].size > Header
      BY <1>1, <1>2, EntryTypes, SizesFacts DEF ListOK
  <1>8. \A b \in DOMAIN blocks : b \in Nat /\ blocks[b] \in Nat /\ blocks[b] > Header
      BY <1>1 DEF BlocksOK
  <1>9. \A b \in DOMAIN blocks, i \in 1..n :
           b + blocks[b] <= free[i].base \/ free[i].base + free[i].size <= b
      BY <1>1, <1>2 DEF BlocksOK
  <1>10. A \cap V = {}
    <2>1. ASSUME NEW b \in DOMAIN blocks, NEW i \in 1..n PROVE <<b, b + blocks[b]>> # Span(free[i])
      <3>1. b # free[i].base
          BY <1>7, <1>8, <1>9
      <3> QED
          BY <3>1 DEF Span
    <2> QED
        BY <1>3, <1>4, <2>1
  <1>11. ASSUME NEW x \in A \cup V, NEW y \in A \cup V, x # y
         PROVE  x[2] <= y[1] \/ y[2] <= x[1]
    <2>1. CASE x \in A /\ y \in A
      <3>1. PICK b \in DOMAIN blocks : x = <<b, b + blocks[b]>>
          BY <1>3, <2>1
      <3>2. PICK c \in DOMAIN blocks : y = <<c, c + blocks[c]>>
          BY <1>3, <2>1
      <3>3. b # c
          BY <1>11, <3>1, <3>2
      <3>4. b + blocks[b] <= c \/ c + blocks[c] <= b
          BY <1>1, <3>3 DEF BlocksOK
      <3> QED
          BY <3>1, <3>2, <3>4
    <2>2. CASE x \in A /\ y \in V
      <3>1. PICK b \in DOMAIN blocks : x = <<b, b + blocks[b]>>
          BY <1>3, <2>2
      <3>2. PICK i \in 1..n : y = Span(free[i])
          BY <1>4, <2>2
      <3>3. b + blocks[b] <= free[i].base \/ free[i].base + free[i].size <= b
          BY <1>9
      <3> QED
          BY <3>1, <3>2, <3>3 DEF Span
    <2>3. CASE x \in V /\ y \in A
      <3>1. PICK b \in DOMAIN blocks : y = <<b, b + blocks[b]>>
          BY <1>3, <2>3
      <3>2. PICK i \in 1..n : x = Span(free[i])
          BY <1>4, <2>3
      <3>3. b + blocks[b] <= free[i].base \/ free[i].base + free[i].size <= b
          BY <1>9
      <3> QED
          BY <3>1, <3>2, <3>3 DEF Span
    <2>4. CASE x \in V /\ y \in V
      <3>1. PICK i \in 1..n : x = Span(free[i])
          BY <1>4, <2>4
      <3>2. PICK j \in 1..n : y = Span(free[j])
          BY <1>4, <2>4
      <3>3. i # j
          BY <1>11, <3>1, <3>2
      <3>4. \/ free[i].base + free[i].size <= free[j].base
            \/ free[j].base + free[j].size <= free[i].base
          BY <1>6, <3>3
      <3> QED
          BY <3>1, <3>2, <3>4 DEF Span
    <2> QED
        BY <1>11, <2>1, <2>2, <2>3, <2>4
  <1> QED
      BY <1>2, <1>3, <1>5, <1>6, <1>10, <1>11 DEF NoOverlap

LEMMA JoinedItems ==
    ASSUME NEW S, NEW a \in Seq(S), NEW b \in Seq(S)
    PROVE  \A i \in 1..(Len(a) + Len(b)) :
               (a \o b)[i] = IF i <= Len(a) THEN a[i] ELSE b[i - Len(a)]
  OBVIOUS

\* The structs of the list, then the spare ones: no struct is there twice.
LEMMA StructsApart ==
    ASSUME NEW l \in Seq(Entry), NEW s, StructsOK(l, s),
           NEW q, q = [i \in 1..Len(l) |-> l[i].at] \o s
    PROVE  IsInjective(q) /\ \A i \in 1..Len(q) : q[i] \in Structs(l, s)
  <1>1. PICK n \in Nat : n = Len(l)
      OBVIOUS
  <1>2. s \in Seq(Nat)
      BY DEF StructsOK
  <1>3. PICK m \in Nat : m = Len(s)
      BY <1>2
  <1>4. PICK a : a = [i \in 1..n |-> l[i].at]
      OBVIOUS
  <1>5. \A i \in 1..n : l[i].at \in Nat
      BY <1>1, EntryTypes
  <1>6. a \in Seq(Nat) /\ Len(a) = n /\ \A i \in 1..n : a[i] = l[i].at
      BY <1>4, <1>5
  <1>7. q = a \o s
      BY <1>1, <1>4
  <1>8. /\ q \in Seq(Nat) /\ Len(q) = n + m
        /\ \A i \in 1..(n + m) : q[i] = IF i <= n THEN a[i] ELSE s[i - n]
    <2>1. a \o s \in Seq(Nat) /\ Len(a \o s) = Len(a) + Len(s)
        BY <1>2, <1>6, JoinedLength, Zenon
    <2>2. \A i \in 1..(Len(a) + Len(s)) :
              (a \o s)[i] = IF i <= Len(a) THEN a[i] ELSE s[i - Len(a)]
        BY <1>2, <1>6, JoinedItems, Zenon
    <2>3. Len(a) = n /\ Len(s) = m
        BY <1>3, <1>6, Zenon
    <2> QED
        BY <1>7, <2>1, <2>2, <2>3, Zenon
  <1>9. DOMAIN q = 1..(n + m)
      BY <1>8
  <1>10. ASSUME NEW i \in 1..(n + m)
         PROVE  \/ i \in 1..n /\ q[i] = l[i].at
                \/ i > n /\ i - n \in 1..m /\ q[i] = s[i - n]
      BY <1>1, <1>3, <1>6, <1>8
  <1>11. ASSUME NEW i \in 1..(n + m), NEW j \in 1..(n + m), q[i] = q[j] PROVE i = j
    <2>1. CASE i \in 1..n /\ j \in 1..n /\ q[i] = l[i].at /\ q[j] = l[j].at
        BY <1>1, <1>11, <2>1 DEF StructsOK
    <2>2. CASE i \in 1..n /\ q[i] = l[i].at /\ j - n \in 1..m /\ q[j] = s[j - n]
        BY <1>1, <1>3, <1>11, <2>2 DEF StructsOK
    <2>3. CASE j \in 1..n /\ q[j] = l[j].at /\ i - n \in 1..m /\ q[i] = s[i - n]
        BY <1>1, <1>3, <1>11, <2>3 DEF StructsOK
    <2>4. CASE i - n \in 1..m /\ q[i] = s[i - n] /\ j - n \in 1..m /\ q[j] = s[j - n]
      <3>1. i - n = j - n
          BY <1>3, <1>11, <2>4 DEF StructsOK
      <3> QED
          BY <1>1, <1>3, <3>1
    <2> QED
        BY <1>10, <2>1, <2>2, <2>3, <2>4
  <1>12. IsInjective(q)
      BY <1>9, <1>11 DEF IsInjective
  <1>13. ASSUME NEW i \in 1..(n + m) PROVE q[i] \in Structs(l, s)
      BY <1>1, <1>3, <1>10 DEF Structs
  <1> QED
      BY <1>8, <1>12, <1>13

LEMMA StructsOwnedHolds ==
    ASSUME KMemInv
    PROVE  StructsOwned
  <1>1. free \in Seq(Entry) /\ StructsOK(free, spare)
      BY DEF KMemInv, HeapOK, ListOK
  <1>2. Structs(free, spare) \subseteq DOMAIN blocks \ user
      BY DEF KMemInv, OwnOK
  <1>3. PICK q : q = [i \in 1..Len(free) |-> free[i].at] \o spare
      OBVIOUS
  <1>4. IsInjective(q) /\ \A i \in 1..Len(q) : q[i] \in Structs(free, spare)
      BY <1>1, <1>3, StructsApart
  <1> QED
      BY <1>2, <1>3, <1>4 DEF StructsOwned

LEMMA ListInOrderHolds ==
    ASSUME KMemInv
    PROVE  ListInOrder
  <1>1. ListOK(free, {}) /\ free_end = EndOf(free) /\ free \in Seq(Entry)
      BY DEF KMemInv, HeapOK, ListOK
  <1>2. \A i \in 1..Len(free) - 1 : i \in 1..Len(free) /\ i + 1 \in 1..Len(free) /\ i < i + 1
      BY <1>1
  <1>3. \A i \in 1..Len(free) - 1 : free[i].base + free[i].size < free[i + 1].base
      BY <1>1, <1>2 DEF ListOK
  <1>4. \A e \in Entries : e.size > Header
      BY <1>1 DEF ListOK, Entries
  <1>5. free_end = IF free = <<>> THEN None ELSE Last(free).at
      BY <1>1 DEF EndOf, Last
  <1> QED
      BY <1>3, <1>4, <1>5 DEF ListInOrder

-----------------------------------------------------------------------------
(* The order of the free runs                                              *)

\* The run a call has in its hands, and all that may be put in the list again.
RunOf(f) ==
    CASE f.fn = "page_alloc" /\ f.step = "chain" -> {f.page[1]}
      [] f.fn = "page_free" /\ f.step = "insert" -> {f.chain[1]}
      [] f.fn = "page_split" -> {f.page[1]}
      [] OTHER -> {}
RunsIn(s) == UNION {RunOf(s[k]) : k \in 1..Len(s)}
Listed(l) == {l[i] : i \in 1..Len(l)}
HeldRuns(h) == {c[1] : c \in h}
Runs(l, h, s) == Listed(l) \cup HeldRuns(h) \cup RunsIn(s)

\* No page is in two of the runs S.
Separate(S) == \A r, q \in S : r # q /\ r.count > 0 /\ q.count > 0 => Beside(r, q)

\* None of their pages will be given out as memory that was never used.
Left(cm) == {i \in (cm + 1)..Len(Regions) : Regions[i].usable}
EndOfRegion(cm) == Regions[cm].base + Regions[cm].length
Used(r, ap, cm) ==
    /\ ap < EndOfRegion(cm) => r.base + r.count <= ap \/ EndOfRegion(cm) <= r.base
    /\ \A i \in Left(cm) : Area(i).count > 0 => Beside(r, Area(i))
AllUsed(S, ap, cm) ==
    /\ \A r \in S : r.count > 0 => Used(r, ap, cm)
    /\ Regions[cm].base <= ap /\ ap <= EndOfRegion(cm) /\ InUse(cm)

\* The structs of neighbours that page::free has still to merge.
LooseOf(f) ==
    CASE f.fn = "page_free" /\ f.step = "merge" ->
             {<<f.prev, f.chain[1].at>>} \cup ({f.chain[1].at} \X Nat)
      [] f.fn = "page_free" /\ f.step = "merge_prev" -> {f.prev} \X Nat
      [] OTHER -> {}
Loose(s) == IF s = <<>> THEN {} ELSE LooseOf(s[Len(s)])

\* Every run ends before the next, unless that one is empty: or it ends where the next
\* begins, and the two have still to be merged.  Page::alloc may empty the first run alone.
Ordered(l, T) ==
    \A i \in 1..(Len(l) - 1) :
        \/ l[i].base + l[i].count < l[i + 1].base
        \/ l[i + 1].count <= 0
        \/ /\ l[i].base + l[i].count = l[i + 1].base /\ <<l[i].at, l[i + 1].at>> \in T
           /\ i = 1 \/ l[i].count > 0

\* Callers hold, free and split runs that are not empty; Page::split leaves something.
Full(h) == \A c \in h : c[1].count > 0
Cut(f) ==
    /\ f.fn = "page_split" => f.count < f.page[1].count
    /\ f.fn = "page_free" /\ f.step = "insert" => f.chain[1].count > 0
Cuts(s) == \A k \in 1..Len(s) : Cut(s[k])

RunsInv ==
    halted = "no" =>
        /\ Ordered(page_free, Loose(stack))
        /\ Separate(Runs(page_free, held, stack))
        /\ AllUsed(Runs(page_free, held, stack), alloc_pointer, current_map)
        /\ Cuts(stack) /\ Full(held)

LEMMA NoLength == ASSUME NEW S, NEW q \in Seq(S) PROVE q = <<>> <=> Len(q) = 0
  OBVIOUS

\* Which calls have a run in their hands, and which have something to merge.
LEMMA RunOfFacts ==
    ASSUME NEW f
    PROVE  /\ f.fn = "page_alloc" /\ f.step = "chain" => RunOf(f) = {f.page[1]}
           /\ f.fn = "page_free" /\ f.step = "insert" => RunOf(f) = {f.chain[1]}
           /\ f.fn = "page_split" => RunOf(f) = {f.page[1]}
           /\ f.fn = "page_alloc" /\ f.step # "chain" => RunOf(f) = {}
           /\ f.fn = "page_free" /\ f.step # "insert" => RunOf(f) = {}
           /\ f.fn \in {"kmalloc", "kfree", "page_create"} => RunOf(f) = {}
  BY DEF RunOf

LEMMA LooseOfFacts ==
    ASSUME NEW f
    PROVE  /\ f.fn = "page_free" /\ f.step = "merge" => 
                 LooseOf(f) = {<<f.prev, f.chain[1].at>>} \cup ({f.chain[1].at} \X Nat)
           /\ f.fn = "page_free" /\ f.step = "merge_prev" => LooseOf(f) = {f.prev} \X Nat
           /\ f.fn = "page_free" /\ f.step \notin {"merge", "merge_prev"} => LooseOf(f) = {}
           /\ f.fn # "page_free" => LooseOf(f) = {}
  BY DEF LooseOf

LEMMA CutFacts ==
    ASSUME NEW f
    PROVE  /\ f.fn \notin {"page_split", "page_free"} => Cut(f)
           /\ f.fn = "page_free" /\ f.step # "insert" => Cut(f)
  BY DEF Cut

\* The runs in hand and what is loose after the innermost call has gone on, called
\* another, or returned.
LEMMA RunsResumed ==
    ASSUME NEW F, NEW s \in Seq(F), s # <<>>, NEW g, NEW t, t = Resumed(g, s)
    PROVE  /\ RunsIn(t) \subseteq RunsIn(s) \cup RunOf(g)
           /\ LooseOf(g) = LooseOf(s[1]) => Loose(t) = Loose(s)
           /\ Tail(s) = <<>> => Loose(t) = LooseOf(g)
           /\ Cuts(s) /\ Cut(g) => Cuts(t)
  <1>1. PICK n \in Nat : n = Len(s) /\ n > 0
      OBVIOUS
  <1>2. t \in Seq(F \cup {g}) /\ Len(t) = n /\ t[1] = g /\ \A k \in 2..n : t[k] = s[k]
    <2>1. s \in Seq(F \cup {g}) /\ g \in F \cup {g}
        OBVIOUS
    <2>2. PICK G : G = F \cup {g}
        OBVIOUS
    <2> QED
        BY <1>1, <2>1, <2>2 DEF Resumed
  <1>3. ASSUME NEW x \in RunsIn(t) PROVE x \in RunsIn(s) \cup RunOf(g)
    <2>1. PICK k \in 1..n : x \in RunOf(t[k])
        BY <1>2 DEF RunsIn
    <2> QED
        BY <1>1, <1>2, <2>1 DEF RunsIn
  <1>4. t # <<>> /\ t[n] = IF n = 1 THEN g ELSE s[n]
      BY <1>1, <1>2
  <1>5. Tail(s) = <<>> <=> n = 1
    <2>1. PICK q : q = Tail(s)
        OBVIOUS
    <2>2. q \in Seq(F) /\ Len(q) = n - 1
        BY <1>1, <2>1
    <2> QED
        BY <1>1, <2>1, <2>2
  <1>6. ASSUME Cuts(s), Cut(g) PROVE Cuts(t)
      BY <1>1, <1>2, <1>6 DEF Cuts
  <1> QED
      BY <1>1, <1>2, <1>3, <1>4, <1>5, <1>6 DEF Loose

LEMMA RunsCalled ==
    ASSUME NEW F, NEW s \in Seq(F), s # <<>>, NEW f, NEW g, NEW t, t = Called(f, g, s)
    PROVE  /\ RunsIn(t) \subseteq RunsIn(s) \cup RunOf(f) \cup RunOf(g)
           /\ LooseOf(g) = LooseOf(s[1]) => Loose(t) = Loose(s)
           /\ Tail(s) = <<>> => Loose(t) = LooseOf(g)
           /\ Cuts(s) /\ Cut(f) /\ Cut(g) => Cuts(t)
  <1>1. PICK n \in Nat : n = Len(s) /\ n > 0
      OBVIOUS
  <1>2. /\ t \in Seq(F \cup {f, g}) /\ Len(t) = n + 1 /\ t[1] = f /\ t[2] = g
        /\ \A k \in 3..(n + 1) : t[k] = s[k - 1]
    <2>1. s \in Seq(F \cup {f, g}) /\ {f, g} \subseteq F \cup {f, g}
        OBVIOUS
    <2>2. PICK G : G = F \cup {f, g}
        OBVIOUS
    <2> QED
        BY <1>1, <2>1, <2>2 DEF Called
  <1>3. ASSUME NEW x \in RunsIn(t) PROVE x \in RunsIn(s) \cup RunOf(f) \cup RunOf(g)
    <2>1. PICK k \in 1..(n + 1) : x \in RunOf(t[k])
        BY <1>2 DEF RunsIn
    <2>2. CASE k < 3
      <3>1. k = 1 \/ k = 2
          BY <2>2
      <3> QED
          BY <1>2, <2>1, <3>1
    <2>3. CASE k >= 3
      <3>1. k - 1 \in 1..n /\ t[k] = s[k - 1]
          BY <1>1, <1>2, <2>3
      <3> QED
          BY <1>1, <2>1, <3>1 DEF RunsIn
    <2> QED
        BY <2>2, <2>3
  <1>4. t[n + 1] = IF n = 1 THEN g ELSE s[n]
    <2>1. CASE n = 1
      <3>1. n + 1 = 2
          BY <2>1
      <3> QED
          BY <1>2, <2>1, <3>1
    <2>2. CASE n # 1
      <3>1. n + 1 \in 3..(n + 1) /\ (n + 1) - 1 = n
          BY <1>1, <2>2
      <3> QED
          BY <1>2, <2>2, <3>1
    <2> QED
        BY <2>1, <2>2
  <1>5. Tail(s) = <<>> <=> n = 1
    <2>1. PICK q : q = Tail(s)
        OBVIOUS
    <2>2. q \in Seq(F) /\ Len(q) = n - 1
        BY <1>1, <2>1
    <2> QED
        BY <1>1, <2>1, <2>2
  <1>6. t # <<>>
      BY <1>1, <1>2
  <1>7. ASSUME Cuts(s), Cut(f), Cut(g) PROVE Cuts(t)
    <2>1. ASSUME NEW k \in 1..(n + 1) PROVE Cut(t[k])
      <3>1. CASE k < 3
          BY <1>2, <1>7, <3>1
      <3>2. CASE k >= 3
        <4>1. k - 1 \in 1..n /\ t[k] = s[k - 1]
            BY <1>1, <1>2, <3>2
        <4> QED
            BY <1>1, <1>7, <4>1 DEF Cuts
      <3> QED
          BY <3>1, <3>2
    <2> QED
        BY <1>2, <2>1 DEF Cuts
  <1> QED
      BY <1>1, <1>2, <1>3, <1>4, <1>5, <1>6, <1>7 DEF Loose

LEMMA RunsReturned ==
    ASSUME NEW s \in Seq(Frames), s # <<>>, NEW t, t = Tail(s)
    PROVE  /\ RunsIn(t) \subseteq RunsIn(s)
           /\ LooseOf(s[1]) = {} => Loose(t) = Loose(s)
           /\ Cuts(s) => Cuts(t)
  <1>1. PICK n \in Nat : n = Len(s) /\ n > 0
      OBVIOUS
  <1>2. t \in Seq(Frames) /\ Len(t) = n - 1 /\ \A k \in 1..(n - 1) : t[k] = s[k + 1]
      BY <1>1
  <1>3. ASSUME NEW x \in RunsIn(t) PROVE x \in RunsIn(s)
    <2>1. PICK k \in 1..(n - 1) : x \in RunOf(t[k])
        BY <1>2 DEF RunsIn
    <2>2. k + 1 \in 1..n /\ t[k] = s[k + 1]
        BY <1>1, <1>2
    <2> QED
        BY <1>1, <2>1, <2>2 DEF RunsIn
  <1>4. t = <<>> <=> n = 1
    <2>1. t = <<>> <=> Len(t) = 0
        BY <1>2, NoLength
    <2> QED
        BY <1>1, <1>2, <2>1
  <1>5. ASSUME Cuts(s) PROVE Cuts(t)
    <2>1. ASSUME NEW k \in 1..(n - 1) PROVE Cut(t[k])
      <3>1. k + 1 \in 1..n /\ t[k] = s[k + 1]
          BY <1>1, <1>2
      <3> QED
          BY <1>1, <1>5, <3>1 DEF Cuts
    <2> QED
        BY <1>2, <2>1 DEF Cuts
  <1>6. CASE n = 1
      BY <1>1, <1>2, <1>3, <1>5, <1>6 DEF Loose
  <1>7. CASE n # 1
    <2>1. n - 1 \in 1..(n - 1) /\ (n - 1) + 1 = n
        BY <1>1, <1>7
    <2>2. t[n - 1] = s[n]
        BY <1>2, <2>1
    <2> QED
        BY <1>1, <1>2, <1>3, <1>4, <1>5, <1>7, <2>2 DEF Loose
  <1> QED
      BY <1>6, <1>7

\* The innermost call has its run among those in hand.
LEMMA TopRuns ==
    ASSUME NEW s \in Seq(Frames), s # <<>>
    PROVE  RunOf(s[1]) \subseteq RunsIn(s)
  <1>1. 1 \in 1..Len(s)
      OBVIOUS
  <1> QED
      BY <1>1 DEF RunsIn

\* A call from outside.
LEMMA RunsBegun ==
    ASSUME NEW f, NEW g
    PROVE  /\ RunsIn(<<f>>) = RunOf(f) /\ RunsIn(<<f, g>>) = RunOf(f) \cup RunOf(g)
           /\ Loose(<<f>>) = LooseOf(f) /\ Loose(<<f, g>>) = LooseOf(g)
           /\ RunsIn(<<>>) = {} /\ Loose(<<>>) = {} /\ Cuts(<<>>)
           /\ Cut(f) => Cuts(<<f>>)
           /\ Cut(f) /\ Cut(g) => Cuts(<<f, g>>)
  <1>1. 1..1 = {1} /\ 1..2 = {1, 2} /\ 1..0 = {}
      OBVIOUS
  <1>2. RunsIn(<<f>>) = RunOf(f) /\ RunsIn(<<>>) = {}
      BY <1>1 DEF RunsIn
  <1>3. RunsIn(<<f, g>>) = RunOf(f) \cup RunOf(g)
      BY <1>1 DEF RunsIn
  <1>4. Cuts(<<>>) /\ (Cut(f) => Cuts(<<f>>)) /\ (Cut(f) /\ Cut(g) => Cuts(<<f, g>>))
      BY <1>1 DEF Cuts
  <1> QED
      BY <1>2, <1>3, <1>4 DEF Loose

\* Fewer runs.
LEMMA FewerRuns ==
    ASSUME NEW S, NEW T, T \subseteq S, NEW ap, NEW cm, Separate(S), AllUsed(S, ap, cm)
    PROVE  Separate(T) /\ AllUsed(T, ap, cm)
  <1>1. Separate(T)
      BY DEF Separate
  <1>2. AllUsed(T, ap, cm)
      BY DEF AllUsed
  <1> QED
      BY <1>1, <1>2

\* The list of free runs stays as it is.
ListSame == UNCHANGED <<page_free, alloc_pointer, current_map>>

LEMMA RunsStay ==
    ASSUME RunsInv, halted = "no", ListSame, Loose(stack') = Loose(stack), Cuts(stack) => Cuts(stack'),
           Full(held) => Full(held'),
           HeldRuns(held') \cup RunsIn(stack') \subseteq HeldRuns(held) \cup RunsIn(stack)
    PROVE  RunsInv'
  <1>1. PICK S : S = Runs(page_free, held, stack)
      OBVIOUS
  <1>2. PICK T : T = Runs(page_free', held', stack')
      OBVIOUS
  <1>3. T \subseteq S
      BY <1>1, <1>2 DEF Runs, ListSame
  <1>4. Ordered(page_free, Loose(stack)) /\ Separate(S) /\ AllUsed(S, alloc_pointer, current_map)
        /\ Cuts(stack') /\ Full(held')
      BY <1>1 DEF RunsInv
  <1>5. Separate(T) /\ AllUsed(T, alloc_pointer, current_map)
      BY <1>3, <1>4, FewerRuns
  <1>6. Ordered(page_free', Loose(stack')) /\ AllUsed(T, alloc_pointer', current_map')
      BY <1>4, <1>5 DEF ListSame
  <1> QED
      BY <1>2, <1>4, <1>5, <1>6 DEF RunsInv

\* A call returns that has no run.
LEMMA ReturnKeepsRuns ==
    ASSUME KMemInv, RunsInv, halted = "no", stack # <<>>, Top = stack[1],
           Top.fn \in {"kmalloc", "kfree", "page_create"}, NEW v, Return(v), ListSame
    PROVE  RunsInv'
  <1>1. stack \in Seq(Frames)
      BY DEF KMemInv, StackOK
  <1>2. held' = held
      BY DEF Return, Deliver
  <1>3. PICK t : t = stack' /\ t = Tail(stack)
      BY DEF Return
  <1>4. LooseOf(stack[1]) = {}
      BY LooseOfFacts
  <1>5. RunsIn(t) \subseteq RunsIn(stack) /\ Loose(t) = Loose(stack) /\ (Cuts(stack) => Cuts(t))
      BY <1>1, <1>3, <1>4, RunsReturned
  <1> QED
      BY <1>2, <1>3, <1>5, RunsStay

LEMMA KmallocReturns ==
    ASSUME KMemInv, RunsInv, AllocateWhole \/ AllocateShrink
    PROVE  RunsInv'
  <1>1. /\ At("kmalloc", "try") /\ halted = "no" /\ ListSame
        /\ \E v : Return(v)
      BY DEF AllocateWhole, AllocateShrink, At, pageVars, ListSame
  <1>2. stack # <<>> /\ Top = stack[1] /\ Top.fn = "kmalloc"
      BY <1>1, TopFacts DEF KMemInv
  <1> QED
      BY <1>1, <1>2, ReturnKeepsRuns

LEMMA KfreeReturns ==
    ASSUME KMemInv, RunsInv, FreeWithSpare \/ FreeWithNew
    PROVE  RunsInv'
  <1>1. /\ At("kfree", "start") \/ At("kfree", "got")
        /\ halted = "no" /\ ListSame /\ Return(None)
      BY DEF FreeWithSpare, FreeWithNew, InsertFree, At, pageVars, ListSame
  <1>2. stack # <<>> /\ Top = stack[1] /\ Top.fn = "kfree"
      BY <1>1, TopFacts DEF KMemInv
  <1> QED
      BY <1>1, <1>2, ReturnKeepsRuns

LEMMA CreateReturns ==
    ASSUME KMemInv, RunsInv, PageCreated
    PROVE  RunsInv'
  <1>1. At("page_create", "made") /\ halted = "no" /\ ListSame /\ Return(None)
      BY DEF PageCreated, At, pageVars, ListSame
  <1>2. stack # <<>> /\ Top = stack[1] /\ Top.fn = "page_create"
      BY <1>1, TopFacts DEF KMemInv
  <1> QED
      BY <1>1, <1>2, ReturnKeepsRuns

\* A call calls another and gives it no run.
LEMMA CallKeepsRuns ==
    ASSUME KMemInv, RunsInv, halted = "no", stack # <<>>, ListSame, held' = held, NEW f, NEW g,
           stack' = Called(f, g, stack), RunOf(f) = {}, RunOf(g) = {},
           LooseOf(g) = LooseOf(stack[1]), Cut(f), Cut(g)
    PROVE  RunsInv'
  <1>1. stack \in Seq(Frames)
      BY DEF KMemInv, StackOK
  <1>2. PICK t : t = stack' /\ t = Called(f, g, stack)
      OBVIOUS
  <1>3. /\ RunsIn(t) \subseteq RunsIn(stack) \cup RunOf(f) \cup RunOf(g)
        /\ Loose(t) = Loose(stack) /\ (Cuts(stack) => Cuts(t))
      BY <1>1, <1>2, RunsCalled
  <1> QED
      BY <1>2, <1>3, RunsStay

LEMMA MallocHasNone ==
    ASSUME NEW size, NEW reserved, NEW f, f = Malloc(size, reserved)
    PROVE  RunOf(f) = {} /\ Cut(f)
  <1>1. f.fn = "kmalloc"
      BY DEF Malloc
  <1> QED
      BY <1>1, RunOfFacts, CutFacts

LEMMA AllocHasNone ==
    ASSUME NEW count, NEW reserved, NEW nolock, NEW f, f = PageAlloc(count, reserved, nolock)
    PROVE  RunOf(f) = {} /\ Cut(f)
  <1>1. f.fn = "page_alloc" /\ f.step # "chain"
      BY DEF PageAlloc
  <1> QED
      BY <1>1, RunOfFacts, CutFacts

LEMMA GrowRuns ==
    ASSUME KMemInv, RunsInv, Grow
    PROVE  RunsInv'
  <1>1. StackOK(stack)
      BY DEF KMemInv
  <1>2. stack # <<>> /\ Top = stack[1] /\ Top \in MallocFrames /\ halted = "no"
      BY <1>1, TopFacts, FrameKinds DEF Grow, At
  <1>3. PICK f : f = PageAlloc(PagesNeeded(Top), TRUE, TRUE)
      OBVIOUS
  <1>4. PICK g : g = [Top EXCEPT !.step = "grown", !.prev = LastPassed(Top)]
      OBVIOUS
  <1>5. g.fn = "kmalloc" /\ Top.fn = "kmalloc"
      BY <1>2, <1>4 DEF MallocFrames
  <1>6. RunOf(f) = {} /\ Cut(f)
      BY <1>3, AllocHasNone
  <1>8. RunOf(g) = {} /\ LooseOf(g) = {} /\ LooseOf(stack[1]) = {} /\ Cut(g)
      BY <1>2, <1>5, RunOfFacts, LooseOfFacts, CutFacts
  <1>7. ListSame /\ held' = held /\ stack' = Called(f, g, stack)
      BY <1>3, <1>4 DEF Grow, pageVars, ListSame, Called
  <1> QED
      BY <1>2, <1>6, <1>7, <1>8, CallKeepsRuns

LEMMA GetStructRuns ==
    ASSUME KMemInv, RunsInv, FreeGetStruct
    PROVE  RunsInv'
  <1>1. StackOK(stack)
      BY DEF KMemInv
  <1>2. stack # <<>> /\ Top = stack[1] /\ Top \in KfreeFrames /\ halted = "no"
      BY <1>1, TopFacts, FrameKinds DEF FreeGetStruct, At
  <1>3. PICK f : f = Malloc(FreeStruct, TRUE)
      OBVIOUS
  <1>4. PICK g : g = [Top EXCEPT !.step = "got"]
      OBVIOUS
  <1>5. g.fn = "kfree" /\ Top.fn = "kfree"
      BY <1>2, <1>4 DEF KfreeFrames
  <1>6. RunOf(f) = {} /\ Cut(f)
      BY <1>3, MallocHasNone
  <1>8. RunOf(g) = {} /\ LooseOf(g) = {} /\ LooseOf(stack[1]) = {} /\ Cut(g)
      BY <1>2, <1>5, RunOfFacts, LooseOfFacts, CutFacts
  <1>7. ListSame /\ held' = held /\ stack' = Called(f, g, stack)
      BY <1>3, <1>4 DEF FreeGetStruct, Call, pageVars, ListSame, Called
  <1> QED
      BY <1>2, <1>6, <1>7, <1>8, CallKeepsRuns

\* page::alloc calls kmalloc, or itself.
LEMMA AllocCallsRuns ==
    ASSUME KMemInv, RunsInv, PageSplitCall \/ PageFreshCall \/ PageRest
    PROVE  RunsInv'
  <1>1. StackOK(stack)
      BY DEF KMemInv
  <1>2. /\ stack # <<>> /\ Top = stack[1] /\ Top \in Frames /\ Top.fn = "page_alloc"
        /\ halted = "no" /\ Top.step \in {"start", "chain"}
      BY <1>1, TopFacts DEF PageSplitCall, PageFreshCall, PageRest, At
  <1>3. Top \in AskingFrames \/ Top \in FoundFrames
      BY <1>2, FrameKinds
  <1>4. PICK f : /\ RunOf(f) = {} /\ Cut(f)
                 /\ \E next \in {"split", "fresh", "joined"} : Call(f, next)
      BY MallocHasNone, AllocHasNone DEF PageSplitCall, PageFreshCall, PageRest
  <1>5. PICK next \in {"split", "fresh", "joined"} : Call(f, next)
      BY <1>4
  <1>6. PICK g : g = [Top EXCEPT !.step = next]
      OBVIOUS
  <1>7. g.fn = "page_alloc" /\ g.step # "chain"
      BY <1>3, <1>6 DEF AskingFrames, FoundFrames
  <1>8. RunOf(g) = {} /\ LooseOf(g) = {} /\ LooseOf(stack[1]) = {} /\ Cut(g)
      BY <1>2, <1>7, RunOfFacts, LooseOfFacts, CutFacts
  <1>9. ListSame /\ held' = held /\ stack' = Called(f, g, stack)
      BY <1>5, <1>6 DEF PageSplitCall, PageFreshCall, PageRest, Call, pageVars, ListSame, Called
  <1> QED
      BY <1>2, <1>4, <1>8, <1>9, CallKeepsRuns

LEMMA InstallRuns ==
    ASSUME KMemInv, RunsInv, Install
    PROVE  RunsInv'
  <1>1. stack \in Seq(Frames) /\ StackOK(stack)
      BY DEF KMemInv, StackOK
  <1>2. stack # <<>> /\ Top = stack[1] /\ Top \in MallocFrames /\ halted = "no"
      BY <1>1, TopFacts, FrameKinds DEF Install, At
  <1>3. PICK g : g = [Top EXCEPT !.step = "try", !.prev = None]
      OBVIOUS
  <1>4. g.fn = "kmalloc" /\ Top.fn = "kmalloc"
      BY <1>2, <1>3 DEF MallocFrames
  <1>5. RunOf(g) = {} /\ LooseOf(g) = {} /\ LooseOf(stack[1]) = {} /\ Cut(g)
      BY <1>2, <1>4, RunOfFacts, LooseOfFacts, CutFacts
  <1>6. ListSame /\ held' = held
      BY DEF Install, pageVars, ListSame
  <1>7. PICK t : t = stack' /\ t = Resumed(g, stack)
      BY <1>3 DEF Install, Resumed
  <1>8. /\ RunsIn(t) \subseteq RunsIn(stack) \cup RunOf(g)
        /\ Loose(t) = Loose(stack) /\ (Cuts(stack) => Cuts(t))
      BY <1>1, <1>2, <1>4, <1>5, <1>7, RunsResumed
  <1> QED
      BY <1>2, <1>5, <1>6, <1>7, <1>8, RunsStay

\* A chain goes to the heap, or its only run to the caller outside.
LEMMA PageDoneRuns ==
    ASSUME KMemInv, RunsInv, PageDone
    PROVE  RunsInv'
  <1>1. stack \in Seq(Frames) /\ StackOK(stack)
      BY DEF KMemInv, StackOK
  <1>2. /\ stack # <<>> /\ Top = stack[1] /\ Top.fn = "page_alloc" /\ Top.step = "chain"
        /\ halted = "no"
      BY <1>1, TopFacts DEF PageDone, At
  <1>3. RunOf(stack[1]) = {Top.page[1]} /\ LooseOf(stack[1]) = {}
      BY <1>2, RunOfFacts, LooseOfFacts
  <1>4. Top.page[1] \in RunsIn(stack)
      BY <1>1, <1>2, <1>3, TopRuns
  <1>5. PICK t : t = stack' /\ t = Tail(stack)
      BY DEF PageDone, Return
  <1>6. RunsIn(t) \subseteq RunsIn(stack) /\ Loose(t) = Loose(stack) /\ (Cuts(stack) => Cuts(t))
      BY <1>1, <1>2, <1>3, <1>5, RunsReturned
  <1>7. held' = held \/ held' = held \cup {Top.page}
      BY <1>2 DEF PageDone, Return, Deliver
  <1>8. HeldRuns(held') \subseteq HeldRuns(held) \cup RunsIn(stack)
      BY <1>4, <1>7 DEF HeldRuns
  <1>9. ListSame
      BY DEF PageDone, pageVars, ListSame
  <1>10. Top.page[1].count > 0
    <2>1. Top \in FoundFrames
        BY <1>1, <1>2, FrameKinds, TopFacts DEF PageDone
    <2>2. PICK c : c = Top.page /\ c \in Seq(Run) /\ Len(c) = 1
        BY <2>1 DEF FoundFrames, OneRun
    <2>3. c[1] \in Run
        BY <2>2
    <2>4. PICK n \in Nat : n = Top.count /\ n > 0
        BY <2>1 DEF FoundFrames
    <2>5. PICK m \in Int : m = Top.page[1].count
        BY <2>2, <2>3 DEF Run
    <2>6. m >= n
        BY <2>4, <2>5 DEF PageDone
    <2> QED
        BY <2>4, <2>5, <2>6
  <1>11. Full(held) => Full(held')
      BY <1>7, <1>10 DEF Full
  <1> QED
      BY <1>2, <1>5, <1>6, <1>8, <1>9, <1>11, RunsStay

LEMMA PageJoinRuns ==
    ASSUME KMemInv, RunsInv, PageJoin
    PROVE  RunsInv'
  <1>1. stack \in Seq(Frames) /\ StackOK(stack)
      BY DEF KMemInv, StackOK
  <1>2. /\ stack # <<>> /\ Top = stack[1] /\ Top \in JoinFrames /\ Top.fn = "page_alloc"
        /\ halted = "no"
      BY <1>1, TopFacts, FrameKinds DEF PageJoin, At
  <1>3. Len(stack) # 1
    <2>1. Top.nolock = TRUE
        BY <1>2 DEF JoinFrames
    <2> QED
        BY <1>1, <1>2, <2>1 DEF StackOK
  <1>4. held' = held /\ ListSame
      BY <1>3 DEF PageJoin, Return, pageVars, ListSame
  <1>5. PICK t : t = stack' /\ t = Tail(stack)
      BY DEF PageJoin, Return
  <1>6. LooseOf(stack[1]) = {}
      BY <1>2, LooseOfFacts
  <1>7. RunsIn(t) \subseteq RunsIn(stack) /\ Loose(t) = Loose(stack) /\ (Cuts(stack) => Cuts(t))
      BY <1>1, <1>2, <1>5, <1>6, RunsReturned
  <1> QED
      BY <1>2, <1>4, <1>5, <1>7, RunsStay

LEMMA PageFreedRuns ==
    ASSUME KMemInv, RunsInv, PageFreed
    PROVE  RunsInv'
  <1>1. stack \in Seq(Frames) /\ StackOK(stack)
      BY DEF KMemInv, StackOK
  <1>2. /\ stack # <<>> /\ Top = stack[1] /\ Top \in PageFreeFrames /\ Top.fn = "page_free"
        /\ Top.step = "freed" /\ halted = "no"
      BY <1>1, TopFacts, FrameKinds DEF PageFreed, At
  <1>3. PICK c : c = Top.chain /\ c \in Seq(Run) /\ Len(c) = 1
      BY <1>2 DEF PageFreeFrames, OneRun
  <1>4. PICK t : t = stack' /\ t = Tail(stack)
    <2>1. Front(c) = <<>>
        BY <1>3 DEF Front
    <2> QED
        BY <1>3, <2>1 DEF PageFreed
  <1>5. LooseOf(stack[1]) = {}
      BY <1>2, LooseOfFacts
  <1>6. RunsIn(t) \subseteq RunsIn(stack) /\ Loose(t) = Loose(stack) /\ (Cuts(stack) => Cuts(t))
      BY <1>1, <1>2, <1>4, <1>5, RunsReturned
  <1>7. held' = held /\ ListSame
      BY DEF PageFreed, pageVars, ListSame
  <1> QED
      BY <1>2, <1>4, <1>6, <1>7, RunsStay

\* A call from outside: the runs it has were held.
LEMMA BeginsRuns ==
    ASSUME RunsInv, Idle, ListSame, halted' = halted, NEW f, NEW g,
           stack' = <<f>> \/ stack' = <<f, g>>, RunOf(f) \cup RunOf(g) \subseteq HeldRuns(held),
           LooseOf(f) = {}, LooseOf(g) = {}, Cut(f), Cut(g), held' \subseteq held
    PROVE  RunsInv'
  <1>1. /\ RunsIn(<<f>>) = RunOf(f) /\ RunsIn(<<f, g>>) = RunOf(f) \cup RunOf(g)
        /\ Loose(<<f>>) = LooseOf(f) /\ Loose(<<f, g>>) = LooseOf(g)
        /\ RunsIn(<<>>) = {} /\ Loose(<<>>) = {}
        /\ Cuts(<<f>>) /\ Cuts(<<f, g>>)
      BY RunsBegun
  <1>2. Loose(stack') = Loose(stack)
      BY <1>1 DEF Idle
  <1>4. Full(held) => Full(held')
      BY DEF Full
  <1>3. HeldRuns(held') \cup RunsIn(stack') \subseteq HeldRuns(held) \cup RunsIn(stack)
      BY <1>1 DEF HeldRuns
  <1> QED
      BY <1>1, <1>2, <1>3, <1>4, RunsStay DEF Idle

LEMMA CallKmallocRuns ==
    ASSUME RunsInv, CallKmalloc
    PROVE  RunsInv'
  <1>1. PICK size \in Sizes : stack' = <<Malloc(size, FALSE)>>
      BY DEF CallKmalloc
  <1>2. PICK f : f = Malloc(size, FALSE)
      OBVIOUS
  <1>3. f.fn = "kmalloc"
      BY <1>2 DEF Malloc
  <1>4. RunOf(f) = {} /\ LooseOf(f) = {} /\ Cut(f)
      BY <1>3, RunOfFacts, LooseOfFacts DEF Cut
  <1>5. Idle /\ ListSame /\ halted' = halted /\ held' = held /\ stack' = <<f>>
      BY <1>1, <1>2 DEF CallKmalloc, Begin, pageVars, ListSame
  <1> QED
      BY <1>4, <1>5, BeginsRuns

LEMMA CallKfreeRuns ==
    ASSUME RunsInv, CallKfree
    PROVE  RunsInv'
  <1>1. PICK base \in user : stack' = <<Free(base)>>
      BY DEF CallKfree
  <1>2. PICK f : f = Free(base)
      OBVIOUS
  <1>3. f.fn = "kfree"
      BY <1>2 DEF Free
  <1>4. RunOf(f) = {} /\ LooseOf(f) = {} /\ Cut(f)
      BY <1>3, RunOfFacts, LooseOfFacts DEF Cut
  <1>5. Idle /\ ListSame /\ halted' = halted /\ held' = held /\ stack' = <<f>>
      BY <1>1, <1>2 DEF CallKfree, Begin, pageVars, ListSame
  <1> QED
      BY <1>4, <1>5, BeginsRuns

LEMMA CallPageAllocRuns ==
    ASSUME RunsInv, CallPageAlloc
    PROVE  RunsInv'
  <1>1. PICK count \in Counts : stack' = <<PageAlloc(count, FALSE, FALSE)>>
      BY DEF CallPageAlloc
  <1>2. PICK f : f = PageAlloc(count, FALSE, FALSE)
      OBVIOUS
  <1>3. f.fn = "page_alloc"
      BY <1>2 DEF PageAlloc
  <1>4. RunOf(f) = {} /\ LooseOf(f) = {} /\ Cut(f)
      BY <1>2, <1>3, AllocHasNone, LooseOfFacts DEF Cut
  <1>5. Idle /\ ListSame /\ halted' = halted /\ held' = held /\ stack' = <<f>>
      BY <1>1, <1>2 DEF CallPageAlloc, Begin, pageVars, ListSame
  <1> QED
      BY <1>4, <1>5, BeginsRuns

LEMMA CallPageFreeRuns ==
    ASSUME RunsInv, CallPageFree
    PROVE  RunsInv'
  <1>1. PICK page \in held : stack' = <<PageFree(page)>> /\ held' = held \ {page}
      BY DEF CallPageFree
  <1>2. PICK f : f = PageFree(page)
      OBVIOUS
  <1>3. f.fn = "page_free" /\ f.step = "insert" /\ f.chain = page
      BY <1>2 DEF PageFree
  <1>4. RunOf(f) = {page[1]} /\ LooseOf(f) = {}
      BY <1>3, RunOfFacts, LooseOfFacts
  <1>5. Idle /\ ListSame /\ halted' = halted /\ held' \subseteq held /\ stack' = <<f>>
      BY <1>1, <1>2 DEF CallPageFree, Begin, pageVars, ListSame
  <1>6. page[1] \in HeldRuns(held)
      BY DEF HeldRuns
  <1>7. Cut(f)
      BY <1>3, <1>5 DEF Cut, Idle, RunsInv, Full
  <1> QED
      BY <1>4, <1>5, <1>6, <1>7, BeginsRuns

LEMMA CallPageCreateRuns ==
    ASSUME RunsInv, CallPageCreate
    PROVE  RunsInv'
  <1>1. PICK f : f = Malloc(PageStruct, TRUE)
      OBVIOUS
  <1>2. PICK g : g = [fn |-> "page_create", step |-> "made"]
      OBVIOUS
  <1>3. f.fn = "kmalloc" /\ g.fn = "page_create"
      BY <1>1, <1>2 DEF Malloc
  <1>4. RunOf(f) = {} /\ LooseOf(f) = {} /\ RunOf(g) = {} /\ LooseOf(g) = {}
        /\ Cut(f) /\ Cut(g)
      BY <1>3, RunOfFacts, LooseOfFacts DEF Cut
  <1>5. Idle /\ ListSame /\ halted' = halted /\ held' = held /\ stack' = <<f, g>>
      BY <1>1, <1>2 DEF CallPageCreate, BeginCreate, pageVars, ListSame
  <1> QED
      BY <1>4, <1>5, BeginsRuns

LEMMA CallPageSplitRuns ==
    ASSUME KMemInv, RunsInv, CallPageSplit
    PROVE  RunsInv'
  <1>1. PICK page \in held :
            \E n \in 1..page[1].count - 1 :
                  /\ stack' = <<Malloc(PageStruct, TRUE),
                                [fn |-> "page_split", step |-> "made", page |-> page, count |-> n]>>
                  /\ held' = held \ {page}
      BY DEF CallPageSplit
  <1>2. PICK f : f = Malloc(PageStruct, TRUE)
      OBVIOUS
  <1>3. PICK g : /\ stack' = <<f, g>>
                 /\ \E n \in 1..page[1].count - 1 :
                        g = [fn |-> "page_split", step |-> "made", page |-> page, count |-> n]
      BY <1>1, <1>2
  <1>4. f.fn = "kmalloc" /\ g.fn = "page_split" /\ g.page = page /\ g.count \in 1..page[1].count - 1
      BY <1>2, <1>3 DEF Malloc
  <1>5. RunOf(f) = {} /\ LooseOf(f) = {} /\ RunOf(g) = {page[1]} /\ LooseOf(g) = {}
      BY <1>4, RunOfFacts, LooseOfFacts
  <1>8. page[1].count \in Int
    <2>1. page \in Seq(Run) /\ Len(page) = 1
        BY DEF KMemInv, PagesOK, OneRun
    <2>2. page[1] \in Run
        BY <2>1
    <2> QED
        BY <2>2 DEF Run
  <1>9. Cut(f) /\ Cut(g)
      BY <1>4, <1>8 DEF Cut
  <1>6. Idle /\ ListSame /\ halted' = halted /\ held' \subseteq held /\ stack' = <<f, g>>
      BY <1>1, <1>2, <1>3 DEF CallPageSplit, BeginCreate, pageVars, ListSame
  <1>7. page[1] \in HeldRuns(held)
      BY DEF HeldRuns
  <1> QED
      BY <1>5, <1>6, <1>7, <1>9, BeginsRuns

LEMMA InstallOtherRuns ==
    ASSUME RunsInv, InstallOther
    PROVE  RunsInv'
  <1>1. Idle /\ ListSame /\ UNCHANGED <<held, stack>>
      BY DEF InstallOther, Begin, pageVars, ListSame
  <1> QED
      BY <1>1, RunsStay DEF Idle

LEMMA HaltRuns ==
    ASSUME NEW why, why # "no", Halt(why)
    PROVE  RunsInv'
  BY DEF Halt, RunsInv


\* The struct of a run in hand is the block the call has in its hands.
LEMMA RunInHand ==
    ASSUME NEW f \in Frames, NEW x \in RunOf(f)
    PROVE  x \in Run /\ Holds(f) = x.at /\ x.at # None
  <1>1. ASSUME NEW c \in OneRun PROVE c[1] \in Run
    <2>1. c \in Seq(Run) /\ Len(c) = 1
        BY DEF OneRun
    <2> QED
        BY <2>1
  <1>2. CASE f.fn = "page_alloc" /\ f.step = "chain"
    <2>1. f.page \in OneRun
        BY <1>2, FrameKinds DEF FoundFrames
    <2>2. x = f.page[1] /\ Holds(f) = f.page[1].at
      <3>1. RunOf(f) = {f.page[1]}
          BY <1>2, RunOfFacts
      <3> QED
          BY <1>2, <3>1, HoldsFacts
    <2> QED
        BY <1>1, <2>1, <2>2, SizesAssumption DEF Run
  <1>3. CASE f.fn = "page_free" /\ f.step = "insert"
    <2>1. f.chain \in OneRun
        BY <1>3, FrameKinds DEF PageFreeFrames
    <2>2. x = f.chain[1] /\ Holds(f) = f.chain[1].at
      <3>1. RunOf(f) = {f.chain[1]}
          BY <1>3, RunOfFacts
      <3> QED
          BY <1>3, <3>1, HoldsFacts
    <2> QED
        BY <1>1, <2>1, <2>2, SizesAssumption DEF Run
  <1>4. CASE f.fn = "page_split"
    <2>1. f.page \in OneRun
        BY <1>4, FrameKinds DEF SplitFrames
    <2>2. x = f.page[1] /\ Holds(f) = f.page[1].at
      <3>1. RunOf(f) = {f.page[1]}
          BY <1>4, RunOfFacts
      <3> QED
          BY <1>4, <3>1, HoldsFacts
    <2> QED
        BY <1>1, <2>1, <2>2, SizesAssumption DEF Run
  <1>5. CASE /\ ~(f.fn = "page_alloc" /\ f.step = "chain")
             /\ ~(f.fn = "page_free" /\ f.step = "insert") /\ ~(f.fn = "page_split")
    <2>1. RunOf(f) = {}
        BY <1>5 DEF RunOf
    <2> QED
        BY <2>1
  <1> QED
      BY <1>2, <1>3, <1>4, <1>5

LEMMA KnownRuns ==
    ASSUME KMemInv
    PROVE  /\ \A r \in Listed(page_free) : r \in Run /\ r.at \in PageStructs(page_free)
           /\ \A r \in HeldRuns(held) : r \in Run /\ r.at \in Kept(held, used_start)
           /\ \A r \in RunsIn(stack) : r \in Run /\ r.at \in InHand(stack)
  <1>1. page_free \in Seq(Run) /\ held \subseteq OneRun /\ stack \in Seq(Frames)
      BY DEF KMemInv, PagesOK, StackOK
  <1>2. \A i \in 1..Len(page_free) : page_free[i] \in Run
      BY <1>1, Elements
  <1>3. \A r \in Listed(page_free) : r \in Run /\ r.at \in PageStructs(page_free)
      BY <1>2 DEF Listed, PageStructs
  <1>4. ASSUME NEW c \in held PROVE c[1] \in Run
    <2>1. c \in Seq(Run) /\ Len(c) = 1
        BY <1>1 DEF OneRun
    <2> QED
        BY <2>1
  <1>5. \A r \in HeldRuns(held) : r \in Run /\ r.at \in Kept(held, used_start)
      BY <1>4 DEF HeldRuns, HeldStructs, Kept
  <1>6. ASSUME NEW r \in RunsIn(stack) PROVE r \in Run /\ r.at \in InHand(stack)
    <2>1. PICK k \in 1..Len(stack) : r \in RunOf(stack[k])
        BY DEF RunsIn
    <2>2. stack[k] \in Frames
        BY <1>1, <2>1, Elements
    <2>3. r \in Run /\ Holds(stack[k]) = r.at /\ r.at # None
        BY <2>1, <2>2, RunInHand
    <2> QED
        BY <2>1, <2>3 DEF InHand
  <1> QED
      BY <1>3, <1>5, <1>6

\* A run is in one place.
LEMMA OneOwner ==
    ASSUME KMemInv
    PROVE  /\ Runs(page_free, held, stack) \subseteq Run
           /\ Listed(page_free) \cap (HeldRuns(held) \cup RunsIn(stack)) = {}
           /\ HeldRuns(held) \cap RunsIn(stack) = {}
  <1>1. /\ PageStructs(page_free) \cap (Kept(held, used_start) \cup InHand(stack)) = {}
        /\ Kept(held, used_start) \cap InHand(stack) = {}
      BY DEF KMemInv, OwnOK
  <1>2. /\ \A r \in Listed(page_free) : r \in Run /\ r.at \in PageStructs(page_free)
        /\ \A r \in HeldRuns(held) : r \in Run /\ r.at \in Kept(held, used_start)
        /\ \A r \in RunsIn(stack) : r \in Run /\ r.at \in InHand(stack)
      BY KnownRuns
  <1>3. Runs(page_free, held, stack) \subseteq Run
      BY <1>2 DEF Runs
  <1>4. Listed(page_free) \cap (HeldRuns(held) \cup RunsIn(stack)) = {}
      BY <1>1, <1>2
  <1>5. HeldRuns(held) \cap RunsIn(stack) = {}
      BY <1>1, <1>2
  <1> QED
      BY <1>3, <1>4, <1>5

\* A run goes from one place to another.
LEMMA RunsMove ==
    ASSUME RunsInv, halted = "no", UNCHANGED <<alloc_pointer, current_map>>,
           Runs(page_free', held', stack') \subseteq Runs(page_free, held, stack),
           Ordered(page_free', Loose(stack')), Cuts(stack'), Full(held')
    PROVE  RunsInv'
  <1>1. PICK S : S = Runs(page_free, held, stack)
      OBVIOUS
  <1>2. PICK T : T = Runs(page_free', held', stack')
      OBVIOUS
  <1>3. T \subseteq S /\ Separate(S) /\ AllUsed(S, alloc_pointer, current_map)
      BY <1>1, <1>2 DEF RunsInv
  <1>4. Separate(T) /\ AllUsed(T, alloc_pointer, current_map)
      BY <1>3, FewerRuns
  <1>5. AllUsed(T, alloc_pointer', current_map')
      BY <1>4
  <1> QED
      BY <1>2, <1>4, <1>5 DEF RunsInv

LEMMA FoundRun ==
    ASSUME NEW f \in AskingFrames, NEW run, NEW g, g = Found(f, run)
    PROVE  RunOf(g) = {run} /\ LooseOf(g) = {} /\ LooseOf(f) = {} /\ Cut(g)
  <1>1. g.fn = "page_alloc" /\ g.step = "chain" /\ g.page = <<run>> /\ f.fn = "page_alloc"
      BY DEF Found, AskingFrames
  <1>2. g.page[1] = run
      BY <1>1
  <1> QED
      BY <1>1, <1>2, RunOfFacts, LooseOfFacts, CutFacts

\* The stack after page::alloc has found a run.
LEMMA FoundRuns ==
    ASSUME KMemInv, stack # <<>>, stack[1] \in AskingFrames, NEW run,
           stack' = Resumed(Found(stack[1], run), stack)
    PROVE  /\ RunsIn(stack') \subseteq RunsIn(stack) \cup {run}
           /\ Loose(stack') = Loose(stack) /\ (Cuts(stack) => Cuts(stack'))
  <1>1. stack \in Seq(Frames)
      BY DEF KMemInv, StackOK
  <1>2. PICK g : g = Found(stack[1], run)
      OBVIOUS
  <1>3. RunOf(g) = {run} /\ LooseOf(g) = {} /\ LooseOf(stack[1]) = {} /\ Cut(g)
      BY <1>2, FoundRun
  <1>4. PICK t : t = stack' /\ t = Resumed(g, stack)
      BY <1>2
  <1>5. /\ RunsIn(t) \subseteq RunsIn(stack) \cup RunOf(g)
        /\ LooseOf(g) = LooseOf(stack[1]) => Loose(t) = Loose(stack)
        /\ Cuts(stack) /\ Cut(g) => Cuts(t)
      BY <1>1, <1>4, RunsResumed
  <1> QED
      BY <1>3, <1>4, <1>5

LEMMA TailOrdered ==
    ASSUME NEW l \in Seq(Run), l # <<>>, NEW T, Ordered(l, T), NEW r, r = Tail(l)
    PROVE  Ordered(r, T) /\ Listed(r) \subseteq Listed(l) /\ l[1] \in Listed(l)
  <1>1. PICK n \in Nat : n = Len(l) /\ n >= 1
      OBVIOUS
  <1>2. r \in Seq(Run) /\ Len(r) = n - 1 /\ \A j \in 1..(n - 1) : r[j] = l[j + 1]
      BY <1>1
  <1>3. ASSUME NEW i \in 1..((n - 1) - 1)
        PROVE  \/ r[i].base + r[i].count < r[i + 1].base
               \/ r[i + 1].count <= 0
               \/ /\ r[i].base + r[i].count = r[i + 1].base /\ <<r[i].at, r[i + 1].at>> \in T
                  /\ i = 1 \/ r[i].count > 0
    <2>1. PICK j : j = i + 1
        OBVIOUS
    <2>2. j \in 1..(n - 1) /\ j # 1 /\ r[i] = l[j] /\ r[i + 1] = l[j + 1]
        BY <1>1, <1>2, <2>1
    <2> QED
        BY <1>1, <2>2 DEF Ordered
  <1>4. Ordered(r, T)
      BY <1>2, <1>3 DEF Ordered
  <1>5. \A j \in 1..(n - 1) : j + 1 \in 1..n /\ r[j] = l[j + 1]
      BY <1>1, <1>2
  <1>6. Listed(r) \subseteq Listed(l)
      BY <1>1, <1>2, <1>5 DEF Listed
  <1>7. 1 \in 1..n
      BY <1>1
  <1> QED
      BY <1>1, <1>4, <1>6, <1>7 DEF Listed

LEMMA PageTakeRuns ==
    ASSUME KMemInv, RunsInv, PageTake
    PROVE  RunsInv'
  <1>1. StackOK(stack) /\ page_free \in Seq(Run) /\ page_free # <<>>
      BY DEF KMemInv, PagesOK, PageTake
  <1>2. stack # <<>> /\ Top = stack[1] /\ Top \in AskingFrames /\ halted = "no"
      BY <1>1, TopFacts, FrameKinds DEF PageTake, At
  <1>3. stack' = Resumed(Found(stack[1], page_free[1]), stack)
      BY <1>2 DEF PageTake, Resumed, Found
  <1>4. /\ RunsIn(stack') \subseteq RunsIn(stack) \cup {page_free[1]}
        /\ Loose(stack') = Loose(stack) /\ (Cuts(stack) => Cuts(stack'))
      BY <1>2, <1>3, FoundRuns
  <1>5. PICK r : r = page_free' /\ r = Tail(page_free)
      BY DEF PageTake
  <1>6. Ordered(page_free, Loose(stack)) /\ Cuts(stack) /\ Full(held)
      BY <1>2 DEF RunsInv
  <1>7. Ordered(r, Loose(stack)) /\ Listed(r) \subseteq Listed(page_free) /\ page_free[1] \in Listed(page_free)
      BY <1>1, <1>5, <1>6, TailOrdered
  <1>8. held' = held /\ UNCHANGED <<alloc_pointer, current_map>>
      BY DEF PageTake
  <1>9. Runs(page_free', held', stack') \subseteq Runs(page_free, held, stack)
      BY <1>4, <1>5, <1>7, <1>8 DEF Runs
  <1>10. Ordered(page_free', Loose(stack')) /\ Cuts(stack') /\ Full(held')
      BY <1>4, <1>5, <1>6, <1>7, <1>8
  <1> QED
      BY <1>2, <1>8, <1>9, <1>10, RunsMove

\* A run that is cut in two, or gets shorter.
Within(g, h) == g.count > 0 => h.count > 0 /\ h.base <= g.base /\ g.base + g.count <= h.base + h.count

LEMMA RegionTypes ==
    \A i \in 1..Len(Regions) :
        /\ Regions[i].base \in Nat /\ Regions[i].length \in Nat /\ EndOfRegion(i) \in Nat
        /\ Area(i).base = Regions[i].base /\ Area(i).count = Regions[i].length
  <1>1. PICK S : S = [base : Nat, length : Nat, usable : BOOLEAN] /\ Regions \in Seq(S)
      BY SizesAssumption
  <1>2. \A x \in S : x.base \in Nat /\ x.length \in Nat /\ x.base + x.length \in Nat
      BY <1>1
  <1>3. Regions \in Seq(S)
      BY <1>1
  <1>4. \A i \in 1..Len(Regions) : Regions[i] \in S
      BY <1>3, Elements
  <1> QED
      BY <1>2, <1>4 DEF EndOfRegion, Area

LEMMA RunTypes == \A r \in Run : r.at \in Nat /\ r.base \in Int /\ r.count \in Int
  BY DEF Run

LEMMA InsideApart ==
    ASSUME NEW a \in Int, NEW b \in Int, NEW c \in Int, NEW d \in Int, NEW x \in Int, NEW y \in Int,
           c <= a, a + b <= c + d, c + d <= x \/ x + y <= c
    PROVE  a + b <= x \/ x + y <= a
  OBVIOUS

LEMMA WithinUsed ==
    ASSUME NEW g \in Run, NEW h \in Run, Within(g, h), g.count > 0, NEW ap \in Int,
           NEW cm \in 1..Len(Regions), Used(h, ap, cm)
    PROVE  Used(g, ap, cm)
  <1>1. /\ g.base \in Int /\ g.count \in Int /\ h.base \in Int /\ h.count \in Int
        /\ EndOfRegion(cm) \in Nat
      BY RunTypes, RegionTypes
  <1>2. h.base <= g.base /\ g.base + g.count <= h.base + h.count
      BY DEF Within
  <1>3. ap < EndOfRegion(cm) => g.base + g.count <= ap \/ EndOfRegion(cm) <= g.base
      BY <1>1, <1>2 DEF Used
  <1>4. ASSUME NEW i \in Left(cm), Area(i).count > 0 PROVE Beside(g, Area(i))
    <2>1. i \in 1..Len(Regions)
        BY DEF Left
    <2>2. Area(i).base \in Int /\ Area(i).count \in Int
        BY <2>1, RegionTypes
    <2>3. Beside(h, Area(i))
        BY <1>4 DEF Used
    <2> QED
        BY <1>1, <1>2, <2>2, <2>3, InsideApart DEF Beside
  <1> QED
      BY <1>3, <1>4 DEF Used

LEMMA WithinBeside ==
    ASSUME NEW g \in Run, NEW h \in Run, Within(g, h), g.count > 0, NEW r \in Run, Beside(h, r) \/ Beside(r, h)
    PROVE  Beside(g, r) /\ Beside(r, g)
  <1>1. /\ g.base \in Int /\ g.count \in Int /\ h.base \in Int /\ h.count \in Int
        /\ r.base \in Int /\ r.count \in Int
      BY RunTypes
  <1>2. h.base <= g.base /\ g.base + g.count <= h.base + h.count
      BY DEF Within
  <1> QED
      BY <1>1, <1>2 DEF Beside

LEMMA SplitSeparate ==
    ASSUME NEW S \in SUBSET Run, NEW h \in S, NEW g \in Run, NEW q \in Run, NEW T,
           T \subseteq (S \ {h}) \cup {g, q}, Within(g, h), Within(q, h), Beside(q, g),
           NEW ap \in Int, NEW cm \in 1..Len(Regions), Separate(S), AllUsed(S, ap, cm)
    PROVE  Separate(T) /\ AllUsed(T, ap, cm)
  <1>1. ASSUME NEW x \in T, x.count > 0, x \notin S \ {h} PROVE Within(x, h) /\ x \in Run
      BY <1>1
  <1>2. ASSUME NEW x \in S \ {h}, x.count > 0, h.count > 0 PROVE Beside(x, h)
      BY <1>2 DEF Separate
  <1>3. ASSUME NEW x \in T, NEW y \in T, x # y, x.count > 0, y.count > 0 PROVE Beside(x, y)
    <2>1. CASE x \in S \ {h} /\ y \in S \ {h}
        BY <1>3, <2>1 DEF Separate
    <2>2. CASE x \in S \ {h} /\ y \notin S \ {h}
      <3>1. Within(y, h) /\ y \in Run /\ h.count > 0
          BY <1>1, <1>3, <2>2 DEF Within
      <3>2. Beside(x, h)
          BY <1>2, <1>3, <2>2, <3>1
      <3> QED
          BY <1>3, <2>2, <3>1, <3>2, WithinBeside
    <2>3. CASE x \notin S \ {h} /\ y \in S \ {h}
      <3>1. Within(x, h) /\ x \in Run /\ h.count > 0
          BY <1>1, <1>3, <2>3 DEF Within
      <3>2. Beside(y, h)
          BY <1>2, <1>3, <2>3, <3>1
      <3> QED
          BY <1>3, <2>3, <3>1, <3>2, WithinBeside
    <2>4. CASE x \notin S \ {h} /\ y \notin S \ {h}
      <3>1. x \in {g, q} /\ y \in {g, q}
          BY <2>4
      <3> QED
          BY <1>3, <3>1 DEF Beside
    <2> QED
        BY <2>1, <2>2, <2>3, <2>4
  <1>4. ASSUME NEW x \in T, x.count > 0 PROVE Used(x, ap, cm)
    <2>1. CASE x \in S \ {h}
        BY <1>4, <2>1 DEF AllUsed
    <2>2. CASE x \notin S \ {h}
      <3>1. Within(x, h) /\ x \in Run /\ h.count > 0
          BY <1>1, <1>4, <2>2 DEF Within
      <3>2. Used(h, ap, cm)
          BY <3>1 DEF AllUsed
      <3> QED
          BY <1>4, <3>1, <3>2, WithinUsed
    <2> QED
        BY <2>1, <2>2
  <1>5. Separate(T)
      BY <1>3 DEF Separate
  <1>6. AllUsed(T, ap, cm)
      BY <1>4 DEF AllUsed
  <1> QED
      BY <1>5, <1>6

\* The first run gets shorter and ends no later.
LEMMA ShrinkOrdered ==
    ASSUME NEW l \in Seq(Run), l # <<>>, NEW g \in Run, NEW r, Changed(l, 1, g, r), g.at = l[1].at,
           g.base + g.count <= l[1].base + l[1].count, NEW T, Ordered(l, T)
    PROVE  Ordered(r, T)
  <1>1. PICK n \in Nat : n = Len(l) /\ n >= 1
      OBVIOUS
  <1>2. r \in Seq(Run) /\ Len(r) = n /\ \A j \in 1..n : r[j] = IF j = 1 THEN g ELSE l[j]
      BY <1>1 DEF Changed
  <1>3. \A i \in 1..n : l[i].base \in Int /\ l[i].count \in Int
      BY <1>1, Elements, RunTypes
  <1>4. g.base \in Int /\ g.count \in Int
      BY RunTypes
  <1>5. ASSUME NEW i \in 1..(n - 1)
        PROVE  \/ r[i].base + r[i].count < r[i + 1].base
               \/ r[i + 1].count <= 0
               \/ /\ r[i].base + r[i].count = r[i + 1].base /\ <<r[i].at, r[i + 1].at>> \in T
                  /\ i = 1 \/ r[i].count > 0
    <2>1. i \in 1..n /\ i + 1 \in 1..n /\ i + 1 # 1
        BY <1>1
    <2>2. r[i + 1] = l[i + 1] /\ r[i] = IF i = 1 THEN g ELSE l[i]
        BY <1>2, <2>1
    <2>3. \/ l[i].base + l[i].count < l[i + 1].base
          \/ l[i + 1].count <= 0
          \/ /\ l[i].base + l[i].count = l[i + 1].base /\ <<l[i].at, l[i + 1].at>> \in T
             /\ i = 1 \/ l[i].count > 0
        BY <1>1 DEF Ordered
    <2>4. CASE i # 1
        BY <2>2, <2>3, <2>4
    <2>5. CASE i = 1
      <3>1. l[1].base \in Int /\ l[1].count \in Int /\ l[i + 1].base \in Int
          BY <1>3, <2>1, <2>5
      <3>2. r[i] = g /\ r[i + 1] = l[i + 1]
          BY <2>2, <2>5
      <3>3. CASE l[i + 1].count <= 0
          BY <3>2, <3>3
      <3>4. CASE l[1].base + l[1].count < l[i + 1].base
          BY <1>4, <3>1, <3>2, <3>4
      <3>5. CASE l[1].base + l[1].count = l[i + 1].base /\ <<l[1].at, l[i + 1].at>> \in T
        <4>1. g.base + g.count < l[i + 1].base \/ g.base + g.count = l[i + 1].base
          <5>1. PICK x \in Int, y \in Int : x = g.base + g.count /\ y = l[1].base + l[1].count
              BY <1>4, <3>1
          <5>2. x <= y /\ y = l[i + 1].base
              BY <3>5, <5>1
          <5> QED
              BY <5>1, <5>2
        <4>2. <<g.at, l[i + 1].at>> \in T
            BY <3>5
        <4> QED
            BY <2>5, <3>2, <4>1, <4>2
      <3> QED
          BY <2>3, <2>5, <3>3, <3>4, <3>5
    <2> QED
        BY <2>4, <2>5
  <1> QED
      BY <1>2, <1>5 DEF Ordered

\* The first run as Page::alloc leaves it.
LEMMA FirstShorter ==
    ASSUME NEW l \in Seq(Run), l # <<>>, NEW n \in Nat, n <= l[1].count, NEW r, r = Shorter(l, n)
    PROVE  \E g \in Run : /\ Changed(l, 1, g, r) /\ g.at = l[1].at /\ g.base = l[1].base + n
                          /\ g.count <= l[1].count - n
  <1>1. PICK k \in Nat : k = Len(l) /\ k >= 1
      OBVIOUS
  <1>2. l[1] \in Run /\ 1 \in DOMAIN l /\ 1 \in 1..Len(l)
      BY <1>1
  <1>3. PICK b \in Int, c \in Int : b = l[1].base /\ c = l[1].count
      BY <1>2 DEF Run
  <1>4. PICK d \in Nat : d = c - n
      BY <1>3
  <1>5. PICK m \in Int : m = d % Wrap /\ m <= d
      BY <1>4 DEF Wrap
  <1>6. PICK g : g = [[l[1] EXCEPT !.base = b + n] EXCEPT !.count = m]
      OBVIOUS
  <1>7. g \in Run /\ g.at = l[1].at /\ g.base = b + n /\ g.count = m
    <2>1. PICK y \in Int : y = b + n
        BY <1>3
    <2>2. PICK f : f = [l[1] EXCEPT !.base = y]
        OBVIOUS
    <2>3. f \in Run /\ f.at = l[1].at /\ f.base = y
        BY <1>2, <2>1, <2>2 DEF Run
    <2>4. g = [f EXCEPT !.count = m]
        BY <1>6, <2>1, <2>2
    <2>5. g \in Run /\ g.at = f.at /\ g.base = f.base /\ g.count = m
        BY <1>5, <2>3, <2>4 DEF Run
    <2> QED
        BY <2>1, <2>3, <2>5
  <1>8. r = Replaced(l, 1, g)
    <2>1. PICK q : q = [l EXCEPT ![1].base = @ + n]
        OBVIOUS
    <2>2. q[1] = [l[1] EXCEPT !.base = b + n]
        BY <1>2, <1>3, <2>1
    <2>3. r = [q EXCEPT ![1].count = (@ - n) % Wrap]
        BY <2>1 DEF Shorter
    <2>4. q[1].count = c
        BY <1>2, <1>3, <2>2 DEF Run
    <2>5. m = (c - n) % Wrap
        BY <1>4, <1>5
    <2> QED
        BY <1>2, <1>6, <2>1, <2>2, <2>3, <2>4, <2>5 DEF Replaced
  <1>9. Changed(l, 1, g, r)
      BY <1>2, <1>7, <1>8, ReplacedRun
  <1> QED
      BY <1>3, <1>4, <1>5, <1>7, <1>9

LEMMA PageSplitRuns ==
    ASSUME KMemInv, RunsInv, PageSplit
    PROVE  RunsInv'
  <1>1. /\ StackOK(stack) /\ RetOK(stack, ret) /\ page_free \in Seq(Run) /\ page_free # <<>>
        /\ \A i, j \in 1..Len(page_free) : page_free[i].at = page_free[j].at => i = j
      BY DEF KMemInv, PagesOK, PageSplit
  <1>2. /\ stack # <<>> /\ Top = stack[1] /\ Top \in AskingFrames /\ Top.step = "split"
        /\ halted = "no"
      BY <1>1, TopFacts, FrameKinds DEF PageSplit, At
  <1>3. PICK n \in Nat : n = Top.count /\ n > 0
      BY <1>2 DEF AskingFrames
  <1>4. PICK h \in Run : h = page_free[1] /\ h.base \in Int /\ h.count \in Int
    <2>1. page_free[1] \in Run
        BY <1>1
    <2> QED
        BY <2>1, RunTypes
  <1>5. CASE h.count < n
    <2>1. halted' = "corrupt"
        BY <1>3, <1>4, <1>5 DEF PageSplit
    <2> QED
        BY <2>1 DEF RunsInv
  <1>6. CASE n <= h.count
    <2>1. PICK r : r = page_free' /\ r = Shorter(page_free, n)
        BY <1>3 DEF PageSplit, Shorter
    <2>2. PICK g \in Run : /\ Changed(page_free, 1, g, r) /\ g.at = h.at /\ g.base = h.base + n
                           /\ g.count <= h.count - n
        BY <1>1, <1>4, <1>6, <2>1, FirstShorter
    <2>3. g.count \in Int /\ g.base \in Int
        BY RunTypes
    <2>4. PICK q : q = [at |-> ret, base |-> h.base, count |-> n]
        OBVIOUS
    <2>5. ret \in Nat
        BY <1>1, <1>2, WantsFacts DEF RetOK
    <2>6. q \in Run /\ q.base = h.base /\ q.count = n
        BY <1>4, <2>4, <2>5 DEF Run
    <2>7. Within(g, h) /\ Within(q, h) /\ Beside(q, g)
        BY <1>3, <1>4, <1>6, <2>2, <2>3, <2>6 DEF Within, Beside
    <2>8. stack' = Resumed(Found(stack[1], q), stack)
        BY <1>2, <1>3, <1>4, <2>4 DEF PageSplit, Resumed, Found
    <2>9. /\ RunsIn(stack') \subseteq RunsIn(stack) \cup {q}
          /\ Loose(stack') = Loose(stack) /\ (Cuts(stack) => Cuts(stack'))
        BY <1>2, <2>8, FoundRuns
    <2>10. /\ Runs(page_free, held, stack) \subseteq Run
           /\ Listed(page_free) \cap (HeldRuns(held) \cup RunsIn(stack)) = {}
        BY OneOwner
    <2>11. 1 \in 1..Len(page_free) /\ h \in Listed(page_free)
        BY <1>1, <1>4 DEF Listed
    <2>12. Listed(r) \subseteq (Listed(page_free) \ {h}) \cup {g}
      <3>1. ASSUME NEW j \in 1..Len(page_free), j # 1 PROVE page_free[j] \in Listed(page_free) \ {h}
          BY <1>1, <1>4, <2>11, <3>1 DEF Listed
      <3>2. Len(r) = Len(page_free) /\ \A j \in 1..Len(page_free) : r[j] = IF j = 1 THEN g ELSE page_free[j]
          BY <2>2 DEF Changed
      <3> QED
          BY <3>1, <3>2 DEF Listed
    <2>13. held' = held /\ UNCHANGED <<alloc_pointer, current_map>> /\ halted' = halted
        BY <1>2, <1>3, <1>4, <1>6 DEF PageSplit
    <2>14. PICK S : S = Runs(page_free, held, stack)
        OBVIOUS
    <2>15. PICK T : T = Runs(page_free', held', stack')
        OBVIOUS
    <2>16. T \subseteq (S \ {h}) \cup {g, q} /\ h \in S /\ S \in SUBSET Run
        BY <2>1, <2>9, <2>10, <2>11, <2>12, <2>13, <2>14, <2>15 DEF Runs
    <2>17. /\ Separate(S) /\ AllUsed(S, alloc_pointer, current_map)
           /\ Ordered(page_free, Loose(stack)) /\ Cuts(stack) /\ Full(held)
        BY <1>2, <2>14 DEF RunsInv
    <2>18. alloc_pointer \in Int /\ current_map \in 1..Len(Regions)
        BY DEF KMemInv, RegionOK
    <2>19. Separate(T) /\ AllUsed(T, alloc_pointer, current_map)
        BY <2>6, <2>7, <2>16, <2>17, <2>18, SplitSeparate
    <2>20. Ordered(r, Loose(stack))
      <3>1. g.base + g.count <= h.base + h.count
          BY <1>4, <2>2, <2>3
      <3> QED
          BY <1>1, <1>4, <2>2, <2>17, <3>1, ShrinkOrdered
    <2>21. AllUsed(T, alloc_pointer', current_map') /\ Ordered(page_free', Loose(stack'))
           /\ Cuts(stack') /\ Full(held')
        BY <2>1, <2>9, <2>13, <2>17, <2>19, <2>20
    <2> QED
        BY <2>15, <2>19, <2>21 DEF RunsInv
  <1> QED
      BY <1>3, <1>4, <1>5, <1>6

\* Page::split cuts a run in two.
LEMMA PageSplitOffRuns ==
    ASSUME KMemInv, RunsInv, PageSplitOff
    PROVE  RunsInv'
  <1>1. StackOK(stack) /\ RetOK(stack, ret) /\ stack \in Seq(Frames)
      BY DEF KMemInv, StackOK
  <1>2. /\ stack # <<>> /\ Top = stack[1] /\ Top \in SplitFrames /\ Top.fn = "page_split"
        /\ Top.step = "made" /\ halted = "no"
      BY <1>1, TopFacts, FrameKinds DEF PageSplitOff, At
  <1>3. PICK c : c = Top.page /\ c \in Seq(Run) /\ Len(c) = 1
      BY <1>2 DEF SplitFrames, OneRun
  <1>4. PICK h \in Run : h = c[1]
    <2>1. c \in Seq(Run) /\ Len(c) = 1
        BY <1>3
    <2> QED
        BY <2>1
  <1>5. h.at \in Nat /\ h.base \in Int /\ h.count \in Int
      BY RunTypes
  <1>6. PICK n \in Nat : n = Top.count /\ n > 0
      BY <1>2 DEF SplitFrames
  <1>7. Cuts(stack) /\ Full(held) /\ Ordered(page_free, Loose(stack))
      BY <1>2 DEF RunsInv
  <1>8. n < h.count
    <2>1. 1 \in 1..Len(stack)
        BY <1>1, <1>2
    <2>2. Cut(stack[1])
        BY <1>7, <2>1 DEF Cuts
    <2> QED
        BY <1>2, <1>3, <1>4, <1>6, <2>2 DEF Cut
  <1>9. RunOf(stack[1]) = {h} /\ LooseOf(stack[1]) = {}
      BY <1>2, <1>3, <1>4, RunOfFacts, LooseOfFacts
  <1>10. Tail(stack) = <<>>
      BY <1>1, <1>2, GivesFacts, Outermost
  <1>11. RunsIn(stack) = {h} /\ Loose(stack) = {}
    <2>1. Len(stack) = 1
      <3>1. Len(Tail(stack)) = Len(stack) - 1 /\ Len(stack) \in Nat
          BY <1>1, <1>2
      <3>2. PICK t : t = Tail(stack)
          OBVIOUS
      <3>3. t \in Seq(Frames)
          BY <1>1, <1>2, <3>2
      <3>4. Len(t) = 0
          BY <1>10, <3>2, <3>3, NoLength
      <3> QED
          BY <3>1, <3>2, <3>4
    <2>2. 1..1 = {1}
        OBVIOUS
    <2> QED
        BY <1>2, <1>9, <2>1, <2>2 DEF RunsIn, Loose
  <1>12. stack' = <<>> /\ RunsIn(stack') = {} /\ Loose(stack') = {} /\ Cuts(stack')
      BY <1>10, RunsBegun DEF PageSplitOff
  <1>13. PICK p : p = [h EXCEPT !.count = n]
      OBVIOUS
  <1>14. p \in Run /\ p.base = h.base /\ p.count = n
      BY <1>6, <1>13 DEF Run
  <1>15. PICK q : q = [at |-> ret, base |-> h.base + n, count |-> h.count - n]
      OBVIOUS
  <1>16. q \in Run /\ q.base = h.base + n /\ q.count = h.count - n
    <2>1. ret \in Nat
        BY <1>1, <1>2, WantsFacts DEF RetOK
    <2>2. h.base + n \in Int /\ h.count - n \in Int
        BY <1>5, <1>6
    <2> QED
        BY <1>15, <2>1, <2>2 DEF Run
  <1>17. PICK a, b : a = <<p>> /\ b = <<q>>
      OBVIOUS
  <1>18. a[1] = p /\ b[1] = q /\ held' = held \cup {a, b}
      BY <1>3, <1>4, <1>6, <1>13, <1>15, <1>17 DEF PageSplitOff
  <1>19. HeldRuns(held') = HeldRuns(held) \cup {p, q}
      BY <1>18 DEF HeldRuns
  <1>20. Full(held')
      BY <1>5, <1>6, <1>7, <1>8, <1>14, <1>16, <1>18 DEF Full
  <1>21. Within(p, h) /\ Within(q, h) /\ Beside(p, q)
      BY <1>5, <1>6, <1>8, <1>14, <1>16 DEF Within, Beside
  <1>22. ListSame
      BY DEF PageSplitOff, pageVars, ListSame
  <1>23. /\ Runs(page_free, held, stack) \subseteq Run
         /\ Listed(page_free) \cap (HeldRuns(held) \cup RunsIn(stack)) = {}
         /\ HeldRuns(held) \cap RunsIn(stack) = {}
      BY OneOwner
  <1>24. PICK S : S = Runs(page_free, held, stack)
      OBVIOUS
  <1>25. PICK T : T = Runs(page_free', held', stack')
      OBVIOUS
  <1>26. T \subseteq (S \ {h}) \cup {q, p} /\ h \in S /\ S \in SUBSET Run
      BY <1>11, <1>12, <1>19, <1>22, <1>23, <1>24, <1>25 DEF Runs, ListSame
  <1>27. Separate(S) /\ AllUsed(S, alloc_pointer, current_map)
      BY <1>2, <1>24 DEF RunsInv
  <1>28. alloc_pointer \in Int /\ current_map \in 1..Len(Regions)
      BY DEF KMemInv, RegionOK
  <1>29. Separate(T) /\ AllUsed(T, alloc_pointer, current_map)
      BY <1>14, <1>16, <1>21, <1>26, <1>27, <1>28, SplitSeparate
  <1>30. AllUsed(T, alloc_pointer', current_map') /\ Ordered(page_free', Loose(stack'))
      BY <1>7, <1>11, <1>12, <1>22, <1>29 DEF ListSame
  <1> QED
      BY <1>12, <1>20, <1>25, <1>29, <1>30 DEF RunsInv

\* Memory that was never used is in no run, and comes from no other region.
LEMMA FreshApart ==
    ASSUME RegionsApart, NEW S \in SUBSET Run, NEW ap \in Int, NEW cm \in 1..Len(Regions),
           AllUsed(S, ap, cm), NEW q \in Run, q.base = ap, q.count >= 0, ap + q.count <= EndOfRegion(cm),
           NEW r \in S \cup {q}, r.count > 0, NEW i \in Left(cm), Area(i).count > 0
    PROVE  Beside(r, Area(i))
  <1>1. CASE r \in S
      BY <1>1 DEF AllUsed, Used
  <1>2. CASE r = q
    <2>1. i \in 1..Len(Regions) /\ i # cm /\ InUse(i) /\ InUse(cm)
      <3>1. Len(Regions) \in Nat
          BY SizesAssumption
      <3> QED
          BY <3>1 DEF Left, InUse, AllUsed
    <2>2. /\ Area(i).base \in Int /\ Area(i).count \in Int /\ Area(cm).base \in Int
          /\ Area(cm).count \in Int /\ q.count \in Int /\ EndOfRegion(cm) = Area(cm).base + Area(cm).count
          /\ Area(cm).base <= ap
      <3>1. /\ Regions[i].base \in Nat /\ Regions[i].length \in Nat
            /\ Area(i).base = Regions[i].base /\ Area(i).count = Regions[i].length
          BY <2>1, RegionTypes
      <3>2. /\ Regions[cm].base \in Nat /\ Regions[cm].length \in Nat
            /\ Area(cm).base = Regions[cm].base /\ Area(cm).count = Regions[cm].length
          BY RegionTypes
      <3>3. Regions[cm].base <= ap
          BY DEF AllUsed
      <3> QED
          BY <3>1, <3>2, <3>3, RunTypes DEF EndOfRegion
    <2>3. Area(cm).count > 0
        BY <1>2, <2>2
    <2>4. Beside(Area(cm), Area(i))
        BY <2>1, <2>3 DEF RegionsApart
    <2> QED
        BY <1>2, <2>2, <2>4 DEF Beside
  <1> QED
      BY <1>1, <1>2

LEMMA FreshSeparate ==
    ASSUME NEW S \in SUBSET Run, NEW ap \in Int, NEW cm \in 1..Len(Regions), Separate(S),
           AllUsed(S, ap, cm), NEW q \in Run, q.base = ap, q.count >= 0, ap + q.count <= EndOfRegion(cm)
    PROVE  Separate(S \cup {q})
  <1>1. q.count \in Int /\ EndOfRegion(cm) \in Int
      BY RunTypes, RegionTypes
  <1>2. ASSUME NEW r \in S, r.count > 0, q.count > 0 PROVE Beside(r, q) /\ Beside(q, r)
    <2>1. r.base \in Int /\ r.count \in Int
        BY RunTypes
    <2>2. ap < EndOfRegion(cm)
        BY <1>1, <1>2
    <2>3. r.base + r.count <= ap \/ EndOfRegion(cm) <= r.base
        BY <1>2, <2>2 DEF AllUsed, Used
    <2> QED
        BY <1>1, <2>1, <2>3 DEF Beside
  <1> QED
      BY <1>2 DEF Separate

\* The allocator goes on in its region, or in one behind it.
LEMMA FreshUsed ==
    ASSUME RegionsApart, NEW S \in SUBSET Run, NEW ap \in Int, NEW cm \in 1..Len(Regions),
           AllUsed(S, ap, cm), NEW q \in Run, q.base = ap, q.count >= 0, ap + q.count < EndOfRegion(cm)
    PROVE  AllUsed(S \cup {q}, ap + q.count, cm)
  <1>1. q.count \in Int /\ EndOfRegion(cm) \in Int /\ Regions[cm].base \in Int
      BY RunTypes, RegionTypes
  <1>2. ap + q.count <= EndOfRegion(cm)
      BY <1>1
  <1>3. ASSUME NEW r \in S \cup {q}, r.count > 0 PROVE Used(r, ap + q.count, cm)
    <2>1. \A i \in Left(cm) : Area(i).count > 0 => Beside(r, Area(i))
        BY <1>2, <1>3, FreshApart
    <2>2. r.base + r.count <= ap + q.count \/ EndOfRegion(cm) <= r.base
      <3>1. CASE r = q
          BY <1>1, <3>1
      <3>2. CASE r \in S
        <4>1. r.base \in Int /\ r.count \in Int
            BY <3>2, RunTypes
        <4>2. ap < EndOfRegion(cm)
            BY <1>1
        <4>3. r.base + r.count <= ap \/ EndOfRegion(cm) <= r.base
            BY <1>3, <3>2, <4>2 DEF AllUsed, Used
        <4> QED
            BY <1>1, <4>1, <4>3
      <3> QED
          BY <3>1, <3>2
    <2> QED
        BY <2>1, <2>2 DEF Used
  <1>4. Regions[cm].base <= ap /\ InUse(cm)
      BY DEF AllUsed
  <1>5. Regions[cm].base <= ap + q.count
      BY <1>1, <1>4
  <1> QED
      BY <1>2, <1>3, <1>4, <1>5 DEF AllUsed

LEMMA FreshLeaves ==
    ASSUME RegionsApart, NEW S \in SUBSET Run, NEW ap \in Int, NEW cm \in 1..Len(Regions),
           AllUsed(S, ap, cm), NEW q \in Run, q.base = ap, q.count >= 0, ap + q.count <= EndOfRegion(cm),
           NEW m \in Left(cm)
    PROVE  AllUsed(S \cup {q}, Regions[m].base, m)
  <1>1. Len(Regions) \in Nat
      BY SizesAssumption
  <1>2. m \in 1..Len(Regions) /\ Left(m) \subseteq Left(cm) /\ InUse(m)
      BY <1>1 DEF Left, InUse
  <1>3. PICK b \in Nat, c \in Nat :
            b = Regions[m].base /\ c = Regions[m].length /\ Area(m).base = b /\ Area(m).count = c
            /\ EndOfRegion(m) = b + c
      BY <1>2, RegionTypes DEF EndOfRegion
  <1>4. ASSUME NEW r \in S \cup {q}, r.count > 0 PROVE Used(r, b, m)
    <2>1. \A i \in Left(cm) : Area(i).count > 0 => Beside(r, Area(i))
        BY <1>4, FreshApart
    <2>2. ASSUME b < b + c PROVE r.base + r.count <= b \/ b + c <= r.base
      <3>1. Area(m).count > 0
          BY <1>3, <2>2
      <3>2. Beside(r, Area(m))
          BY <2>1, <3>1
      <3> QED
          BY <1>3, <3>2 DEF Beside
    <2> QED
        BY <1>2, <1>3, <2>1, <2>2 DEF Used
  <1>5. b <= b /\ b <= b + c
      BY <1>3
  <1> QED
      BY <1>2, <1>3, <1>4, <1>5 DEF AllUsed

LEMMA PageFreshRuns ==
    ASSUME RegionsApart, KMemInv, RunsInv, PageFresh
    PROVE  RunsInv'
  <1>1. StackOK(stack) /\ RetOK(stack, ret) /\ RegionOK(alloc_pointer, current_map)
      BY DEF KMemInv
  <1>2. /\ stack # <<>> /\ Top = stack[1] /\ Top \in AskingFrames /\ Top.step = "fresh"
        /\ halted = "no"
      BY <1>1, TopFacts, FrameKinds DEF PageFresh, At
  <1>3. ret \in Nat
      BY <1>1, <1>2, WantsFacts DEF RetOK
  <1>4. PICK k \in Nat : k = Top.count /\ k > 0
      BY <1>2 DEF AskingFrames
  <1>5. PICK ap \in Int : ap = alloc_pointer
      BY <1>1 DEF RegionOK
  <1>6. PICK cm \in 1..Len(Regions) : cm = current_map
      BY <1>1 DEF RegionOK
  <1>7. PICK e \in Int : e = EndOfRegion(cm) /\ e = RegionEnd
      BY <1>6, RegionTypes DEF EndOfRegion, RegionEnd
  <1>8. PICK S : S = Runs(page_free, held, stack)
      OBVIOUS
  <1>9. /\ Separate(S) /\ AllUsed(S, ap, cm) /\ Ordered(page_free, Loose(stack)) /\ Cuts(stack)
        /\ Full(held)
      BY <1>2, <1>5, <1>6, <1>8 DEF RunsInv
  <1>10. S \in SUBSET Run
      BY <1>8, OneOwner
  <1>11. ap <= e
      BY <1>7, <1>9 DEF AllUsed
  <1>12. PICK n \in Int : n = FreshCount(Top.count) /\ n >= 0 /\ ap + n <= e
    <2>1. FreshCount(k) = IF ap + k >= e THEN e - ap ELSE k
        BY <1>5, <1>7 DEF FreshCount
    <2> QED
        BY <1>4, <1>5, <1>7, <1>11, <2>1
  <1>13. PICK q : q = [at |-> ret, base |-> ap, count |-> n]
      OBVIOUS
  <1>14. q \in Run /\ q.base = ap /\ q.count = n
      BY <1>3, <1>13 DEF Run
  <1>15. stack' = Resumed(Found(stack[1], q), stack)
      BY <1>2, <1>5, <1>12, <1>13 DEF PageFresh, Resumed, Found
  <1>16. /\ RunsIn(stack') \subseteq RunsIn(stack) \cup {q}
         /\ Loose(stack') = Loose(stack) /\ (Cuts(stack) => Cuts(stack'))
      BY <1>2, <1>15, FoundRuns
  <1>17. held' = held /\ page_free' = page_free
      BY DEF PageFresh
  <1>18. PICK T : T = Runs(page_free', held', stack')
      OBVIOUS
  <1>19. T \subseteq S \cup {q}
      BY <1>8, <1>16, <1>17, <1>18 DEF Runs
  <1>20. Separate(S \cup {q})
      BY <1>7, <1>9, <1>10, <1>12, <1>14, FreshSeparate
  <1>21. AllUsed(S \cup {q}, alloc_pointer', current_map')
    <2>1. CASE ap + n = e
      <3>1. PICK m : m = Min(RegionsLeft) /\ current_map' = m /\ alloc_pointer' = Regions[m].base
                     /\ RegionsLeft # {}
          BY <1>5, <1>7, <1>12, <2>1 DEF PageFresh
      <3>2. RegionsLeft = Left(cm)
          BY <1>6 DEF RegionsLeft, Left
      <3>3. RegionsLeft \in SUBSET Nat
        <4>1. Len(Regions) \in Nat
            BY SizesAssumption
        <4> QED
            BY <3>2, <4>1 DEF Left
      <3>4. m \in Left(cm)
          BY <3>1, <3>2, <3>3, LeastNumber
      <3> QED
          BY <1>7, <1>9, <1>10, <1>12, <1>14, <3>1, <3>4, FreshLeaves
    <2>2. CASE ap + n # e
      <3>1. current_map' = cm /\ alloc_pointer' = ap + n
          BY <1>5, <1>6, <1>7, <1>12, <2>2 DEF PageFresh
      <3>2. ap + q.count < EndOfRegion(cm)
          BY <1>7, <1>12, <1>14, <2>2
      <3> QED
          BY <1>9, <1>10, <1>12, <1>14, <3>1, <3>2, FreshUsed
    <2> QED
        BY <2>1, <2>2
  <1>22. Separate(T) /\ AllUsed(T, alloc_pointer', current_map')
      BY <1>19, <1>20, <1>21, FewerRuns
  <1>23. Ordered(page_free', Loose(stack')) /\ Cuts(stack') /\ Full(held')
      BY <1>9, <1>16, <1>17
  <1> QED
      BY <1>18, <1>22, <1>23 DEF RunsInv

\* Of two runs that are apart the one that begins first ends first.
LEMMA FirstOfTwo ==
    ASSUME NEW a \in Int, NEW b \in Int, NEW c \in Int, NEW d \in Int, b > 0, d > 0, a <= c,
           a + b <= c \/ c + d <= a
    PROVE  a + b < c \/ a + b = c
  OBVIOUS

\* Page::free puts a run in its place.
LEMMA InsertOrdered ==
    ASSUME NEW l \in Seq(Run), NEW p \in Run, NEW k, Place(l, p.base, k), NEW r, r = InsertAt(l, k, p),
           p.count > 0, \A i \in 1..Len(l) : l[i].count > 0 => Beside(l[i], p),
           Ordered(l, {}), NEW T, k > 1 => <<l[k - 1].at, p.at>> \in T,
           \A x \in Nat : <<p.at, x>> \in T
    PROVE  Ordered(r, T) /\ Listed(r) \subseteq Listed(l) \cup {p}
  <1>1. PICK n \in Nat : n = Len(l)
      OBVIOUS
  <1>2. /\ k \in 1..(n + 1) /\ (\A i \in 1..(k - 1) : l[i].base < p.base)
        /\ k <= n => p.base <= l[k].base
      BY <1>1 DEF Place
  <1>3. r \in Seq(Run) /\ Inserted(l, k, p, r)
      BY <1>1, <1>2, InsertAtFacts
  <1>4. /\ Len(r) = n + 1
        /\ \A j \in 1..(n + 1) : r[j] = IF j < k THEN l[j] ELSE IF j = k THEN p ELSE l[j - 1]
      BY <1>1, <1>3 DEF Inserted
  <1>5. \A i \in 1..n : l[i].at \in Nat /\ l[i].base \in Int /\ l[i].count \in Int
      BY <1>1, Elements, RunTypes
  <1>6. p.base \in Int /\ p.count \in Int
      BY RunTypes
  <1> DEFINE InOrder(j) ==
          \/ r[j].base + r[j].count < r[j + 1].base
          \/ r[j + 1].count <= 0
          \/ /\ r[j].base + r[j].count = r[j + 1].base /\ <<r[j].at, r[j + 1].at>> \in T
             /\ j = 1 \/ r[j].count > 0
  <1>7. ASSUME NEW j \in 1..n PROVE InOrder(j)
    <2>1. CASE j < k - 1
      <3>1. j \in 1..(n - 1) /\ r[j] = l[j] /\ r[j + 1] = l[j + 1]
          BY <1>2, <1>4, <2>1
      <3> QED
          BY <1>1, <3>1 DEF Ordered
    <2>2. CASE j = k - 1
      <3>1. j \in 1..n /\ j \in 1..(k - 1) /\ r[j] = l[j] /\ r[j + 1] = p /\ k > 1
          BY <1>2, <1>4, <2>2
      <3>2. l[j].base < p.base /\ <<l[j].at, p.at>> \in T
          BY <1>2, <2>2, <3>1
      <3>3. l[j].base \in Int /\ l[j].count \in Int
          BY <1>5, <3>1
      <3>4. CASE l[j].count <= 0
        <4>1. l[j].base + l[j].count < p.base
            BY <1>6, <3>2, <3>3, <3>4
        <4> QED
            BY <3>1, <4>1
      <3>5. CASE l[j].count > 0
        <4>1. Beside(l[j], p)
            BY <1>1, <3>1, <3>5
        <4>2. l[j].base + l[j].count < p.base \/ l[j].base + l[j].count = p.base
          <5>1. l[j].base <= p.base
              BY <1>6, <3>2, <3>3
          <5> QED
              BY <1>6, <3>3, <3>5, <4>1, <5>1, FirstOfTwo DEF Beside
        <4> QED
            BY <3>1, <3>2, <3>5, <4>2
      <3> QED
          BY <3>3, <3>4, <3>5
    <2>3. CASE j = k
      <3>1. k \in 1..n /\ k + 1 \in 1..(n + 1) /\ ~(k + 1 < k) /\ k + 1 # k /\ (k + 1) - 1 = k
          BY <1>2, <2>3
      <3>2. r[j] = p /\ r[j + 1] = l[k] /\ p.base <= l[k].base
          BY <1>2, <1>4, <2>3, <3>1
      <3>3. l[k].base \in Int /\ l[k].count \in Int /\ l[k].at \in Nat
          BY <1>5, <3>1
      <3>4. CASE l[k].count <= 0
          BY <3>2, <3>4
      <3>5. CASE l[k].count > 0
        <4>1. Beside(l[k], p)
            BY <1>1, <3>1, <3>5
        <4>2. p.base + p.count < l[k].base \/ p.base + p.count = l[k].base
            BY <1>6, <3>2, <3>3, <3>5, <4>1, FirstOfTwo DEF Beside
        <4>3. <<p.at, l[k].at>> \in T
            BY <3>3
        <4> QED
            BY <3>2, <4>2, <4>3
      <3> QED
          BY <3>3, <3>4, <3>5
    <2>4. CASE j > k
      <3>1. PICK i : i = j - 1
          OBVIOUS
      <3>2. /\ i \in 1..(n - 1) /\ j = i + 1 /\ (j + 1) - 1 = i + 1
            /\ j \in 1..(n + 1) /\ j + 1 \in 1..(n + 1)
            /\ ~(j < k) /\ j # k /\ ~(j + 1 < k) /\ j + 1 # k
          BY <1>2, <2>4, <3>1
      <3>3. r[j] = l[i] /\ r[j + 1] = l[i + 1]
          BY <1>4, <3>1, <3>2
      <3>4. l[i].base + l[i].count < l[i + 1].base \/ l[i + 1].count <= 0
          BY <1>1, <3>2 DEF Ordered
      <3> QED
          BY <3>3, <3>4
    <2> QED
        BY <1>2, <2>1, <2>2, <2>3, <2>4
  <1>8. (n + 1) - 1 = n
      BY <1>1
  <1>9. Ordered(r, T)
      BY <1>4, <1>7, <1>8 DEF Ordered
  <1>10. ASSUME NEW j \in 1..(n + 1) PROVE r[j] \in Listed(l) \cup {p}
    <2>1. CASE j < k
      <3>1. j \in 1..n
          BY <1>2, <2>1
      <3> QED
          BY <1>1, <1>4, <2>1, <3>1 DEF Listed
    <2>2. CASE j = k
        BY <1>4, <2>2
    <2>3. CASE j > k
      <3>1. j - 1 \in 1..n /\ ~(j < k) /\ j # k
          BY <1>2, <2>3
      <3>2. r[j] = l[j - 1]
          BY <1>4, <3>1
      <3> QED
          BY <1>1, <3>1, <3>2 DEF Listed
    <2> QED
        BY <1>2, <2>1, <2>2, <2>3
  <1>11. Listed(r) \subseteq Listed(l) \cup {p}
      BY <1>4, <1>10 DEF Listed
  <1> QED
      BY <1>9, <1>11

\* The stack of page::free, which only outside calls.
LEMMA FreeingAlone ==
    ASSUME KMemInv, NEW step, At("page_free", step)
    PROVE  /\ stack \in Seq(Frames) /\ stack # <<>> /\ Top = stack[1] /\ Top \in PageFreeFrames
           /\ Top.fn = "page_free" /\ Top.step = step /\ halted = "no" /\ Tail(stack) = <<>>
           /\ Loose(stack) = LooseOf(Top) /\ RunsIn(stack) = RunOf(Top)
           /\ \E p \in Run : p = Top.chain[1] /\ Last(Top.chain) = p
  <1>1. StackOK(stack) /\ stack \in Seq(Frames)
      BY DEF KMemInv, StackOK
  <1>2. /\ stack # <<>> /\ Top = stack[1] /\ Top \in PageFreeFrames /\ Top.fn = "page_free"
        /\ Top.step = step /\ halted = "no"
      BY <1>1, TopFacts, FrameKinds DEF At
  <1>3. Tail(stack) = <<>>
      BY <1>1, <1>2, GivesFacts, Outermost
  <1>4. PICK t : t = Tail(stack)
      OBVIOUS
  <1>5. t \in Seq(Frames) /\ Len(t) = Len(stack) - 1 /\ Len(stack) \in Nat
      BY <1>1, <1>2, <1>4
  <1>6. Len(stack) = 1
    <2>1. Len(t) = 0
        BY <1>3, <1>4, <1>5, NoLength
    <2> QED
        BY <1>5, <2>1
  <1>7. 1..1 = {1}
      OBVIOUS
  <1>8. Loose(stack) = LooseOf(Top) /\ RunsIn(stack) = RunOf(Top)
      BY <1>2, <1>6, <1>7 DEF Loose, RunsIn
  <1>9. PICK c : c = Top.chain /\ c \in Seq(Run) /\ Len(c) = 1
      BY <1>2 DEF PageFreeFrames, OneRun
  <1>10. c[1] \in Run
    <2>1. c \in Seq(Run) /\ Len(c) = 1
        BY <1>9
    <2> QED
        BY <2>1
  <1>11. Last(Top.chain) = c[1]
      BY <1>9 DEF Last
  <1> QED
      BY <1>1, <1>2, <1>3, <1>8, <1>9, <1>10, <1>11

LEMMA PageInsertRuns ==
    ASSUME KMemInv, RunsInv, PageInsert
    PROVE  RunsInv'
  <1>1. /\ stack \in Seq(Frames) /\ stack # <<>> /\ Top = stack[1] /\ Top \in PageFreeFrames
        /\ Top.fn = "page_free" /\ Top.step = "insert" /\ halted = "no" /\ Tail(stack) = <<>>
        /\ Loose(stack) = LooseOf(Top) /\ RunsIn(stack) = RunOf(Top)
        /\ \E p \in Run : p = Top.chain[1] /\ Last(Top.chain) = p
      BY FreeingAlone DEF PageInsert
  <1>2. PICK p \in Run : p = Top.chain[1] /\ Last(Top.chain) = p
      BY <1>1
  <1>3. Loose(stack) = {} /\ RunsIn(stack) = {p}
      BY <1>1, <1>2, RunOfFacts, LooseOfFacts
  <1>4. PICK l \in Seq(Run) : l = page_free
      BY DEF KMemInv, PagesOK
  <1>5. PICK k : k = Min({i \in 1..Len(l) : l[i].base >= p.base} \cup {Len(l) + 1})
      OBVIOUS
  <1>6. p.at \in Nat /\ p.base \in Int /\ p.count \in Int
      BY RunTypes
  <1>7. Place(l, p.base, k)
    <2>1. \A i \in 1..Len(l) : l[i].base \in Int
        BY Elements, RunTypes
    <2>2. Len(l) \in Nat
        OBVIOUS
    <2> QED
        BY <1>5, <1>6, <2>1, <2>2, InsertPlace, Zenon
  <1>8. PICK prev : prev = IF k = 1 THEN None ELSE page_free[k - 1].at
      OBVIOUS
  <1>9. PICK g : g = [Top EXCEPT !.step = "merge", !.prev = prev]
      OBVIOUS
  <1>10. g.fn = "page_free" /\ g.step = "merge" /\ g.prev = prev /\ g.chain = Top.chain
      BY <1>1, <1>9 DEF PageFreeFrames
  <1>11. PICK T : T = LooseOf(g)
      OBVIOUS
  <1>12. T = {<<prev, p.at>>} \cup ({p.at} \X Nat) /\ RunOf(g) = {} /\ Cut(g)
      BY <1>2, <1>10, <1>11, LooseOfFacts, RunOfFacts, CutFacts
  <1>13. PICK t : t = stack' /\ t = Resumed(g, stack)
      BY <1>2, <1>4, <1>5, <1>8, <1>9 DEF PageInsert, Resumed
  <1>14. /\ RunsIn(t) \subseteq RunsIn(stack) \cup RunOf(g)
         /\ Tail(stack) = <<>> => Loose(t) = LooseOf(g)
         /\ Cuts(stack) /\ Cut(g) => Cuts(t)
      BY <1>1, <1>13, RunsResumed
  <1>15. PICK r : r = page_free' /\ r = InsertAt(l, k, p)
      BY <1>2, <1>4, <1>5 DEF PageInsert
  <1>16. /\ Ordered(l, {}) /\ Separate(Runs(page_free, held, stack)) /\ Cuts(stack) /\ Full(held)
      BY <1>1, <1>3, <1>4 DEF RunsInv
  <1>17. p.count > 0
    <2>1. 1 \in 1..Len(stack)
        BY <1>1
    <2>2. Cut(stack[1])
        BY <1>16, <2>1 DEF Cuts
    <2> QED
        BY <1>1, <1>2, <2>2 DEF Cut
  <1>18. ASSUME NEW i \in 1..Len(l), l[i].count > 0 PROVE Beside(l[i], p)
    <2>1. l[i] \in Listed(page_free) /\ p \in RunsIn(stack)
        BY <1>3, <1>4 DEF Listed
    <2>2. l[i] # p
        BY <2>1, OneOwner
    <2> QED
        BY <1>16, <1>17, <1>18, <2>1, <2>2 DEF Separate, Runs
  <1>19. k > 1 => <<l[k - 1].at, p.at>> \in T
    <2>1. k \in Int
        BY <1>7 DEF Place
    <2> QED
        BY <1>4, <1>8, <1>12, <2>1
  <1>20. \A x \in Nat : <<p.at, x>> \in T
      BY <1>12
  <1>21. Ordered(r, T) /\ Listed(r) \subseteq Listed(l) \cup {p}
      BY <1>7, <1>15, <1>16, <1>17, <1>18, <1>19, <1>20, InsertOrdered
  <1>22. held' = held /\ UNCHANGED <<alloc_pointer, current_map>>
      BY DEF PageInsert
  <1>23. Runs(page_free', held', stack') \subseteq Runs(page_free, held, stack)
      BY <1>3, <1>4, <1>12, <1>13, <1>14, <1>15, <1>21, <1>22 DEF Runs
  <1>24. Ordered(page_free', Loose(stack')) /\ Cuts(stack') /\ Full(held')
      BY <1>1, <1>11, <1>12, <1>13, <1>14, <1>15, <1>16, <1>21, <1>22
  <1> QED
      BY <1>1, <1>22, <1>23, <1>24, RunsMove

\* A run and the one it touches become one.
Joined(l, i, m, r) ==
    /\ r \in Seq(Run) /\ Len(r) = Len(l) - 1
    /\ m \in Run /\ m.at = l[i].at /\ m.base = l[i].base /\ m.count = l[i].count + l[i + 1].count
    /\ \A j \in 1..(Len(l) - 1) : r[j] = IF j < i THEN l[j] ELSE IF j = i THEN m ELSE l[j + 1]

LEMMA MergedInto ==
    ASSUME NEW l \in Seq(Run), NEW i \in 1..(Len(l) - 1), NEW r, r = Swallow(l, i)
    PROVE  \E m : Joined(l, i, m, r)
  <1>1. PICK n \in Nat : n = Len(l) /\ i \in 1..n /\ i + 1 \in 1..n
      OBVIOUS
  <1>2. l[i] \in Run /\ l[i + 1] \in Run
      BY <1>1, Elements
  <1>3. PICK x \in Int : x = l[i].count + l[i + 1].count
    <2>1. l[i].count \in Int /\ l[i + 1].count \in Int
        BY <1>2, RunTypes
    <2> QED
        BY <2>1
  <1>4. PICK g : g = [l[i] EXCEPT !.count = x]
      OBVIOUS
  <1>5. g \in Run /\ g.at = l[i].at /\ g.base = l[i].base /\ g.count = x
      BY <1>2, <1>3, <1>4 DEF Run
  <1>6. PICK c : c = Replaced(l, i, g)
      OBVIOUS
  <1>7. c = [l EXCEPT ![i].count = @ + l[i + 1].count]
      BY <1>1, <1>3, <1>4, <1>6 DEF Replaced
  <1>8. Changed(l, i, g, c)
      BY <1>1, <1>5, <1>6, ReplacedRun
  <1>9. /\ c \in Seq(Run) /\ Len(c) = n
        /\ \A j \in 1..n : c[j] = IF j = i THEN g ELSE l[j]
      BY <1>1, <1>8 DEF Changed
  <1>10. r = RemoveAt(c, i + 1) /\ i + 1 \in 1..Len(c)
      BY <1>1, <1>7, <1>9 DEF Swallow
  <1>11. /\ r \in Seq(Run) /\ Len(r) = Len(c) - 1
         /\ \A j \in 1..(Len(c) - 1) : r[j] = IF j < i + 1 THEN c[j] ELSE c[j + 1]
      BY <1>9, <1>10, RemoveAtFacts, ZenonT(60)
  <1>12. ASSUME NEW j \in 1..(n - 1)
         PROVE  r[j] = IF j < i THEN l[j] ELSE IF j = i THEN g ELSE l[j + 1]
    <2>1. j \in 1..n /\ j + 1 \in 1..n
        BY <1>1
    <2>2. r[j] = IF j < i + 1 THEN c[j] ELSE c[j + 1]
        BY <1>9, <1>11
    <2>3. CASE j < i
      <3>1. j < i + 1 /\ j # i
          BY <1>1, <2>3
      <3> QED
          BY <1>9, <2>1, <2>2, <2>3, <3>1
    <2>4. CASE j = i
      <3>1. j < i + 1 /\ ~(j < i)
          BY <1>1, <2>4
      <3> QED
          BY <1>9, <2>1, <2>2, <2>4, <3>1
    <2>5. CASE j > i
      <3>1. ~(j < i + 1) /\ ~(j < i) /\ j # i /\ j + 1 # i
          BY <1>1, <2>5
      <3> QED
          BY <1>9, <2>1, <2>2, <3>1
    <2> QED
        BY <1>1, <2>3, <2>4, <2>5
  <1>13. Joined(l, i, g, r)
      BY <1>1, <1>3, <1>5, <1>9, <1>11, <1>12 DEF Joined
  <1> QED
      BY <1>13

\* The pairs T that may touch are those of struct s, of which the pairs V remain.
Settles(s, T, V) == \A x, y : <<x, y>> \in T => (x = s \/ y = s) /\ (x = s \/ <<x, y>> \in V)

LEMMA MergeOrdered ==
    ASSUME NEW l \in Seq(Run), \A i, j \in 1..Len(l) : l[i].at = l[j].at => i = j,
           NEW i \in 1..(Len(l) - 1), l[i].base + l[i].count = l[i + 1].base, NEW m, NEW r,
           Joined(l, i, m, r), NEW T, NEW V, Settles(l[i].at, T, V), Ordered(l, T)
    PROVE  Ordered(r, V)
  <1>1. PICK n \in Nat : n = Len(l) /\ i \in 1..n /\ i + 1 \in 1..n /\ i < n
      OBVIOUS
  <1>2. /\ r \in Seq(Run) /\ Len(r) = n - 1
        /\ m.at = l[i].at /\ m.base = l[i].base /\ m.count = l[i].count + l[i + 1].count
        /\ \A j \in 1..(n - 1) : r[j] = IF j < i THEN l[j] ELSE IF j = i THEN m ELSE l[j + 1]
      BY <1>1 DEF Joined
  <1>3. \A j \in 1..n : l[j].base \in Int /\ l[j].count \in Int
      BY <1>1, Elements, RunTypes
  <1>4. \A j \in 1..n : j # i => l[j].at # l[i].at
      BY <1>1
  <1> DEFINE Pair(j) ==
          \/ l[j].base + l[j].count < l[j + 1].base
          \/ l[j + 1].count <= 0
          \/ /\ l[j].base + l[j].count = l[j + 1].base /\ <<l[j].at, l[j + 1].at>> \in T
             /\ j = 1 \/ l[j].count > 0
  <1>5. \A j \in 1..(n - 1) : Pair(j)
      BY <1>1 DEF Ordered
  <1> DEFINE InOrder(j) ==
          \/ r[j].base + r[j].count < r[j + 1].base
          \/ r[j + 1].count <= 0
          \/ /\ r[j].base + r[j].count = r[j + 1].base /\ <<r[j].at, r[j + 1].at>> \in V
             /\ j = 1 \/ r[j].count > 0
  <1>6. ASSUME NEW j \in 1..((n - 1) - 1) PROVE InOrder(j)
    <2>1. CASE j < i - 1
      <3>1. /\ j \in 1..(n - 1) /\ j + 1 \in 1..(n - 1) /\ j < i /\ j + 1 < i /\ j \in 1..n /\ j # i
          BY <1>1, <2>1
      <3>2. r[j] = l[j] /\ r[j + 1] = l[j + 1]
          BY <1>2, <3>1
      <3>3. Pair(j) /\ l[j].at # l[i].at
          BY <1>4, <1>5, <3>1
      <3>4. <<l[j].at, l[j + 1].at>> \in T => <<l[j].at, l[j + 1].at>> \in V
          BY <3>3 DEF Settles
      <3> QED
          BY <3>2, <3>3, <3>4
    <2>2. CASE j = i - 1
      <3>1. /\ j \in 1..(n - 1) /\ j + 1 = i /\ i \in 1..(n - 1) /\ j < i /\ j \in 1..n /\ j # i /\ i # 1
          BY <1>1, <2>2
      <3>2. r[j] = l[j] /\ r[j + 1] = m
          BY <1>2, <3>1
      <3>3. Pair(j) /\ Pair(i) /\ l[j].at # l[i].at
          BY <1>4, <1>5, <3>1
      <3>4. <<l[j].at, l[i].at>> \in T => <<l[j].at, l[i].at>> \in V
          BY <3>3 DEF Settles
      <3>5. CASE l[j].base + l[j].count < l[i].base
          BY <1>2, <3>2, <3>5
      <3>6. CASE l[i].count <= 0
        <4>1. l[i].count \in Int /\ l[i].base \in Int /\ l[i + 1].count \in Int /\ l[i + 1].base \in Int
            BY <1>1, <1>3
        <4>2. l[i + 1].count <= 0
            BY <3>1, <3>3, <3>6, <4>1
        <4>3. m.count <= 0
            BY <1>2, <3>6, <4>1, <4>2
        <4> QED
            BY <3>2, <4>3
      <3>7. CASE /\ l[j].base + l[j].count = l[i].base /\ <<l[j].at, l[i].at>> \in T
                 /\ j = 1 \/ l[j].count > 0
          BY <1>2, <3>2, <3>4, <3>7
      <3> QED
          BY <3>1, <3>3, <3>5, <3>6, <3>7
    <2>3. CASE j = i
      <3>1. PICK k : k = i + 1
          OBVIOUS
      <3>2. /\ k \in 1..(n - 1) /\ k \in 1..n /\ k + 1 \in 1..n /\ k # i /\ k + 1 # i /\ ~(k < i)
            /\ i \in 1..(n - 1) /\ ~(i < i) /\ j + 1 = k
          BY <1>1, <2>3, <3>1
      <3>3. r[j] = m /\ r[j + 1] = l[k + 1]
          BY <1>2, <2>3, <3>2
      <3>4. Pair(k) /\ l[k].at # l[i].at /\ l[k + 1].at # l[i].at
          BY <1>4, <1>5, <3>2
      <3>5. <<l[k].at, l[k + 1].at>> \notin T
          BY <3>4 DEF Settles
      <3>6. l[k].base + l[k].count < l[k + 1].base \/ l[k + 1].count <= 0
          BY <3>4, <3>5
      <3>7. m.base + m.count = l[k].base + l[k].count
        <4>1. /\ l[i].count \in Int /\ l[i].base \in Int /\ l[k].count \in Int /\ l[k].base \in Int
            BY <1>1, <1>3, <3>2
        <4>2. m.base = l[i].base /\ m.count = l[i].count + l[k].count /\ l[i].base + l[i].count = l[k].base
            BY <1>2, <3>1
        <4> QED
            BY <4>1, <4>2
      <3> QED
          BY <3>3, <3>6, <3>7
    <2>4. CASE j > i
      <3>1. PICK k : k = j + 1
          OBVIOUS
      <3>2. /\ k \in 1..(n - 1) /\ k \in 1..n /\ k + 1 \in 1..n /\ k # i /\ k + 1 # i /\ ~(k < i)
            /\ j \in 1..(n - 1) /\ ~(j < i) /\ j # i
          BY <1>1, <2>4, <3>1
      <3>3. r[j] = l[k] /\ r[j + 1] = l[k + 1]
          BY <1>2, <3>1, <3>2
      <3>4. Pair(k) /\ l[k].at # l[i].at /\ l[k + 1].at # l[i].at
          BY <1>4, <1>5, <3>2
      <3>5. <<l[k].at, l[k + 1].at>> \notin T
          BY <3>4 DEF Settles
      <3> QED
          BY <3>3, <3>4, <3>5
    <2> QED
        BY <1>1, <2>1, <2>2, <2>3, <2>4
  <1> QED
      BY <1>2, <1>6 DEF Ordered

LEMMA SettledOrdered ==
    ASSUME NEW l \in Seq(Run), NEW s, NEW T, NEW V, Settles(s, T, V), Ordered(l, T),
           \A i \in 1..(Len(l) - 1) :
               l[i].at = s => l[i].base + l[i].count # l[i + 1].base
    PROVE  Ordered(l, V)
  <1>1. ASSUME NEW i \in 1..(Len(l) - 1), <<l[i].at, l[i + 1].at>> \in T, l[i].at # s
        PROVE  <<l[i].at, l[i + 1].at>> \in V
      BY <1>1 DEF Settles
  <1> QED
      BY <1>1 DEF Ordered

\* What is apart from both halves is apart from the whole.
LEMMA JoinApart ==
    ASSUME NEW a \in Int, NEW c \in Int, NEW d \in Int, NEW x \in Int, NEW y \in Int, x < y, c + d > 0,
           c > 0 => a + c <= x \/ y <= a,
           d > 0 => a + c + d <= x \/ y <= a + c
    PROVE  a + c + d <= x \/ y <= a
  OBVIOUS

\* The run m is the runs a and b, one behind the other.
Whole(m, a, b) ==
    /\ m \in Run /\ a \in Run /\ b \in Run /\ a.base + a.count = b.base
    /\ m.base = a.base /\ m.count = a.count + b.count

LEMMA WholeApart ==
    ASSUME NEW m, NEW a, NEW b, Whole(m, a, b), m.count > 0, NEW x \in Int, NEW y \in Int, x < y,
           a.count > 0 => a.base + a.count <= x \/ y <= a.base,
           b.count > 0 => b.base + b.count <= x \/ y <= b.base
    PROVE  m.base + m.count <= x \/ y <= m.base
  <1>1. PICK p \in Int, c \in Int, d \in Int :
            p = a.base /\ c = a.count /\ d = b.count /\ b.base = p + c /\ m.base = p /\ m.count = c + d
      BY RunTypes DEF Whole
  <1>2. p + (c + d) = p + c + d
      BY <1>1
  <1> QED
      BY <1>1, <1>2, JoinApart

LEMMA WholeSeparate ==
    ASSUME NEW S \in SUBSET Run, NEW a \in S, NEW b \in S, NEW m, Whole(m, a, b), NEW T,
           T \subseteq (S \ {a, b}) \cup {m}, NEW ap \in Int, NEW cm \in 1..Len(Regions),
           Separate(S), AllUsed(S, ap, cm)
    PROVE  Separate(T) /\ AllUsed(T, ap, cm)
  <1>1. ASSUME NEW r \in S \ {a, b}, r.count > 0, m.count > 0 PROVE Beside(r, m) /\ Beside(m, r)
    <2>1. PICK x \in Int, c \in Int : x = r.base /\ c = r.count /\ c > 0
        BY <1>1, RunTypes
    <2>2. PICK y \in Int : y = x + c /\ x < y
        BY <2>1
    <2>3. a.count > 0 => a.base + a.count <= x \/ y <= a.base
      <3>1. a.count > 0 => Beside(a, r)
          BY <1>1 DEF Separate
      <3> QED
          BY <2>1, <2>2, <3>1 DEF Beside
    <2>4. b.count > 0 => b.base + b.count <= x \/ y <= b.base
      <3>1. b.count > 0 => Beside(b, r)
          BY <1>1 DEF Separate
      <3> QED
          BY <2>1, <2>2, <3>1 DEF Beside
    <2>5. m.base + m.count <= x \/ y <= m.base
        BY <1>1, <2>2, <2>3, <2>4, WholeApart
    <2> QED
        BY <2>1, <2>2, <2>5 DEF Beside
  <1>2. Separate(T)
      BY <1>1 DEF Separate
  <1>3. ASSUME m.count > 0 PROVE Used(m, ap, cm)
    <2>1. ASSUME ap < EndOfRegion(cm) PROVE m.base + m.count <= ap \/ EndOfRegion(cm) <= m.base
      <3>1. EndOfRegion(cm) \in Int
          BY RegionTypes
      <3>2. a.count > 0 => a.base + a.count <= ap \/ EndOfRegion(cm) <= a.base
          BY <2>1 DEF AllUsed, Used
      <3>3. b.count > 0 => b.base + b.count <= ap \/ EndOfRegion(cm) <= b.base
          BY <2>1 DEF AllUsed, Used
      <3> QED
          BY <1>3, <2>1, <3>1, <3>2, <3>3, WholeApart
    <2>2. ASSUME NEW i \in Left(cm), Area(i).count > 0 PROVE Beside(m, Area(i))
      <3>1. i \in 1..Len(Regions)
          BY DEF Left
      <3>2. PICK x \in Int, y \in Int : x = Area(i).base /\ y = Area(i).base + Area(i).count /\ x < y
        <4>1. Area(i).base \in Int /\ Area(i).count \in Int
            BY <3>1, RegionTypes
        <4> QED
            BY <2>2, <4>1
      <3>3. a.count > 0 => a.base + a.count <= x \/ y <= a.base
          BY <2>2, <3>2 DEF AllUsed, Used, Beside
      <3>4. b.count > 0 => b.base + b.count <= x \/ y <= b.base
          BY <2>2, <3>2 DEF AllUsed, Used, Beside
      <3>5. m.base + m.count <= x \/ y <= m.base
          BY <1>3, <3>2, <3>3, <3>4, WholeApart
      <3> QED
          BY <3>2, <3>5 DEF Beside
    <2> QED
        BY <2>1, <2>2 DEF Used
  <1>4. AllUsed(T, ap, cm)
      BY <1>3 DEF AllUsed
  <1> QED
      BY <1>2, <1>4

LEMMA JoinedListed ==
    ASSUME NEW l \in Seq(Run), \A x, y \in 1..Len(l) : l[x].at = l[y].at => x = y,
           NEW i \in 1..(Len(l) - 1), NEW m, NEW r, Joined(l, i, m, r)
    PROVE  /\ l[i] \in Listed(l) /\ l[i + 1] \in Listed(l)
           /\ Listed(r) \subseteq (Listed(l) \ {l[i], l[i + 1]}) \cup {m}
  <1>1. PICK n \in Nat : n = Len(l) /\ i \in 1..n /\ i + 1 \in 1..n /\ i < n
      OBVIOUS
  <1>2. /\ Len(r) = n - 1
        /\ \A j \in 1..(n - 1) : r[j] = IF j < i THEN l[j] ELSE IF j = i THEN m ELSE l[j + 1]
      BY <1>1 DEF Joined
  <1>3. \A j \in 1..n : j # i /\ j # i + 1 => l[j] \in Listed(l) \ {l[i], l[i + 1]}
      BY <1>1 DEF Listed
  <1>4. ASSUME NEW j \in 1..(n - 1) PROVE r[j] \in (Listed(l) \ {l[i], l[i + 1]}) \cup {m}
    <2>1. CASE j < i
      <3>1. j \in 1..n /\ j # i /\ j # i + 1 /\ r[j] = l[j]
          BY <1>1, <1>2, <2>1
      <3> QED
          BY <1>3, <3>1
    <2>2. CASE j = i
      <3>1. ~(j < i)
          BY <1>1, <2>2
      <3> QED
          BY <1>2, <2>2, <3>1
    <2>3. CASE j > i
      <3>1. j + 1 \in 1..n /\ j + 1 # i /\ j + 1 # i + 1 /\ ~(j < i) /\ j # i
          BY <1>1, <2>3
      <3>2. r[j] = l[j + 1]
          BY <1>2, <3>1
      <3> QED
          BY <1>3, <3>1, <3>2
    <2> QED
        BY <1>1, <2>1, <2>2, <2>3
  <1> QED
      BY <1>1, <1>2, <1>4 DEF Listed

\* _merge_free of pages.
LEMMA MergePagesRuns ==
    ASSUME KMemInv, UsedInv, RunsInv, NEW step \in {"merge", "merge_prev"}, At("page_free", step), NEW s,
           NEW next \in {"merge_prev", "freed"}, MergePages(s, next),
           UNCHANGED <<held, alloc_pointer, current_map>>,
           NEW V, V = LooseOf([Top EXCEPT !.step = next]), Settles(s, Loose(stack), V)
    PROVE  RunsInv'
  <1>1. /\ stack \in Seq(Frames) /\ stack # <<>> /\ Top = stack[1] /\ Top \in PageFreeFrames
        /\ halted = "no" /\ Tail(stack) = <<>>
      BY FreeingAlone
  <1>2. PICK g : g = [Top EXCEPT !.step = next]
      OBVIOUS
  <1>3. g.fn = "page_free" /\ g.step = next
      BY <1>1, <1>2 DEF PageFreeFrames
  <1>4. RunOf(g) = {} /\ Cut(g) /\ V = LooseOf(g)
      BY <1>2, <1>3, RunOfFacts, CutFacts
  <1>5. PICK l \in Seq(Run) : l = page_free /\ \A x, y \in 1..Len(l) : l[x].at = l[y].at => x = y
      BY DEF KMemInv, PagesOK
  <1>6. Touching(l, s) = {} => Ordered(l, V)
    <2>1. Ordered(l, Loose(stack))
        BY <1>1, <1>5 DEF RunsInv
    <2>2. ASSUME Touching(l, s) = {}, NEW i \in 1..(Len(l) - 1), l[i].at = s
          PROVE  l[i].base + l[i].count # l[i + 1].base
        BY <2>2 DEF Touching
    <2> QED
        BY <2>1, <2>2, SettledOrdered
  <1>7. PICK T : T = Loose(stack)
      OBVIOUS
  <1>8. /\ Ordered(l, T) /\ Settles(s, T, V) /\ Cuts(stack) /\ Full(held)
      BY <1>1, <1>5, <1>7 DEF RunsInv
  <1>9. CASE Touching(page_free, s) = {} /\ Goto(next) /\ UNCHANGED page_free
    <2>1. PICK t : t = stack' /\ t = Resumed(g, stack)
        BY <1>2, <1>9 DEF Goto, Resumed
    <2>2. /\ RunsIn(t) \subseteq RunsIn(stack) \cup RunOf(g)
          /\ Tail(stack) = <<>> => Loose(t) = LooseOf(g)
          /\ Cuts(stack) /\ Cut(g) => Cuts(t)
        BY <1>1, <2>1, RunsResumed
    <2>3. Ordered(page_free', Loose(stack')) /\ Cuts(stack') /\ Full(held')
        BY <1>1, <1>4, <1>5, <1>6, <1>8, <1>9, <2>1, <2>2
    <2>4. Runs(page_free', held', stack') \subseteq Runs(page_free, held, stack)
        BY <1>4, <1>9, <2>1, <2>2 DEF Runs
    <2> QED
        BY <1>1, <2>3, <2>4, RunsMove
  <1>10. ASSUME NEW i \in Touching(used_start, s), Call(Free(used_start[i + 1].at), next),
                UNCHANGED page_free
         PROVE  RunsInv'
    <2>1. Touching(l, s) = {}
      <3>1. s \in PageStructs(used_start)
        <4>1. i \in 1..Len(used_start) - 1 /\ used_start[i].at = s /\ used_start \in Seq(Run)
            BY DEF Touching, UsedInv, UsedOK
        <4>2. i \in 1..Len(used_start)
            BY <4>1
        <4> QED
            BY <4>1, <4>2 DEF PageStructs
      <3>2. s \notin PageStructs(l)
          BY <1>5, <3>1 DEF KMemInv, OwnOK, Kept
      <3>3. ASSUME NEW j \in Touching(l, s) PROVE FALSE
        <4>1. j \in 1..Len(l) - 1 /\ l[j].at = s
            BY DEF Touching
        <4>2. j \in 1..Len(l)
            BY <4>1
        <4> QED
            BY <3>2, <4>1, <4>2 DEF PageStructs
      <3> QED
          BY <3>3
    <2>2. PICK f : f = Free(used_start[i + 1].at)
        OBVIOUS
    <2>3. f.fn = "kfree"
        BY <2>2 DEF Free
    <2>4. RunOf(f) = {} /\ Cut(f)
        BY <2>3, RunOfFacts, CutFacts
    <2>5. PICK t : t = stack' /\ t = Called(f, g, stack)
        BY <1>2, <1>10, <2>2 DEF Call, Called
    <2>6. /\ RunsIn(t) \subseteq RunsIn(stack) \cup RunOf(f) \cup RunOf(g)
          /\ Tail(stack) = <<>> => Loose(t) = LooseOf(g)
          /\ Cuts(stack) /\ Cut(f) /\ Cut(g) => Cuts(t)
        BY <1>1, <2>5, RunsCalled
    <2>7. Ordered(page_free', Loose(stack')) /\ Cuts(stack') /\ Full(held')
        BY <1>1, <1>4, <1>5, <1>6, <1>8, <1>10, <2>1, <2>4, <2>5, <2>6
    <2>8. Runs(page_free', held', stack') \subseteq Runs(page_free, held, stack)
        BY <1>4, <1>10, <2>4, <2>5, <2>6 DEF Runs
    <2> QED
        BY <1>1, <2>7, <2>8, RunsMove
  <1>11. ASSUME NEW i \in Touching(page_free, s), page_free' = Swallow(page_free, i),
                Call(Free(page_free[i + 1].at), next)
         PROVE  RunsInv'
    <2>2. i \in 1..(Len(l) - 1) /\ l[i].at = s /\ l[i].base + l[i].count = l[i + 1].base
        BY <1>5 DEF Touching
    <2>3. page_free' = Swallow(l, i) /\ Call(Free(l[i + 1].at), next)
        BY <1>5, <1>11
    <2>4. PICK r : r = page_free' /\ r = Swallow(l, i)
        BY <2>3
    <2>5. PICK m : Joined(l, i, m, r)
        BY <2>2, <2>4, MergedInto
    <2>6. PICK f : f = Free(l[i + 1].at)
        OBVIOUS
    <2>7. f.fn = "kfree"
        BY <2>6 DEF Free
    <2>8. RunOf(f) = {} /\ Cut(f)
        BY <2>7, RunOfFacts, CutFacts
    <2>9. PICK t : t = stack' /\ t = Called(f, g, stack)
        BY <1>2, <2>3, <2>6 DEF Call, Called
    <2>10. /\ RunsIn(t) \subseteq RunsIn(stack) \cup RunOf(f) \cup RunOf(g)
           /\ Tail(stack) = <<>> => Loose(t) = LooseOf(g)
           /\ Cuts(stack) /\ Cut(f) /\ Cut(g) => Cuts(t)
        BY <1>1, <2>9, RunsCalled
    <2>11. Ordered(r, V)
        BY <1>5, <1>8, <2>2, <2>5, MergeOrdered
    <2>12. Ordered(page_free', Loose(stack')) /\ Cuts(stack') /\ Full(held')
        BY <1>1, <1>4, <1>8, <2>4, <2>8, <2>9, <2>10, <2>11
    <2>13. /\ l[i] \in Listed(l) /\ l[i + 1] \in Listed(l)
           /\ Listed(r) \subseteq (Listed(l) \ {l[i], l[i + 1]}) \cup {m}
        BY <1>5, <2>2, <2>5, JoinedListed
    <2>14. PICK S : S = Runs(page_free, held, stack)
        OBVIOUS
    <2>15. PICK W : W = Runs(page_free', held', stack')
        OBVIOUS
    <2>16. /\ S \subseteq Run /\ Listed(l) \cap (HeldRuns(held) \cup RunsIn(stack)) = {}
        BY <1>5, <2>14, OneOwner
    <2>17. PICK a, b : a = l[i] /\ b = l[i + 1]
        OBVIOUS
    <2>18. RunsIn(stack') \subseteq RunsIn(stack)
        BY <1>4, <2>8, <2>9, <2>10
    <2>19. a \in S /\ b \in S /\ W \subseteq (S \ {a, b}) \cup {m} /\ S \in SUBSET Run
      <3>1. PICK L, M, H, K : /\ L = Listed(l) /\ M = Listed(r) /\ H = HeldRuns(held)
                              /\ K = RunsIn(stack)
          OBVIOUS
      <3>2. S = L \cup H \cup K /\ W \subseteq M \cup H \cup K
          BY <1>5, <2>4, <2>14, <2>15, <2>18, <3>1 DEF Runs
      <3>3. a \in L /\ b \in L /\ M \subseteq (L \ {a, b}) \cup {m} /\ L \cap (H \cup K) = {}
          BY <2>13, <2>16, <2>17, <3>1
      <3> QED
          BY <2>16, <3>2, <3>3
    <2>20. Whole(m, a, b)
        BY <2>2, <2>5, <2>16, <2>17, <2>19 DEF Whole, Joined
    <2>21. Separate(S) /\ AllUsed(S, alloc_pointer, current_map)
        BY <1>1, <2>14 DEF RunsInv
    <2>22. alloc_pointer \in Int /\ current_map \in 1..Len(Regions)
        BY DEF KMemInv, RegionOK
    <2>23. Separate(W) /\ AllUsed(W, alloc_pointer, current_map)
        BY <2>19, <2>20, <2>21, <2>22, WholeSeparate
    <2>24. AllUsed(W, alloc_pointer', current_map')
        BY <2>23
    <2> QED
        BY <2>12, <2>15, <2>23, <2>24 DEF RunsInv
  <1> QED
      BY <1>9, <1>10, <1>11 DEF MergePages

LEMMA PageMergeNextRuns ==
    ASSUME KMemInv, UsedInv, RunsInv, PageMergeNext
    PROVE  RunsInv'
  <1>1. /\ Top \in PageFreeFrames /\ Top.fn = "page_free" /\ Top.step = "merge"
        /\ Loose(stack) = LooseOf(Top) /\ \E p \in Run : p = Top.chain[1] /\ Last(Top.chain) = p
      BY FreeingAlone DEF PageMergeNext
  <1>2. PICK s : s = Top.chain[1].at /\ s = Last(Top.chain).at
      BY <1>1
  <1>3. Loose(stack) = {<<Top.prev, s>>} \cup ({s} \X Nat)
      BY <1>1, <1>2, LooseOfFacts
  <1>4. s \in Nat
      BY <1>1, <1>2, RunTypes
  <1>5. PICK g : g = [Top EXCEPT !.step = "merge_prev"]
      OBVIOUS
  <1>6. g.fn = "page_free" /\ g.step = "merge_prev" /\ g.prev = Top.prev
      BY <1>1, <1>5 DEF PageFreeFrames
  <1>7. PICK V : V = LooseOf(g) /\ V = {Top.prev} \X Nat
      BY <1>6, LooseOfFacts
  <1>8. Settles(s, Loose(stack), V)
      BY <1>3, <1>4, <1>7 DEF Settles
  <1>9. /\ MergePages(s, "merge_prev") /\ At("page_free", "merge")
        /\ UNCHANGED <<held, alloc_pointer, current_map>>
      BY <1>2 DEF PageMergeNext
  <1> QED
      BY <1>5, <1>7, <1>8, <1>9, MergePagesRuns

LEMMA PageMergePrevRuns ==
    ASSUME KMemInv, UsedInv, RunsInv, PageMergePrev
    PROVE  RunsInv'
  <1>1. /\ Top \in PageFreeFrames /\ Top.fn = "page_free" /\ Top.step = "merge_prev"
        /\ Loose(stack) = LooseOf(Top)
      BY FreeingAlone DEF PageMergePrev
  <1>2. PICK s : s = Top.prev
      OBVIOUS
  <1>3. Loose(stack) = {s} \X Nat
      BY <1>1, <1>2, LooseOfFacts
  <1>4. PICK V : V = LooseOf([Top EXCEPT !.step = "freed"])
      OBVIOUS
  <1>5. Settles(s, Loose(stack), V)
      BY <1>3 DEF Settles
  <1>6. /\ MergePages(s, "freed") /\ At("page_free", "merge_prev")
        /\ UNCHANGED <<held, alloc_pointer, current_map>>
      BY <1>2 DEF PageMergePrev
  <1> QED
      BY <1>4, <1>5, <1>6, MergePagesRuns

LEMMA InitRuns ==
    ASSUME Init
    PROVE  RunsInv
  <1>1. stack = <<>> /\ page_free = <<>> /\ held = {} /\ current_map = 1
        /\ alloc_pointer = Regions[1].base + 1
      BY DEF Init
  <1>2. RunsIn(stack) = {} /\ Loose(stack) = {} /\ Cuts(stack)
      BY <1>1, RunsBegun
  <1>3. Runs(page_free, held, stack) = {} /\ Full(held) /\ Ordered(page_free, Loose(stack))
      BY <1>1, <1>2 DEF Runs, Listed, HeldRuns, Full, Ordered
  <1>4. Separate({})
      BY DEF Separate
  <1>5. AllUsed({}, alloc_pointer, current_map)
    <2>1. 1 \in 1..Len(Regions)
      <3>1. PICK S : S = [base : Nat, length : Nat, usable : BOOLEAN] /\ Regions \in Seq(S)
          BY SizesAssumption
      <3>2. Regions \in Seq(S) /\ Regions # <<>>
          BY <3>1, SizesAssumption
      <3> QED
          BY <3>2
    <2>2. Regions[1].base \in Nat /\ Regions[1].length \in Nat /\ Regions[1].length > 1
        BY <2>1, RegionTypes, SizesAssumption
    <2> QED
        BY <1>1, <2>2 DEF AllUsed, InUse, EndOfRegion
  <1> QED
      BY <1>2, <1>3, <1>4, <1>5 DEF RunsInv

LEMMA StutterRuns ==
    ASSUME RunsInv, UNCHANGED vars
    PROVE  RunsInv'
  <1>1. UNCHANGED <<page_free, held, stack, alloc_pointer, current_map, halted>>
      BY DEF vars, pageVars
  <1> QED
      BY <1>1 DEF RunsInv

LEMMA NextRuns ==
    ASSUME RegionsApart, KMemInv, UsedInv, RunsInv, Next
    PROVE  RunsInv'
  <1>1. CASE AllocateWhole \/ AllocateShrink
      BY <1>1, KmallocReturns
  <1>2. CASE Grow
      BY <1>2, GrowRuns
  <1>3. CASE GrowForever \/ InstallChain \/ PageSplitNull \/ PageExhausted \/ PageRestRelock
    <2>1. PICK why \in {"overflow", "deadlock", "fault", "panic", "beyond"} : Halt(why)
        BY <1>3 DEF GrowForever, InstallChain, PageSplitNull, PageExhausted, PageRestRelock
    <2> QED
        BY <2>1, HaltRuns
  <1>4. CASE Install
      BY <1>4, InstallRuns
  <1>5. CASE FreeWithSpare \/ FreeWithNew
      BY <1>5, KfreeReturns
  <1>6. CASE FreeGetStruct
      BY <1>6, GetStructRuns
  <1>7. CASE PageSplitCall \/ PageFreshCall \/ PageRest
      BY <1>7, AllocCallsRuns
  <1>8. CASE PageSplit
      BY <1>8, PageSplitRuns
  <1>9. CASE PageTake
      BY <1>9, PageTakeRuns
  <1>10. CASE PageFresh
      BY <1>10, PageFreshRuns
  <1>11. CASE PageDone
      BY <1>11, PageDoneRuns
  <1>12. CASE PageJoin
      BY <1>12, PageJoinRuns
  <1>13. CASE PageInsert
      BY <1>13, PageInsertRuns
  <1>14. CASE PageMergeNext
      BY <1>14, PageMergeNextRuns
  <1>15. CASE PageMergePrev
      BY <1>15, PageMergePrevRuns
  <1>16. CASE PageFreed
      BY <1>16, PageFreedRuns
  <1>17. CASE PageCreated
      BY <1>17, CreateReturns
  <1>18. CASE PageSplitOff
      BY <1>18, PageSplitOffRuns
  <1>19. CASE CallKmalloc
      BY <1>19, CallKmallocRuns
  <1>20. CASE CallKfree
      BY <1>20, CallKfreeRuns
  <1>21. CASE CallPageAlloc
      BY <1>21, CallPageAllocRuns
  <1>22. CASE CallPageFree
      BY <1>22, CallPageFreeRuns
  <1>23. CASE CallPageCreate
      BY <1>23, CallPageCreateRuns
  <1>24. CASE CallPageSplit
      BY <1>24, CallPageSplitRuns
  <1>25. CASE InstallOther
      BY <1>25, InstallOtherRuns
  <1> QED
      BY <1>1, <1>2, <1>3, <1>4, <1>5, <1>6, <1>7, <1>8, <1>9, <1>10, <1>11, <1>12, <1>13, <1>14,
         <1>15, <1>16, <1>17, <1>18, <1>19, <1>20, <1>21, <1>22, <1>23, <1>24, <1>25 DEF Next

LEMMA ListsInOrderHolds ==
    ASSUME KMemInv, RunsInv
    PROVE  ListsInOrder
  <1>1. ListInOrder
      BY ListInOrderHolds
  <1>2. ASSUME NoRunEmpty, Idle, NEW i \in 1..Len(page_free) - 1
        PROVE  page_free[i].base + page_free[i].count < page_free[i + 1].base
    <2>1. Ordered(page_free, {})
      <3>1. Loose(<<>>) = {}
          BY RunsBegun
      <3> QED
          BY <1>2, <3>1 DEF Idle, RunsInv
    <2>2. page_free \in Seq(Run)
        BY DEF KMemInv, PagesOK
    <2>3. i + 1 \in 1..Len(page_free)
        BY <2>2
    <2>4. page_free[i + 1].count \in Int /\ page_free[i + 1].count > 0
      <3>1. page_free[i + 1] \in Run
          BY <2>2, <2>3, Elements
      <3> QED
          BY <1>2, <2>3, <3>1, RunTypes DEF NoRunEmpty
    <2>5. page_free[i].base + page_free[i].count < page_free[i + 1].base \/ page_free[i + 1].count <= 0
        BY <2>1 DEF Ordered
    <2> QED
        BY <2>4, <2>5
  <1>3. NoRunEmpty => PagesInOrder
      BY <1>2 DEF PagesInOrder
  <1> QED
      BY <1>1, <1>3 DEF ListsInOrder

-----------------------------------------------------------------------------
(* What follows for the lists                                              *)

\* No page is in two runs that are not empty: free, held by callers, or in the hands of a
\* call that has still to give it back or away.
RunsApart == halted = "no" => Separate(Runs(page_free, held, stack))

\* For every size of header, struct and page, every memory table and every series of
\* calls: kmalloc never gives memory away that somebody has, and the list of free blocks
\* never describes it (kmem.cpp, kmalloc, kfree and _merge_free).
THEOREM HeapDisjoint == Spec => []NoOverlap
  <1>1. KMemInv => NoOverlap
      BY NoOverlapHolds
  <1> QED
      BY <1>1, KMemInvariant, PTL

\* The structs of the free list and the spare ones are allocated, all different, and in
\* no caller's hands, also while kfree and page::alloc call kmalloc for one.
THEOREM StructsNotShared == Spec => []StructsOwned
  <1>1. KMemInv => StructsOwned
      BY StructsOwnedHolds
  <1> QED
      BY <1>1, KMemInvariant, PTL

\* What _verify checks, after every step and not only when it is called: the free list is
\* sorted and merged, each block is larger than a header, and free_end is its last.
THEOREM FreeListSorted == Spec => []ListInOrder
  <1>1. KMemInv => ListInOrder
      BY ListInOrderHolds
  <1> QED
      BY <1>1, KMemInvariant, PTL

\* For every memory table whose usable regions are apart, every series of calls and every
\* nesting of them: when no call is in progress the list of free blocks is sorted and merged,
\* and so is the list of free runs of pages unless an empty run is in it (kmem.cpp:75,
\* page.cpp:229).
THEOREM BothListsSorted ==
    ASSUME RegionsApart
    PROVE  Spec => []ListsInOrder
  <1>1. Init => RunsInv
      BY InitRuns
  <1>2. KMemInv /\ UsedInv /\ RunsInv /\ [Next]_vars => RunsInv'
      BY NextRuns, StutterRuns
  <1>3. KMemInv /\ RunsInv => ListsInOrder
      BY ListsInOrderHolds
  <1> QED
      BY <1>1, <1>2, <1>3, KMemInvariant, PTL DEF Spec

\* For every such memory table: page::alloc never gives a page away that is free, or that
\* another caller holds, as long as the allocator has not stopped for good (page.cpp:160).
THEOREM PagesGivenOnce ==
    ASSUME RegionsApart
    PROVE  Spec => []RunsApart
  <1>1. Init => RunsInv
      BY InitRuns
  <1>2. KMemInv /\ UsedInv /\ RunsInv /\ [Next]_vars => RunsInv'
      BY NextRuns, StutterRuns
  <1>3. RunsInv => RunsApart
      BY DEF RunsInv, RunsApart
  <1> QED
      BY <1>1, <1>2, <1>3, KMemInvariant, PTL DEF Spec

=============================================================================
