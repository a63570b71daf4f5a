-------------------------------- MODULE KMem --------------------------------
(***************************************************************************)
(* The kernel heap (src/mem/kmem.cpp) and the physical page allocator it   *)
(* grows with (src/mem/page.cpp).  The two call each other: kmalloc grows  *)
(* the heap with page::alloc, which kmallocs the struct Page that          *)
(* describes the pages; kfree kmallocs the struct that describes the free  *)
(* block; page::free kfrees the struct of pages it merges.                 *)
(*                                                                         *)
(* Everything happens under kmem::mutex with interrupts off, so one call   *)
(* runs at a time; its nested calls are kept on an explicit stack.  Sizes  *)
(* and addresses are in words, a heap block includes its header, and a     *)
(* struct is named by the address of the block that holds it.              *)
(***************************************************************************)
EXTENDS Integers, Sequences, FiniteSets, SequencesExt, FiniteSetsExt

CONSTANTS
    Header,       \* sizeof(kmem_header_t)
    PageStruct,   \* sizeof(page::Page), also the smallest allocation
    FreeStruct,   \* sizeof(kmem_free_t)
    PageWords,    \* PAGE_SIZE
    MinimumPages, \* _MINIMUM_PAGES
    Regions,      \* multiboot::mem_table: records of base, length (in pages) and usable
    Sizes,        \* the sizes callers kmalloc
    Counts,       \* the page counts callers page::alloc
    MaxCalls,     \* bound: calls from outside in a behaviour
    MaxCreates,   \* bound: calls of page::create and Page::split among them
    MaxInstalls,  \* bound: pages others map at the end of kernel space
    MaxDepth,     \* nested calls that overflow the kernel stack
    None          \* the null pointer

ASSUME SizesAssumption ==
    /\ {Header, PageStruct, FreeStruct, PageWords, MinimumPages} \subseteq Nat \ {0}
    /\ FreeStruct <= PageStruct
    /\ 4 * Header + 3 * PageStruct < PageWords
    /\ Sizes \subseteq Nat \ {0} /\ Counts \subseteq Nat \ {0}
    /\ Regions \in Seq([base : Nat, length : Nat, usable : BOOLEAN])
    /\ Regions # <<>> /\ Regions[1].length > 1
    /\ None \notin Nat

VARIABLES
    free,          \* the list of free blocks: records of struct, base and size
    free_end,      \* the struct of the last free block, or None
    spare,         \* free_free_structs, a stack of structs
    memory_used, memory_total,
    blocks,        \* allocated blocks: function from base to size
    uncounted,     \* blocks that memory_used leaves out
    user,          \* the blocks callers hold
    page_free,     \* page_free_head: list of records of struct, base and count
    held,          \* the page runs callers hold, each a chain of records
    used_start,    \* list of the runs that grew the heap, the newest first
    alloc_pointer, \* allocation_pointer, in pages
    current_map,   \* the region it is in
    vend,          \* virtual_pointer = map.memory_end
    stack,         \* calls in progress, innermost first
    ret,           \* what the call that has just returned gives its caller
    calls,         \* calls from outside so far
    creates,       \* calls of page::create and Page::split among them
    halted         \* "no", or why no call ever returns again

heapVars == <<free, free_end, spare, memory_used, blocks>>
pageVars == <<page_free, alloc_pointer, current_map>>
vars == <<heapVars, memory_total, uncounted, user, pageVars, held, used_start,
          vend, stack, ret, calls, creates, halted>>

\* kmem::init: the first page holds the struct Page of itself and the struct of the
\* one free block, which takes the rest.
Init ==
    LET page == Header + PageStruct
        used == page + Header + FreeStruct
    IN
    /\ free = <<[at |-> page, base |-> used, size |-> PageWords - used]>>
    /\ free_end = page
    /\ spare = <<>>
    /\ memory_used = used
    /\ memory_total = PageWords
    /\ blocks = [b \in {0, page} |-> IF b = 0 THEN page ELSE used - page]
    /\ uncounted = {}
    /\ user = {}
    /\ page_free = <<>>
    /\ held = {}
    /\ used_start = <<>>
    /\ alloc_pointer = Regions[1].base + 1
    /\ current_map = 1
    /\ vend = PageWords
    /\ stack = <<>>
    /\ ret = None
    /\ calls = 0
    /\ creates = 0
    /\ halted = "no"

-----------------------------------------------------------------------------
(* The call stack                                                          *)

Idle == stack = <<>> /\ halted = "no"

\* The innermost call executes function fn and stands at step `step` of it.
At(fn, step) ==
    /\ halted = "no"
    /\ stack # <<>>
    /\ Head(stack).fn = fn
    /\ Head(stack).step = step

Top == Head(stack)

Malloc(size, reserved) ==
    [fn |-> "kmalloc", step |-> "try",
     size |-> IF size < PageStruct THEN PageStruct ELSE size,
     reserved |-> reserved, prev |-> None]

PageAlloc(count, reserved, nolock) ==
    [fn |-> "page_alloc", step |-> "start", count |-> count,
     reserved |-> reserved, nolock |-> nolock, page |-> <<>>]

Free(base) == [fn |-> "kfree", step |-> "start", base |-> base]

PageFree(chain) ==
    [fn |-> "page_free", step |-> "insert", chain |-> chain, prev |-> None]

\* Call f from the innermost call, which goes on at step `next`.
Call(f, next) ==
    /\ stack' = <<f, [Top EXCEPT !.step = next]>> \o Tail(stack)
    /\ UNCHANGED ret

Goto(next) ==
    /\ stack' = <<[Top EXCEPT !.step = next]>> \o Tail(stack)
    /\ UNCHANGED ret

\* The outermost call returns v to its caller outside.
Deliver(v) ==
    CASE Top.fn = "kmalloc"    -> user' = user \cup {v} /\ UNCHANGED held
      [] Top.fn = "page_alloc" -> held' = held \cup {v} /\ UNCHANGED user
      [] OTHER                 -> UNCHANGED <<user, held>>

Return(v) ==
    /\ stack' = Tail(stack)
    /\ IF Len(stack) = 1
         THEN Deliver(v) /\ ret' = None
         ELSE ret' = v /\ UNCHANGED <<user, held>>

\* The call spins on kmem::mutex, which this CPU holds already, or dies.
Halt(why) ==
    /\ halted' = why
    /\ UNCHANGED <<heapVars, memory_total, uncounted, user, pageVars, held,
                   used_start, vend, stack, ret, calls, creates>>

-----------------------------------------------------------------------------
(* kmalloc                                                                 *)

Needed(f) == f.size + Header

\* The reserve: ordinary calls leave MinimumPages pages alone.
ReserveLate(f) ==    \* mutant of OverLimit
    /\ ~f.reserved
    /\ \/ memory_used > memory_total
       \/ memory_total < MinimumPages * PageWords
OverLimit(f) ==
    /\ ~f.reserved
    /\ \/ memory_used + Needed(f) > memory_total - MinimumPages * PageWords
       \/ memory_total < MinimumPages * PageWords

Fits(f) == {i \in 1..Len(free) : Needed(f) <= free[i].size}

Satisfiable(f) == ~OverLimit(f) /\ Fits(f) # {}

\* What is left of a block would not even hold a header.
TakeWhole(need, size) == need + Header >= size

\* The size of the block when all of a free one is used.
WholeSizeAsked(need, size) == need    \* mutant of WholeSize
WholeSize(need, size) == size

\* The allocated blocks with one more.
WithBlock(base, size) ==
    [b \in DOMAIN blocks \cup {base} |-> IF b = base THEN size ELSE blocks[b]]

\* First fit, from the start of the list.
AllocateWhole ==
    LET f == Top
        i == Min(Fits(f))
        b == free[i]
    IN
    /\ At("kmalloc", "try")
    /\ Satisfiable(f)
    /\ TakeWhole(Needed(f), b.size)
    /\ free' = RemoveAt(free, i)
    /\ free_end' = IF b.at # free_end THEN free_end
                   ELSE IF i = 1 THEN None ELSE free[i - 1].at
    /\ spare' = <<b.at>> \o spare
    /\ blocks' = WithBlock(b.base, WholeSize(Needed(f), b.size))
    /\ memory_used' = memory_used + WholeSize(Needed(f), b.size)
    /\ Return(b.base)
    /\ UNCHANGED <<memory_total, uncounted, pageVars, used_start, vend, calls, creates,
                   halted>>

\* A free block without its first n words.
ShrinkKeepsBase(b, n) == [b EXCEPT !.size = @ - n]    \* mutant of Shrink
Shrink(b, n) == [b EXCEPT !.base = @ + n, !.size = @ - n]

AllocateShrink ==
    LET f == Top
        i == Min(Fits(f))
        b == free[i]
        n == Needed(f)
    IN
    /\ At("kmalloc", "try")
    /\ Satisfiable(f)
    /\ ~TakeWhole(n, b.size)
    /\ free' = [free EXCEPT ![i] = Shrink(b, n)]
    /\ blocks' = WithBlock(b.base, n)
    /\ memory_used' = memory_used + n
    /\ Return(b.base)
    /\ UNCHANGED <<free_end, spare, memory_total, uncounted, pageVars,
                   used_start, vend, calls, creates, halted>>

\* Nothing fits: `prev` is the last block the search has passed, none when the
\* reserve stopped the search before it began.
LastPassed(f) == IF OverLimit(f) \/ free = <<>> THEN None ELSE Last(free)

PagesNeeded(f) ==
    LET want == Needed(f) + PageStruct + FreeStruct
        p == LastPassed(f)
    IN  MinimumPages +
        (IF p # None /\ p.base + p.size = vend THEN want - p.size ELSE want)
            \div PageWords

Grow ==
    /\ At("kmalloc", "try")
    /\ ~Satisfiable(Top)
    /\ Len(stack) < MaxDepth
    /\ stack' = <<PageAlloc(PagesNeeded(Top), TRUE, TRUE),
                  [Top EXCEPT !.step = "grown", !.prev = LastPassed(Top)]>>
                \o Tail(stack)
    /\ UNCHANGED <<heapVars, memory_total, uncounted, user, pageVars, held,
                   used_start, vend, ret, calls, creates, halted>>

\* A reserved kmalloc that has to grow the heap calls itself for a struct Page,
\* which does not fit either: the recursion ends with the kernel stack.
GrowForever ==
    /\ At("kmalloc", "try")
    /\ ~Satisfiable(Top)
    /\ Len(stack) >= MaxDepth
    /\ Halt("overflow")

IndexOf(struct) == CHOOSE i \in 1..Len(free) : free[i].at = struct

InList(struct) == \E i \in 1..Len(free) : free[i].at = struct

\* What `prev` points to now; the struct of a block that is no longer in the list
\* keeps the values it had.
PrevNow(f) ==
    IF f.prev # None /\ InList(f.prev.at) THEN free[IndexOf(f.prev.at)] ELSE f.prev

\* The new pages touch the block `prev`: it gets larger.
ExtendLast(f, n) ==
    /\ free' = IF InList(f.prev.at)
                 THEN [free EXCEPT ![IndexOf(f.prev.at)].size = @ + n]
                 ELSE free
    /\ UNCHANGED <<free_end, spare, memory_used, blocks, uncounted>>

\* They do not: they begin with the struct of a new free block, which takes the
\* rest and goes behind free_end.
AppendBlock(n) ==
    LET h == Header + FreeStruct
        b == [at |-> vend, base |-> vend + h, size |-> n - h]
    IN
    /\ free' = IF free_end = None THEN <<b>>
               ELSE Append(SubSeq(free, 1, IndexOf(free_end)), b)
    /\ free_end' = vend
    /\ blocks' = WithBlock(vend, h)
    /\ uncounted' = uncounted \cup {vend}
    /\ UNCHANGED <<spare, memory_used>>

\* kinstall_append, the new free memory and page::used; then kmalloc starts over.
\* kinstall_append of the second part of a chain takes the mutex.
Install ==
    LET f == Top
        p == PrevNow(f)
        n == ret[1].count * PageWords
    IN
    /\ At("kmalloc", "grown")
    /\ Len(ret) = 1
    /\ IF p # None /\ p.base + p.size = vend THEN ExtendLast(f, n) ELSE AppendBlock(n)
    /\ memory_total' = memory_total + n
    /\ vend' = vend + n
    /\ used_start' = <<ret[1]>> \o used_start
    /\ stack' = <<[f EXCEPT !.step = "try", !.prev = None]>> \o Tail(stack)
    /\ ret' = None
    /\ UNCHANGED <<user, pageVars, held, calls, creates, halted>>

InstallChain ==
    /\ At("kmalloc", "grown")
    /\ Len(ret) > 1
    /\ Halt("deadlock")

-----------------------------------------------------------------------------
(* kfree                                                                   *)

\* _merge_free(first), for the list l, its end e and the spare structs s.
MergeFree(h, i) ==
    LET l == h.free
    IN  IF i \in 1..Len(l) - 1 /\ l[i].base + l[i].size = l[i + 1].base
          THEN [free  |-> RemoveAt([l EXCEPT ![i].size = @ + l[i + 1].size], i + 1),
                spare |-> <<l[i + 1].at>> \o h.spare,
                end   |-> IF i + 1 = Len(l) THEN l[i].at ELSE h.end]
          ELSE h

\* memory_used without a block.
Uncharge(base) == memory_used - blocks[base]

\* Insert the block in address order and merge it with its neighbours.
InsertFree(base, struct, spares) ==
    LET k == Min({i \in 1..Len(free) : free[i].base >= base} \cup {Len(free) + 1})
        b == [at |-> struct, base |-> base, size |-> blocks[base]]
        h == [free |-> InsertAt(free, k, b), spare |-> spares,
              end |-> IF k > Len(free) THEN struct ELSE free_end]
        m == MergeFree(MergeFree(h, k), k - 1)
    IN
    /\ free' = m.free
    /\ spare' = m.spare
    /\ free_end' = m.end
    /\ memory_used' = Uncharge(base)
    /\ blocks' = [x \in DOMAIN blocks \ {base} |-> blocks[x]]
    /\ Return(None)
    /\ UNCHANGED <<memory_total, uncounted, pageVars, used_start, vend, calls, creates,
                   halted>>

FreeKeepsSpare ==    \* mutant of FreeWithSpare
    /\ At("kfree", "start")
    /\ spare # <<>>
    /\ InsertFree(Top.base, Head(spare), spare)

\* _get_struct finds a struct to reuse.
FreeWithSpare ==
    /\ At("kfree", "start")
    /\ spare # <<>>
    /\ InsertFree(Top.base, Head(spare), Tail(spare))

\* _get_struct kmallocs one.
FreeGetStruct ==
    /\ At("kfree", "start")
    /\ spare = <<>>
    /\ Call(Malloc(FreeStruct, TRUE), "got")
    /\ UNCHANGED <<heapVars, memory_total, uncounted, user, pageVars, held,
                   used_start, vend, calls, creates, halted>>

FreeWithNew ==
    /\ At("kfree", "got")
    /\ InsertFree(Top.base, ret, spare)

-----------------------------------------------------------------------------
(* page::alloc                                                             *)

\* The first run of free pages is larger than needed: kmalloc a struct for the
\* part that is split off.
PageSplitCall ==
    /\ At("page_alloc", "start")
    /\ page_free # <<>>
    /\ page_free[1].count > Top.count
    /\ Call(Malloc(PageStruct, Top.reserved), "split")
    /\ UNCHANGED <<heapVars, memory_total, uncounted, user, pageVars, held,
                   used_start, vend, calls, creates, halted>>

\* consecutive is unsigned; Wrap stands for 2^32.
Wrap == 65536

\* The split uses page_free_head as it is after the kmalloc.  What becomes of a head
\* that was too short and now claims nearly all of memory is not modelled.
PageSplit ==
    LET head == page_free[1]
    IN
    /\ At("page_alloc", "split")
    /\ page_free # <<>>
    /\ page_free' = [page_free EXCEPT ![1].base = @ + Top.count,
                                      ![1].count = (@ - Top.count) % Wrap]
    /\ halted' = IF head.count < Top.count THEN "corrupt" ELSE halted
    /\ stack' = <<[Top EXCEPT !.step = "chain",
                    !.page = <<[at |-> ret, base |-> head.base,
                                count |-> Top.count]>>]>> \o Tail(stack)
    /\ ret' = None
    /\ UNCHANGED <<heapVars, memory_total, uncounted, user, alloc_pointer, current_map,
                   held, used_start, vend, calls, creates>>

\* page_free_head->mem_base through a null pointer.
PageSplitNull ==
    /\ At("page_alloc", "split")
    /\ page_free = <<>>
    /\ Halt("fault")

\* The first run is taken as it is, even when it is too short.
PageTake ==
    /\ At("page_alloc", "start")
    /\ page_free # <<>>
    /\ page_free[1].count <= Top.count
    /\ page_free' = Tail(page_free)
    /\ stack' = <<[Top EXCEPT !.step = "chain", !.page = <<page_free[1]>>]>>
                \o Tail(stack)
    /\ UNCHANGED <<heapVars, memory_total, uncounted, user, alloc_pointer, current_map,
                   held, used_start, vend, ret, calls, creates, halted>>

PageFreshCall ==
    /\ At("page_alloc", "start")
    /\ page_free = <<>>
    /\ Call(Malloc(PageStruct, Top.reserved), "fresh")
    /\ UNCHANGED <<heapVars, memory_total, uncounted, user, pageVars, held,
                   used_start, vend, calls, creates, halted>>

RegionEnd == Regions[current_map].base + Regions[current_map].length

\* alloc_nokmalloc: memory that was never used, as much as the region still has.
FreshCount(n) == IF alloc_pointer + n >= RegionEnd THEN RegionEnd - alloc_pointer ELSE n

\* The usable regions behind this one.  The loop of the code goes on behind the table: its
\* end is computed from sizeof(mem_table), which counts bytes and not entries.
RegionsLeft == {i \in current_map + 1..Len(Regions) : Regions[i].usable}

\* A region that is used up is left for the next one.
PageFresh ==
    LET n == FreshCount(Top.count)
        skip == alloc_pointer + n = RegionEnd
    IN
    /\ At("page_alloc", "fresh")
    /\ skip => RegionsLeft # {}
    /\ current_map' = IF skip THEN Min(RegionsLeft) ELSE current_map
    /\ alloc_pointer' = IF skip THEN Regions[current_map'].base ELSE alloc_pointer + n
    /\ stack' = <<[Top EXCEPT !.step = "chain",
                    !.page = <<[at |-> ret, base |-> alloc_pointer, count |-> n]>>]>>
                \o Tail(stack)
    /\ ret' = None
    /\ UNCHANGED <<heapVars, memory_total, uncounted, user, page_free, held,
                   used_start, vend, calls, creates, halted>>

\* No region is left.  What lies behind the table is taken for one, if it looks like it
\* ("beyond"; the pages it stands for are not modelled), or the loop comes to the end it
\* believes in and the kernel panics.
PageExhausted ==
    /\ At("page_alloc", "fresh")
    /\ alloc_pointer + Top.count >= RegionEnd
    /\ RegionsLeft = {}
    /\ \E why \in {"panic", "beyond"} : Halt(why)

PageDone ==
    /\ At("page_alloc", "chain")
    /\ Top.page[1].count >= Top.count
    /\ Return(Top.page)
    /\ UNCHANGED <<heapVars, memory_total, uncounted, pageVars, used_start,
                   vend, calls, creates, halted>>

\* Too short: allocate the rest with the same flags, so that without FLAG_NOLOCK the
\* nested call takes the mutex again.
PageRest ==
    /\ At("page_alloc", "chain")
    /\ Top.page[1].count < Top.count
    /\ Top.nolock
    /\ Call(PageAlloc(Top.count - Top.page[1].count, Top.reserved, TRUE), "joined")
    /\ UNCHANGED <<heapVars, memory_total, uncounted, user, pageVars, held,
                   used_start, vend, calls, creates, halted>>

PageRestRelock ==
    /\ At("page_alloc", "chain")
    /\ Top.page[1].count < Top.count
    /\ ~Top.nolock
    /\ Halt("deadlock")

PageJoin ==
    /\ At("page_alloc", "joined")
    /\ Return(Top.page \o ret)
    /\ UNCHANGED <<heapVars, memory_total, uncounted, pageVars, used_start,
                   vend, calls, creates, halted>>

-----------------------------------------------------------------------------
(* page::free, from the last run of the chain to the first                 *)

PageInsert ==
    LET p == Last(Top.chain)
        k == Min({i \in 1..Len(page_free) : page_free[i].base >= p.base}
                     \cup {Len(page_free) + 1})
    IN
    /\ At("page_free", "insert")
    /\ page_free' = InsertAt(page_free, k, p)
    /\ stack' = <<[Top EXCEPT !.step = "merge",
                    !.prev = IF k = 1 THEN None ELSE page_free[k - 1].at]>>
                \o Tail(stack)
    /\ UNCHANGED <<heapVars, memory_total, uncounted, user, alloc_pointer, current_map,
                   held, used_start, vend, ret, calls, creates, halted>>

\* page::_merge_free on the run described by struct s, going on at step `next`: a
\* run that touches it is swallowed and its struct is kfreed.  The run is in the list of
\* free ones, or in the list of used ones when the kfree before grew the heap with it.
Touching(list, s) ==
    {i \in 1..Len(list) - 1 :
        list[i].at = s /\ list[i].base + list[i].count = list[i + 1].base}
Swallow(list, i) == RemoveAt([list EXCEPT ![i].count = @ + list[i + 1].count], i + 1)

MergePagesNever(s, next) ==    \* mutant of MergePages
    Goto(next) /\ UNCHANGED <<page_free, used_start>>
MergePages(s, next) ==
    \/ /\ Touching(page_free, s) = {} /\ Touching(used_start, s) = {}
       /\ Goto(next)
       /\ UNCHANGED <<page_free, used_start>>
    \/ \E i \in Touching(page_free, s) :
          /\ page_free' = Swallow(page_free, i)
          /\ Call(Free(page_free[i + 1].at), next)
          /\ UNCHANGED used_start
    \/ \E i \in Touching(used_start, s) :
          /\ used_start' = Swallow(used_start, i)
          /\ Call(Free(used_start[i + 1].at), next)
          /\ UNCHANGED page_free

PageMergeNext ==
    /\ At("page_free", "merge")
    /\ MergePages(Last(Top.chain).at, "merge_prev")
    /\ UNCHANGED <<heapVars, memory_total, uncounted, user, alloc_pointer, current_map,
                   held, vend, calls, creates, halted>>

PageMergePrev ==
    /\ At("page_free", "merge_prev")
    /\ MergePages(Top.prev, "freed")
    /\ UNCHANGED <<heapVars, memory_total, uncounted, user, alloc_pointer, current_map,
                   held, vend, calls, creates, halted>>

PageFreed ==
    LET chain == Front(Top.chain) IN
    /\ At("page_free", "freed")
    /\ stack' = IF chain = <<>> THEN Tail(stack)
                ELSE <<PageFree(chain)>> \o Tail(stack)
    /\ ret' = None
    /\ UNCHANGED <<heapVars, memory_total, uncounted, user, pageVars, held,
                   used_start, vend, calls, creates, halted>>

-----------------------------------------------------------------------------
(* page::create and Page::split, which kmalloc from the reserve            *)

\* The struct describes memory of a device and stays allocated.
PageCreated ==
    /\ At("page_create", "made")
    /\ Return(None)
    /\ UNCHANGED <<heapVars, memory_total, uncounted, pageVars, used_start,
                   vend, calls, creates, halted>>

\* The new struct takes what lies behind the first `count` pages of the run.
PageSplitOff ==
    LET run == Top.page[1]
        n == Top.count
    IN
    /\ At("page_split", "made")
    /\ held' = held \cup {<<[run EXCEPT !.count = n]>>,
                          <<[at |-> ret, base |-> run.base + n, count |-> run.count - n]>>}
    /\ stack' = Tail(stack)
    /\ ret' = None
    /\ UNCHANGED <<heapVars, memory_total, uncounted, user, pageVars, used_start,
                   vend, calls, creates, halted>>

-----------------------------------------------------------------------------
(* Calls from outside                                                      *)

\* A call can begin: nobody is inside, and the bound leaves room.
Begin == Idle /\ calls < MaxCalls /\ calls' = calls + 1 /\ UNCHANGED creates

BeginCreate ==
    /\ Idle /\ calls < MaxCalls /\ creates < MaxCreates
    /\ calls' = calls + 1 /\ creates' = creates + 1

CallKmalloc ==
    \E size \in Sizes :
        /\ Begin
        /\ stack' = <<Malloc(size, FALSE)>>
        /\ UNCHANGED <<heapVars, memory_total, uncounted, user, pageVars, held,
                       used_start, vend, ret, halted>>

CallKfree ==
    \E base \in user :
        /\ Begin
        /\ stack' = <<Free(base)>>
        /\ user' = user \ {base}
        /\ UNCHANGED <<heapVars, memory_total, uncounted, pageVars, held,
                       used_start, vend, ret, halted>>

CallPageAlloc ==
    \E count \in Counts :
        /\ Begin
        /\ stack' = <<PageAlloc(count, FALSE, FALSE)>>
        /\ UNCHANGED <<heapVars, memory_total, uncounted, user, pageVars, held,
                       used_start, vend, ret, halted>>

CallPageFree ==
    \E page \in held :
        /\ Begin
        /\ stack' = <<PageFree(page)>>
        /\ held' = held \ {page}
        /\ UNCHANGED <<heapVars, memory_total, uncounted, user, pageVars,
                       used_start, vend, ret, halted>>

CallPageCreate ==
    /\ BeginCreate
    /\ stack' = <<Malloc(PageStruct, TRUE), [fn |-> "page_create", step |-> "made"]>>
    /\ UNCHANGED <<heapVars, memory_total, uncounted, user, pageVars, held,
                   used_start, vend, ret, halted>>

\* A caller holds one run: alloc never returns a longer chain to it.  Nothing calls
\* split at this commit (object.cpp:65 and 136 are comments); both parts of it are some
\* pages.
CallPageSplit ==
    \E page \in held : \E n \in 1..page[1].count - 1 :
        /\ BeginCreate
        /\ stack' = <<Malloc(PageStruct, TRUE),
                      [fn |-> "page_split", step |-> "made", page |-> page, count |-> n]>>
        /\ held' = held \ {page}
        /\ UNCHANGED <<heapVars, memory_total, uncounted, user, pageVars,
                       used_start, vend, ret, halted>>

\* Somebody maps a page of its own behind the heap with kinstall_append, so that the
\* heap does not go on where it ended.
InstallOther ==
    /\ Begin
    /\ vend - memory_total < MaxInstalls * PageWords
    /\ vend' = vend + PageWords
    /\ UNCHANGED <<heapVars, memory_total, uncounted, user, pageVars, held,
                   used_start, stack, ret, halted>>

Next ==
    \/ AllocateWhole \/ AllocateShrink \/ Grow \/ GrowForever
    \/ Install \/ InstallChain
    \/ FreeWithSpare \/ FreeGetStruct \/ FreeWithNew
    \/ PageSplitCall \/ PageSplit \/ PageSplitNull \/ PageTake \/ PageFreshCall
    \/ PageFresh \/ PageExhausted \/ PageDone \/ PageRest \/ PageRestRelock
    \/ PageJoin
    \/ PageInsert \/ PageMergeNext \/ PageMergePrev \/ PageFreed
    \/ PageCreated \/ PageSplitOff
    \/ CallKmalloc \/ CallKfree \/ CallPageAlloc \/ CallPageFree
    \/ CallPageCreate \/ CallPageSplit \/ InstallOther

Spec == Init /\ [][Next]_vars

-----------------------------------------------------------------------------
(* Properties                                                              *)

Entries == {free[i] : i \in 1..Len(free)}

\* Every variable has its type.
TypeOK ==
    /\ Entries \subseteq [at : Nat, base : Nat, size : Nat]
    /\ free_end \in Nat \cup {None}
    /\ spare \in Seq(Nat)
    /\ memory_used \in Nat /\ memory_total \in Nat
    /\ DOMAIN blocks \subseteq Nat
    /\ user \subseteq DOMAIN blocks /\ uncounted \subseteq DOMAIN blocks
    /\ halted \in {"no", "deadlock", "fault", "panic", "overflow", "corrupt", "beyond"}

\* No word is in two blocks, allocated or free: kmalloc never hands out memory
\* that somebody has, and the free list never describes it.
NoOverlap ==
    LET allocated == {<<b, b + blocks[b]>> : b \in DOMAIN blocks}
        available == {<<e.base, e.base + e.size>> : e \in Entries}
        all == allocated \cup available
    IN
    /\ allocated \cap available = {}
    /\ Cardinality(available) = Len(free)
    /\ \A x, y \in all : x # y => x[2] <= y[1] \/ y[2] <= x[1]

\* memory_used counts every allocated block but the structs at the start of the
\* pages that grew the heap.
UsedIsAllocated ==
    memory_used = MapThenSumSet(LAMBDA b : blocks[b], DOMAIN blocks \ uncounted)

\* No word of the heap is lost: what is not allocated is in the free list, and the
\* counter that decides about growth follows.
NothingLost ==
    /\ MapThenSumSet(LAMBDA b : blocks[b], DOMAIN blocks)
         + MapThenSumSet(LAMBDA e : e.size, Entries) = memory_total
    /\ UsedIsAllocated

\* The checks of _verify, and more: the list is in address order without
\* neighbours that touch, no block is too small for a header, and free_end is its
\* last entry.
ListInOrder ==
    /\ \A i \in 1..Len(free) - 1 : free[i].base + free[i].size < free[i + 1].base
    /\ \A e \in Entries : e.size > Header
    /\ free_end = IF free = <<>> THEN None ELSE Last(free).at

\* The structs of the list and the spare ones are different allocated blocks that
\* no caller has.
StructsOwned ==
    LET structs == [i \in 1..Len(free) |-> free[i].at] \o spare IN
    /\ IsInjective(structs)
    /\ \A i \in 1..Len(structs) : structs[i] \in DOMAIN blocks \ user

\* The reserve works: once the heap has its reserve a struct Page can be had
\* without growing the heap ("prevents growth of the memory pool").
ReserveServes ==
    Idle /\ memory_total > MinimumPages * PageWords =>
        \E e \in Entries : e.size >= PageStruct + Header

\* The heap grows when it must and only then: with its reserve it never recurses to
\* find a struct Page (kmem.cpp:235, "prevents growth of the memory pool").
ReserveHolds == ReserveServes /\ halted # "overflow"

\* Runs of free pages do not overlap, as _verify asks ("Free page list corruption,
\* Overlapping pages", page.cpp:49).
PagesDisjoint ==
    \A i, j \in 1..Len(page_free) :
        i < j /\ page_free[i].count > 0 /\ page_free[j].count > 0 =>
            page_free[i].base + page_free[i].count <= page_free[j].base

\* A memory table whose usable regions do not overlap: the table comes from the boot
\* loader, and the page allocator does not look whether they do.
InUse(i) == Regions[i].usable \/ i = 1
Area(i) == [base |-> Regions[i].base, count |-> Regions[i].length]
Beside(r, q) == r.base + r.count <= q.base \/ q.base + q.count <= r.base
RegionsApart ==
    \A i, j \in 1..Len(Regions) :
        i # j /\ InUse(i) /\ InUse(j) /\ Area(i).count > 0 /\ Area(j).count > 0 =>
            Beside(Area(i), Area(j))

\* page::alloc may split all of a run off, when its kmalloc has taken the rest of it in
\* the meantime (page.cpp:191): an empty run stays in the list.
NoRunEmpty == \A i \in 1..Len(page_free) : page_free[i].count > 0

\* page::free coalesces the runs it gives back.
PagesInOrder ==
    Idle => \A i \in 1..Len(page_free) - 1 :
        page_free[i].base + page_free[i].count < page_free[i + 1].base

\* Both lists of free memory stay sorted and merged (kmem.cpp:75, page.cpp:229), the
\* list of pages as long as no empty run is in it.
ListsInOrder == ListInOrder /\ (NoRunEmpty => PagesInOrder)

\* The heap grows when it is full: no call waits for the mutex its own CPU holds.
GrowthReturns == halted # "deadlock"

\* page::alloc does not follow page_free_head after it has become null.
NoFault == halted # "fault"

\* The search for memory ends with the memory table (page.cpp:145-148).
TableEnds == halted # "beyond"
=============================================================================
