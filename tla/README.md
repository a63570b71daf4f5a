# Cantos in TLA+

Cantos is a small x86 kernel in C++: a preemptive multi-processor scheduler, a
heap that grows on top of a physical page allocator, virtual memory maps filled by
page faults, drivers, containers, and a file system in its beginnings. This directory
holds TLA+ models of its parts, TLC runs on small instances of them, and TLAPS proofs
about the scheduler, heap, memory objects, commands between CPUs, boot and the cyclic
buffer. `PROJECT.json` lists the components, the
source lines behind every definition, the runs, mutants, findings, hazards and theorems.

## Inventory

| Part | State | Operations | What makes it correct | Hard because of |
|---|---|---|---|---|
| Scheduler, `task.cpp` | `waiting_threads`, per thread `in_use`, `wchan`, `ended`; per CPU `thread`, stack, CR3 | new_thread, timer yield, task_yield, wait, resume, schedule, task_end | a thread is in one place, none is lost, a queued one runs, no page directory is loaded twice | CPUs interleave, two mutexes, preemption of lock holders |
| Mutex, `mutex.cpp` | a flag | lock, trylock, unlock | lock returns | waits differ with the interrupt flag |
| Heap, `kmem.cpp` | free list, spare structs, `memory_used`, `memory_total` | kmalloc, kfree, growth | no overlap, nothing lost, the reserve suffices | the allocator allocates its own structs, recursively |
| Pages, `page.cpp` | `page_free_head`, `allocation_pointer`, regions | alloc, free, create, split | runs do not overlap | nested kmalloc while a decision is pending |
| Kernel addresses, `page.cpp` | `empty_slot` list, `virtual_pointer` | kinstall, kinstall_append, kuninstall | an address is mapped once | a read before the lock |
| Maps and objects, `vm.cpp`, `object.cpp` | page entries, object lists, page tables | add_object, remove_object, page faults | a present page is the right one, faults end | no lock around generate |
| IPI commands, `lapic.cpp` | command, argument, finished flag of each CPU | send_command, handle_command | TLBs are flushed when a change returns | waiting with interrupts off |
| Boot, `lomain.cpp`, `loacpi.cpp`, `main.cpp`, `lapic.cpp`, `pit.cpp`, `pic.cpp`, `ioapic.cpp`, `idt.cpp` | kernel map, copies of the MADT, IDT entries, interrupt flags, trampoline, calibration stage | search for tables, set-up steps, awaken_others, ap_main, timer, panic | every interrupt finds a handler, timers are calibrated, all CPUs get to schedule(), a panic stops all | interrupts are on early, CPUs start while the first one goes on |
| PS/2, `ps2.cpp`, `ps2keyboard.cpp` | driver and type of each port, `last_input`, prefix state | init by polling, configure, handle | the driver fits the device, init ends, keys decode | timeouts, leftover bytes, interrupt against busy-wait |
| Console, `printk.cpp`, `vga.cpp`, `serial.cpp`, `panic.cpp` | cursor, screen, ports, mutex | printk, put character, scroll, panic | messages whole and in one order; panic halts | handlers print, panic takes no lock |
| File system, `filesystem.cpp`, `expanse_fs.cpp` | path entries, inodes, counts | parse_path, populate, get_inode, destruction | the inode found is the one the names lead to; nothing outlives what it points to | error paths, plain pointers between entries |
| Strings and formats, `utf8.cpp`, `stream.cpp` | bytes, owner, count | construct, copy, own, substr, find, compare, writef, format | bytes kept alive, answers right, digits stand for the number | ends of strings, edges of widths |
| Containers | ring buffer, linked list, vector, reference counts | push, pop, erase, remove, copy, move | behave as a sequence; delete once | wrap-around, change while walking, counts without atomicity |
| The rest: GDT, PCI, AHCI, ELF, stack unwinding, displays, tests | tables and device registers | set up at boot, or print | | sequential, device I/O |

How the parts interact: the timer interrupt calls the scheduler; the scheduler enters
and leaves maps and pushes list nodes, which kmalloc; kmalloc grows with page::alloc,
page::alloc kmallocs; unmapping a page commands other CPUs while kmem::mutex is held; a
page fault generates pages in an object and enters them in every map; interrupt handlers
print while threads print. The locks shared across these paths (`task::_mutex`,
`waiting_mutex`, `kmem::mutex`, `vm::_mutex`, `_command_mutex`, the mutex of printk) are
where most findings lie.

## Modules

Processors and threads:

* `Task` - the scheduler. One action per critical section or step between two that
  another CPU can see. `pc` is where a CPU is in kernel code, `tpc` where the thread on
  it is inside a call, `local` the thread a kernel routine has in hand. The queue is
  written back to front: its head is `waiting_threads.back()`, the next to run. Nothing
  is modelled after a panic or once two CPUs share a stack. `Calls` says what threads
  do besides computing and ending: yield, wait, new, resume.
* `Scheduler` - what `Task` promises: a FIFO queue, threads that run, sleep, are
  created and end, with no locks. `Task` implements it (`ImplementsScheduler`).
* `TaskProofs` - the theorems about `Task`.
* `LowBoot` - operators for what runs before paging: search for the RSDP and MADT,
  copies of its entries, kernel map, first page tables, with the rounding to pages.
  (`Boot!KernelMapped` says what the tables are, `Boot!MappedAsDocumented` what the
  comment of low_kernel_main says they are.)
* `Boot` - extends `LowBoot`: kernel_main step by step, the other CPUs from the
  trampoline to schedule(), local APIC timers and PIT with the calibration, the command
  and panic interrupts. `apic[c].pend` are interrupts that wait for a CPU's flag, `lost`
  the CPUs an interrupt was meant for and did not reach. A panic halts its CPU at any
  stage: before lapic::init the APIC's registers are looked for at low addresses, which
  the first entry of the page directory keeps present and writable. Theorems in `BootProofs`.

Memory:

* `KMem` - heap and page allocator. Both run under kmem::mutex, so one outside call is
  active at a time; its nested calls are on an explicit `stack` of frames. Sizes are in
  words; a block includes its header; a struct is named by the block that holds it.
  `halted` records a call that never returns (second lock of the mutex, null pointer,
  endless recursion, panic, the search for memory behind the end of the memory table, a
  count that wrapped). `KMemProofs` holds its theorems.
* `Slots` - kinstall and kuninstall with the linked list of holes; a kinstall that finds
  no hole unlocks and appends in a step of its own (`KinstallSearched`). A kfreed struct
  keeps its words, as it does in the heap, until it is handed out again. What a search
  meets (`Walk`) is the least set that holds its first slot and is closed under `next`
  up to the slot where it may stop. Theorems in `SlotsProofs`.
* `VmObject` - objects and maps. A map stands for its thread too. A page fault is a
  search, a link and one step for each window the page is entered in, because it runs with
  interrupts on and without locks.
  The windows of a map are a set: no address is in two, so the order of the list does not
  matter. The page list is `head` and `nextOf`; `Entries(o)`, what a walk meets, is the
  least set that holds the head and is closed under `nextOf`. Theorems in `VmProofs`.
* `Shootdown` - commands to other CPUs, whose ids are the indices below `proc_count` as
  the code has it, and the mutexes around them. Map::insert writes its entry with
  interrupts on; `InvlpgBegin` is where it turns them off. The map it switches to is
  offered to one CPU at a time, which is what `Task` establishes. Theorems in
  `ShootdownProofs`.

Devices:

* `Ps2` - the controller, its two ports and the keyboard driver. init polls the
  controller and identifies devices; configure waits for what the interrupt handler
  leaves in `last_input`; `Handle` decodes scan codes. Controller and devices are
  external, modelled from the bytes the driver sends and expects.
* `Console` - printk to screen and serial ports, per CPU a stack of what it is in the
  middle of (thread, handler, panic); one action per character or wait.

Structures:

* `Deque` - a sequence with operations at its ends, erase and clear: what containers
  promise.
* `StaticList` - the cyclic buffer, with a size() that takes no lock.
  `StaticListProofs` proves that it implements `Deque`.
* `List` - the linked list on the heap, remove as a loop of steps. Implements `Deque`.
* `Vector` - buffers that double, copies and moves; a vector that was moved from keeps its
  count, and what it is used for then is modelled too. `Pointers` - shared_ptr with the
  count read and written in two steps, and unique_ptr. Each has a history variable or
  the owners themselves to compare with.
* `Text` - Utf8 with its shared buffer and the conversions of integers. Bytes are
  numbers; an answer is compared with the same question about sequences. `beyond` is the
  answer of a search that leaves the string.
* `Filesystem` - a client's scope: parse, populate, map the contents, leave. `Text`
  models the splitting at slashes; here a path is the sequence of its parts.

For TLC: `MCTask`, `MCTables` (memory tables), `MCKMem` (two uses of the heap), `MCVm`
(extends `VmObject`, `Slots` and `Shootdown`, of which one is in use at a time, as they
share no state), `MCBoot`
(machines), `MCPs2`, `MCConsole`, `MCStructures` (one structure in use at a time).

Definitions followed by the comment "mutant of D" are plausible bugs of D; they are
used nowhere in the specifications, only to see that a property notices them.

## Runs

| Run | Instance | Shows |
|---|---|---|
| `task_safety` | 2 CPUs, 3 threads (2 queued, 1 to be created); yield, wait, new | one place, not lost, no panic, directories exclusive, refinement of `Scheduler` |
| `task_wake` | 2 CPUs, 2 threads; wait, resume; queue of at most 4 | not lost, even with duplicate entries |
| `task_fair` | 2 CPUs, 3 threads that compute | a queued thread runs (fairness) |
| `kmem` | 9 heap calls of sizes 9 and 24 with memory to grow into; 6 calls of every kind on two regions and a hole | no overlap, nothing lost, structs owned, lists sorted and merged, on the paths that halt as well; the reserve serves nested allocations while nobody calls page::create or Page::split, which drain it |
| `vm` | 1 thread, 2 objects, 4 windows; 1 caller of kinstall, 5 pages, 3 structs; 3 CPUs with every operation | present pages are right, windows agree, page lists sorted; addresses accounted for and holes merged; TLBs flushed, commands awaited |
| `boot` | 7 machines: 2 or 3 CPUs, APIC ids with gaps, a disabled CPU, missing tables; a fault before the first thread | handlers ready, kernel directory, calibration, first page tables as asked but for the two pages the code gets wrong; boot completes, a panic stops all |
| `ps2` | 6 pairs of devices, 3 key events, 1 RESEND | drivers fit (MF2 keyboards, mice, empty ports), replies belong to commands, keys decoded, init ends |
| `structures` | capacity 4 with 3 elements; 4 list entries; 2 vectors, 3 buffers; 3 shared and 2 unique pointers; strings up to 3 bytes; numbers at the edges of 8 and 16 bits; 2 volumes, paths up to 4 parts | refinement of `Deque` by both lists; vectors, pointers, strings, searches, conversions, path resolution and lifetimes right |
| `console` | 2 CPUs, screen 2 x 2, 2 messages, a key, a panic | log whole and in one order, panics end |

Runs that TLC refutes, each against a line of the repository quoted in `PROJECT.json`:
`kmem_split` (the kmalloc inside page::alloc takes two pages of a free run of three,
page::alloc then subtracts two from the one that is left, and the wrapped run overlaps the
next one), `shoot_locks` (a CPU waits, with
kmem::mutex, for one that spins for it), `console_key` (the keyboard's handler waits for
the mutex of the thread it interrupted).

### Known deviations

The modules also state properties that are no run of the project and that TLC refutes.
Each is seen by giving the constants of a run other values and checking the property
(`List`, `Vector`, `Text`, `Filesystem`: as an invariant of the module itself, or named
in `MCStructures`):

| Property | From run, with | What the trace shows |
|---|---|---|
| `Task!NeverPanics` | `task_wake` | resume queues a thread that announced its channel and still runs; the scheduler finds it in use |
| `Task!StacksDisjoint` | `task_wake`, `Calls = {"yield"}` | task_yield reads the stack address of its CPU (task.cpp:173), is preempted once interrupts are on, and continues on another CPU: two CPUs on one kernel stack |
| `Task!LoadedDirectoryAlive` | `task_wake`, `Threads = {t1}`, `BootQueue <- Boot1`, `Calls = {}` | task_end_done frees the page directory that CR3 still points at |
| `Task!KernelLockReturns` | `task_fair`, `Threads = {t1, t2}`, `BootQueue <- Boot1`, `Calls = {"new"}` | a thread preempted inside new_thread holds a mutex the scheduler needs to run it again |
| `KMem!GrowthReturns` | `kmem_split`, `Counts = {1, 2}`, `MaxCalls = 8` | the rest of a request is asked for with the caller's flags and locks kmem::mutex twice |
| `KMem!NoFault` | `kmem_split`, `Counts = {1, 2, 3}`, `MaxCalls = 9` | the nested kmalloc empties the free list and page::alloc follows a null head |
| `KMem!ReserveHolds` | `kmem` | page::create and Page::split kmalloc with KMALLOC_RESERVED, which never grows the heap: three of them leave no room for the struct Page a growth needs, and the next kmalloc recurses without end (kmem.hpp:25-33: the reserve "prevents growth of the memory pool"). `ReserveHeld` therefore ends with the first of them |
| `KMem!TableEnds` | `kmem` | the end of the memory table is computed from sizeof(mem_table), bytes taken for entries (page.cpp:145-146): the search goes on behind it |
| `KMem!PagesInOrder` | `kmem_split`, `Counts = {1, 2, 3}`, `MaxCalls = 9` | page::alloc splits all of a run off after its kmalloc took the rest of it (page.cpp:191): an empty run stays, and page::free puts a run in front of it that begins where it does. `ListsInOrder` therefore asks for the order of runs only while none is empty |
| `SpaceAccounted` | `vm`, `Callers = {t1, t2}` | kinstall reads the slot list before the mutex: one address mapped twice |
| `VmObject!SharedSame`, `VmObject!NoDanglingEntry` | `vm`, `Maps = {m1, m2}`, `Objects = {o1}`, `AddrPages = 3`, `TablePages = 3`, `Mappings <- Shared` | two faults on one page give the two maps different frames, one of which is freed while an entry points at it |
| `VmObject!FaultCanResolve` | `vm`, `MaxPages = 3` | removing a window clears entries of another; the fault there does nothing and comes back |
| `VmObject!TablesThere` | `vm`, `Objects = {o1}`, `MaxPages = 3`, `TablePages = 3`, `Mappings <- Apart` | the removal clears through a page table that is not there |
| `Shootdown!LockReturns` | `shoot_locks`, `Ops = {"insert", "switch"}` | Map::invlpg waits, with vm::_mutex, for a CPU that spins for vm::_mutex to leave the map |
| `Shootdown!LockReturns` | `shoot_locks`, `Ops = {"create"}` | page::create is preempted with kmem::mutex, which the scheduler's queue needs |
| `Boot!NoInterruptLost` | `boot` | an interrupt sent to a CPU whose APIC is not enabled yet is not delivered |
| `Boot!MappedAsDocumented` | `boot` | lomain.cpp:49-53 says .data is read/write and all other pages are not present; both tests (lomain.cpp:144, 147) add a page to an end that is already behind its part, which leaves the first page of .data read-only and maps one page behind the page tables |
| `Boot!NoTablesStops` | `boot` | without an RSDP the kernel goes on, for one processor with its APIC at 0 (acpi.hpp:137 promises low_error) |
| `Boot!TablesFit` | `boot`, `Machines <- Crowded` | the entries of the MADT are copied beyond MADT_COPY |
| `Ps2!DriverFits` | `ps2`, `Prompt = FALSE` or `Early = TRUE` | an answer later than the read, or a key typed during init, is taken for something else |
| `Ps2!AtKeyboardDriven` | `ps2` | ps2.cpp:178-179 and 217 give a keyboard without identification bytes the keyboard's driver, but `read` waits for the input buffer (ps2.cpp:239), which is empty by then, so it never times out there and the acknowledgement is taken for an identification: the branch is dead and the port of an AT keyboard is disabled |
| `Ps2!DualKnown` | `ps2` | the clock bit is tested with the port enabled and read the wrong way round: `dual` is never true |
| `Ps2!AnswersHandled` | `ps2` | an answer arrives that no configure waits for |
| `StaticList!ListImplemented` | `structures`, `Limit = 4` | a buffer filled to its capacity looks empty (static_list.hpp:11: "can hold up to C elements") |
| `StaticList!SizeLinear` | `structures` | size() reads head and tail apart and returns a size the list never had (static_list.hpp:19) |
| `List!WantedAlive` | `List`, `Alias = TRUE` | remove goes on comparing with the element it has deleted |
| `VectorSound` | `structures`, `Counts = {0, 1}` | a vector of 0 elements has a buffer of 0, which doubling does not grow |
| `Vector!AllConstructed` | `Vector` | push_back on a full vector that was moved from grows first (vector.hpp:219) and moves its elements out of address 0, which is mapped; no operator[] panics |
| `Vector!ClearEmpties` | `Vector` | clear returns at once for a vector that was moved from and leaves its count (vector.hpp:174: "After this call, the vector will be empty") |
| `Vector!NoBufferLeak` | `Vector` | move assignment forgets the buffer it replaces |
| `Text!CompareAsDocumented` | `structures` | utf8.hpp:111-114 says compare is negative when `str` is the lower one; it is positive then |
| `Text!FindEnds` | `structures` | find of a string longer than the one searched computes a negative length in an unsigned type (utf8.cpp:115) and reads on behind the string, where utf8.hpp:148 promises npos |
| `PointersAlive` | `structures`, `Cpus = {c1, c2}` | two CPUs read the same count and one change is lost |
| `Resolved` | `structures`, `Unreadable = {4}` | populate returns an error code that was never set, or the EOK of the parent, for an inode it could not read |
| `Resolved` | `structures`, `Again = TRUE` | a second populate of `.` starts from the entry it already refers to, and moves up by one |
| `Filesystem!FilesAreLeaves` | `structures` | "." and ".." behind a file succeed |
| `Filesystem!NumberKept` | `structures` | ExpanseFs makes inode 2 with the number 3 (expanse_fs.cpp:34) |
| `Console!WrittenOnScreen` | `console` | panic writes while another CPU has the cursor below the last row |

The properties about strings and conversions except the inputs the code gets wrong, by
name: `Supported` and `FormatSupported` in `Text` exclude `%lld`, whose sign is taken from
an int (stream.cpp:95), the smallest int (stream.cpp:97), octal numbers with more digits
than the buffer (stream.cpp:105), and arguments that `Utf8::format` narrows to int
(utf8.cpp:301). `AnswersRight` leaves out a needle longer than the string (`FindEnds`) and
a part of a string compared with the string itself or a copy of it, which is always equal
(utf8.cpp:87); the sign it asks of compare is that of the code, not the documented one.

### Bounds

`Task`: two CPUs and three threads give every pair of CPUs in every pair of critical
sections, with a third thread to be overtaken or lost. `MaxQueue` (`MCTask`) only limits
the duplicates of resume.

`KMem`: a page is scaled to 32 words, a header to 2, a struct Page to 5, a free-list
struct to 3, which keeps their order (a free struct is smaller than a Page, three Pages
and four headers fit in a page) and makes a page fill up after a few calls; 9 calls
(`MaxHeapCalls`) reach two growths, whole-block allocations, both merges and reuse of
spare structs; `MaxCalls`, `MaxCreates`, `MaxInstalls` bound the other kinds. `MaxDepth`
8 is the depth at which nested calls count as endless: a growth that succeeds needs 3
frames. `Wrap` stands for 2^32.

`VmObject`: four frames serve two pages twice, so that a freed frame is used again.
`Slots`: `VmPages` 5 leaves room for three runs and a hole on either side.

`Boot`: `PER_SECOND` 2 PIT interrupts, up to `Rate` 2 timer interrupts in a period, so
that the count depends on where the second begins. `MADT_COPY` 3.

`Ps2`: `MaxKeys` 3 events are a prefixed key between two others, presses or releases;
`MaxResend` 1 byte not understood at any point. `Console`: `MaxPrinted` 2, `MaxKeys` 1,
`MaxPanics` 1 on a screen of four cells, where every line scrolls.

`StaticList`: capacity 4 with every position of head; `Limit` is what callers keep in
the list. `List`: four entries give first, last, neighbours and one to spare.
`Vector`: buffers of 1 and 2 (`Counts`) grow to 4; `MaxItems` 4. `Text`:
int of 8 bits, long long of 16 and a buffer of 5 digits keep 2^w and the decimal digits
in the same proportion as the code; strings of up to `MaxBytes` 3. `Filesystem`:
`MaxParsed` 2 paths, so that one parse follows another in the same scope.

`CHECK_DEADLOCK` is off where threads may end and call bounds stop the callers.

### Fairness

`Task`: a CPU in kernel code goes on (weak fairness); a spinning lock that becomes free
again and again is taken (strong fairness: without it any spin lock may starve); the
timer, periodic and per CPU, ticks while a thread runs. `Shootdown`: the same for
steps and locks, and an interrupt is taken once the flag is set. `Boot`: code runs on,
timers tick, a pending interrupt is taken while its CPU's flag is set; no fairness for
exceptions, which need not happen. `Ps2`: the driver goes on, devices accept and send
their bytes, and a device that asked for a RESEND may give up; keys need not be typed.
`Console`: a CPU goes on, a present serial port sends the byte it has. The refuted
liveness properties end in states where no step of the stuck CPUs is possible, so no
stronger fairness would help.

## Proofs

`TaskProofs` holds for every set of CPUs and threads, every boot queue without
repetition, and every `Calls` without "resume" (nothing in the repository calls it, and
`NeverPanics` in `task_wake` shows why it must be excluded). All results rest on
`Invariance`: `Spec => []IndInv`. The properties are not inductive alone: that a popped
thread is not in use needs to know that whoever queued it had released it, that a CPU
holding `waiting_mutex` is at a step where the back of the queue is the thread in its
hand, and that `using_cpu` follows the CPU's own record. `IndInv` is `TypeOK` and:

* `PcInv`, `LockInv` - which steps hold which mutex, and which thread is in hand;
* `NewInv` - a thread under construction is nowhere yet;
* `HeldInv`, `QueueInv`, `UseInv` - custody: queue entries are distinct, live, not in
  use, and not in any CPU's hands but the one about to pop the entry;
* `LiveInv`, `SomewhereInv` - a live thread is queued, held, or asleep on a channel;
* `DirectoryInv` - `using_cpu` and CR3 agree with the thread of the CPU.

There is one lemma per action, with one step for each conjunct it can disturb.
From `Invariance`: `TypeCorrect`, `ThreadsInOnePlace`, `NoThreadLost`,
`PanicUnreachable`, `DirectoriesExclusive`, and `Refinement` (every step of `Task` is a
step of `Scheduler` or leaves its variables alone).

`StaticListProofs` holds for every capacity, value set and set of CPUs. `TypeCorrect` is
the inductive invariant (head and tail are slots of the buffer). `ListCorrect`, under
`Limit < C`, shows that each operation maps to one of `Deque`: lemmas give the slot of
each element after a step around the end of the buffer, and sequences given element by
element are shown equal to the ones `Append`, `Tail` and `SubSeq` make.

`KMemProofs` holds for all sizes of header, structs and pages under `SizesAssumption` (the
first growth fits in a page, a free-list struct is not larger than a `Page`, the memory
table is not empty), and for all requests; `halted` calls are included. It rests on
`KMemInvariant`: `Spec => [](KMemInv /\ UsedInv)`. `NoOverlap` alone is not inductive
because the heap calls the page allocator, which calls the heap: a block is for some time
neither free nor in a list nor a caller's. `KMemInv` therefore says

* `HeapOK` - the free list is in order, blocks are apart from each other and from it,
  all of it lies below the end of the heap, and no struct is used twice;
* `StackOK`, `RetOK` - the calls in progress fit: each waits for what the one above it
  gives (`Wants`, `Gives`), and what was returned last is what the innermost waits for;
* `PagesOK`, `RegionOK` - the structs of the free runs and of runs callers hold;
* `OwnOK` - ownership: callers' blocks, structs of the heap's lists, structs of free runs,
  structs of held runs and of those that grew the heap (`Kept`), blocks in the hands of a
  call (`Holds`) and the block just returned are six sets of allocated blocks with nothing
  in common;

and `UsedInv` that the runs that grew the heap have different structs, which page::free
needs when the run it merges with has meanwhile become one of them.

A chain of several runs never gets to a caller outside, since the call for its rest
locks kmem::mutex again, so that a held chain is one run. Of the steps between two
states of the list (`_merge_free` twice, insertion, growth at the end) each has lemmas
about the list before and after. From the invariant: `HeapDisjoint`, `StructsNotShared`,
`FreeListSorted`.

The pages themselves need more, and a hypothesis: `RegionsApart`, no two usable regions of
the memory table overlap. The table is the boot loader's and page::alloc does not look at
it again; TLC evaluates the hypothesis on the tables of the runs (`MCTables`). `RunsInv`
then says of any two neighbours in the list of free runs that the first ends before the
second begins, except that the second may be empty, or the two may touch while a
page::free in progress has still to merge them (`Loose`). It also says that no page is in
two non-empty runs, be they free, held or in the hands of a call (`Separate`), that pages
never given out yet are in none of them (`AllUsed`), and that a page::split in progress
leaves something (`Cuts`). `BothListsSorted` is `ListsInOrder`, `PagesGivenOnce` that no
page is given away twice. Both stop at `halted`: after the count of a run has wrapped
(`kmem_split`) the list is not modelled.

`VmProofs` holds for any threads, objects, frames and windows under `PrivateObjects`: no
two threads map the same object. The hypothesis is needed, see `SharedSame` under Known
deviations. `VmInv` is `TypeOK`, `MappedRight` and: the links of a list run through the
frames of its object by ascending offset and reach each (`ListInv`), windows are apart
(`WindowsInv`), and the neighbours a fault has found are still neighbours when it links
its page between them (`FaultInv`). That the search ends at the right place is shown from
`Entries` as a least closed set: the frames up to an offset are such a set.

`ShootdownProofs` holds for any number of CPUs (`CpusAssumption`: their ids are the
indices below `proc_count`) and any operations. `CommandsInv` says which step holds which
mutex, that a pending command has a sender that waits for it, and that for an old
translation in a TLB there is a CPU, holding the mutex of that page table, that has still
to tell this TLB's CPU.

`BootProofs` holds for any machines, CPUs and rates of the timers, if APIC ids are
distinct (`ProcessorsAssumption`) and the parts of the kernel lie as `linker.ld` puts
them (`LayoutAssumption`: the read-only part ends at a page boundary, something is loaded
at or below its end). `BootInv` ties what is installed, enabled and loaded to the
step of each CPU (`MainInv`, `ApInv`, `OffInv`, `PendInv`), and bounds the ticks counted
during calibration by the periods of the PIT that went by, the one whose interrupt waits
included (`CalInv`); without that term the bound of `TimersSet` is not kept by a step.
`KernelPagesMapped` needs no induction: it is about what `LowBoot` computes at once. It says
that every page is as its part asks except two, and what those two are; that they should
not be is `MappedAsDocumented`, which is refuted.

`SlotsProofs` holds for any threads, structs and sizes. kinstall reads the head of the
list before it takes the mutex, and with two threads that is wrong (Known deviations).
`SpaceAccountedFresh` therefore says what is right: as long as the head a call has read is
still the head when it searches, or the search has come to its end (`HeadFresh`),
`SpaceAccounted` holds for any number of threads; and `SpaceAccountedOne`, that a single
thread never meets the exception, so that for it there is no condition. `SlotsInv` adds to
the types of the state that the links run through the listed structs by ascending address
and reach each, and slots are apart (`Linked`), that none ends where another begins
(`NoneTouch`), and that every address handed out so far is in exactly one slot or mapping
(`Covered`). `NoneTouch` is what makes one merge on each side of a freed slot enough. That
a walk stops at the first slot that is large enough, or not below an address, is shown
from `Walk` as a least closed set, as in `VmProofs`.

`Ps2Proofs` holds for any devices in the ports, any bound on RESENDs and any number of
keys, if a device answers before the controller is polled (`Prompt`) and nobody types
while init runs (`~Early`). Without either the driver may take one byte for another, which
Known deviations shows with TLC. `RepliesMatch` and `DriverFits` follow from `ProbeInv`:
for every step of init, what is left of the reply in the output buffer, which byte waits
for a device that is not there, and which answers init has seen so far, each given by the
kind of device (`Buffers`), and which driver the ports that are done have (`Fitting`).
`DriverFits` says nothing of an AT keyboard; `AtNeverDriven` proves, from the same
invariant, that it never gets the driver meant for it. `KeysDecoded` follows from
`KeyInv`, which adds

* `Configuring` - between a keyboard and the driver that configures it there are only
  acknowledgements, self test results and RESENDs for the byte sent last, and which of the
  keyboard's settings these have already changed;
* `Decoding` - after init, the bytes read and those on their way, together, are those of
  the keys typed and not printed yet. `Expects` says which rest of a key's bytes fits what
  `handle` has kept of it (prefix flags, last key, second code), and at most two keys are
  on their way at a time: the one that is being decoded and the one after it.

Only model-checked:

* liveness: fairness is outside what the prover handles;
* `NothingLost` of `KMem`: a sum over a set of blocks needs induction over the set;
  `ReserveHeld`, which counts what a growth and the structs it needs may take, is such a
  sum as well;
* `LogShown` of `Console`, and in `MCStructures` what `find`, the conversions, the views of
  the containers and path resolution compute: folds and recursive functions over data of
  any length, which again need induction;
* `Vector`, `List`, `Pointers` and `Filesystem` beyond that: sequential, and their runs
  cover each sequence of operations up to their bounds.

## Not modelled

PCI and AHCI: one pass of port reads that prints what it finds. ELF and stack unwinding:
the kernel reads its own symbols and stack for the text of a panic. GDT: a constant table.
Displays: a class hierarchy nothing switches to yet. The test framework. `Utf8::chars()`
and `%s`: loops over bytes with no state. The reference counts of threads: a thread that
has yielded is never deleted (the reference in `task_yield_done` is not given back), a
leak `Task` does not express. In `KMem`, the free list after a wrapped count, the memory
that lies behind the memory table, and a Page::split of a chain or into an empty part
(nothing calls it at this commit). In `VmObject`, the list objects_in_maps changed by one
thread while another walks it, beyond that a window that is gone is not entered any more.
In `Shootdown`, a thread preempted in Map::insert between its entry and its invlpg, and
moved to another CPU. Interrupt entry as far as it saves registers, and the register
layout of the I/O APIC and PIC.

## Plan

1. Done: scheduler with abstract specification and proofs; heap and pages; kernel
   address space; objects and maps; commands between CPUs; boot; PS/2; console;
   containers, strings and file system; the cyclic buffer refines the deque.
2. Compositions: the scheduler with the heap behind its queue; page faults with
   shootdown.
3. Proofs: done for `Task`, `StaticList`, `Shootdown`, `VmObject`, `Boot`, `KMem`,
   `Slots` and `Ps2`. Left: the links of `List`.
