-------------------------------- MODULE Task --------------------------------
(***************************************************************************)
(* The thread scheduler of Cantos (src/task/task.cpp, src/task/asm.s), the *)
(* mutexes it takes (src/structures/mutex.cpp), the page directory switch  *)
(* of vm::Map (src/mem/vm.cpp) and the timer tick that preempts a thread.  *)
(*                                                                         *)
(* Every CPU executes either a thread ("thread") or the kernel code of     *)
(* task_yield_done, schedule, task_enter and task_end_done on a kernel     *)
(* stack.  A step ends where another CPU can see a difference: at a lock   *)
(* that is taken, at a lock that is released, and between a read and the   *)
(* write that depends on it while a lock protects the pair.                *)
(***************************************************************************)
EXTENDS Naturals, Sequences

CONSTANTS
    Cpus,        \* the processors, indices of cpu::cpu_status
    Threads,     \* the Thread objects that can ever be created
    BootQueue,   \* threads created and queued before the CPUs schedule
    Calls,       \* the services of task.cpp that running threads use
    Wchans,      \* wait channels made by new_wchan
    no_wchan,    \* the wait channel of a thread that waits for nothing
    None         \* null pointer, free mutex, 0xffffffff in vm::Map::using_cpu

Services == {"yield", "wait", "new", "resume"}

ASSUME DisjointAssumption ==
    /\ Cpus \cap Threads = {}
    /\ None \notin Cpus \cup Threads
    /\ no_wchan \notin Wchans

ASSUME CallsAssumption == Calls \subseteq Services

ASSUME BootAssumption ==
    /\ BootQueue \in Seq(Threads)
    /\ \A i, j \in 1..Len(BootQueue) : BootQueue[i] = BootQueue[j] => i = j

VARIABLES
    \* Per CPU
    pc,          \* what the CPU executes, one of CpuPcs
    thread,      \* cpu::Status::thread, the thread installed on the CPU
    local,       \* the local shared_ptr `current` or `next` of kernel code
    kstack,      \* the CPU whose kernel stack this CPU runs on, or None
    cr3,         \* the thread whose page directory is loaded, None: page_dir
    \* Per thread
    tpc,         \* where the thread is in the services it calls
    tobj,        \* the thread that new_thread or resume is working on
    tstack,      \* the CPU whose stack task_yield has read, not yet used
    status,      \* life cycle of the Thread object, one of Statuses
    in_use,      \* Thread::in_use
    using_cpu,   \* Thread::vm->using_cpu
    wchan,       \* Thread::wchan
    leaked,      \* a reference to the Thread exists that is never dropped
    \* Shared
    waiting_threads,  \* the list, back() first: push_front is Append
    waiting_mutex,    \* who holds task::waiting_mutex
    task_mutex,       \* who holds task::_mutex
    panicked          \* panic() was called: every CPU halts

cpuVars    == <<pc, thread, local, kstack, cr3>>
threadVars == <<tpc, tobj, tstack, status, in_use, using_cpu, wchan, leaked>>
lockVars   == <<waiting_mutex, task_mutex>>
vars       == <<cpuVars, threadVars, lockVars, waiting_threads, panicked>>

CpuPcs == {"thread",
           "requeue", "requeue_held",
           "sched", "sched_held", "sched_pop",
           "claim", "claim_held", "claim_set", "enter",
           "end", "end_held"}
ThreadPcs == {"run", "wait", "new", "new_held", "push", "push_held",
              "resume", "resume_held"}
Statuses == {"none", "new", "live", "ended", "freed"}

\* A mutex holder is a thread, or a CPU that executes kernel code.
Holders == Cpus \cup Threads

BootThreads == {BootQueue[i] : i \in 1..Len(BootQueue)}

\* At boot every CPU has called schedule() from kernel_main or ap_main.  (The
\* boot processor is still on the boot stack, which no other CPU can name; it
\* counts as its own kernel stack here.)
Init ==
    /\ pc = [c \in Cpus |-> "sched"]
    /\ thread = [c \in Cpus |-> None]
    /\ local = [c \in Cpus |-> None]
    /\ kstack = [c \in Cpus |-> c]
    /\ cr3 = [c \in Cpus |-> None]
    /\ tpc = [t \in Threads |-> "run"]
    /\ tobj = [t \in Threads |-> None]
    /\ tstack = [t \in Threads |-> None]
    /\ status = [t \in Threads |-> IF t \in BootThreads THEN "live" ELSE "none"]
    /\ in_use = [t \in Threads |-> FALSE]
    /\ using_cpu = [t \in Threads |-> None]
    /\ wchan = [t \in Threads |-> no_wchan]
    /\ leaked = [t \in Threads |-> FALSE]
    /\ waiting_threads = BootQueue
    /\ waiting_mutex = None
    /\ task_mutex = None
    /\ panicked = FALSE

-----------------------------------------------------------------------------
(* Kernel code: leaving a thread                                           *)

\* list::push_front and the test in front of it in task_yield_done.
PushBack(q, t) == <<t>> \o q    \* mutant of PushFront: the wrong end
PushFront(q, t) == Append(q, t)

WaitsForSomething(t) == wchan[t] # no_wchan    \* mutant of MayRun
MayRun(t) == wchan[t] = no_wchan

\* vm::Map::enter (once it has seen that the map is free) and vm::Map::exit, on
\* CPU c for the map of thread t.

VmEnter(c, t) ==
    /\ using_cpu' = [using_cpu EXCEPT ![t] = c]
    /\ cr3' = [cr3 EXCEPT ![c] = t]

VmExitKeepsCr3(c, t) ==    \* mutant of VmExit: CR3 is not reloaded
    /\ using_cpu' = [using_cpu EXCEPT ![t] = None]
    /\ UNCHANGED cr3

VmExit(c, t) ==
    /\ using_cpu' = [using_cpu EXCEPT ![t] = None]
    /\ cr3' = [cr3 EXCEPT ![c] = None]

\* current->in_use = false
ReleaseForgotten(t) == UNCHANGED in_use    \* mutant of Release
Release(t) == in_use' = [in_use EXCEPT ![t] = FALSE]

\* task_yield_done on the kernel stack of CPU s, up to its sti: drop the
\* thread from the CPU, load the kernel page directory (Map::exit) and mark the
\* thread free.  `current` lives in a frame that schedule() never returns to.
YieldDone(c, s) ==
    /\ pc' = [pc EXCEPT ![c] = "requeue"]
    /\ thread' = [thread EXCEPT ![c] = None]
    /\ local' = [local EXCEPT ![c] = thread[c]]
    /\ kstack' = [kstack EXCEPT ![c] = s]
    /\ VmExit(c, thread[c])
    /\ Release(thread[c])
    /\ leaked' = [leaked EXCEPT ![thread[c]] = TRUE]

\* The timer interrupt: task_timer_yield runs task_yield with interrupts off, so
\* the stack it reads is this CPU's own.  On a CPU without a thread task_yield
\* returns at once: the tick has no effect there.
Timer(c) ==
    /\ pc[c] = "thread"
    /\ YieldDone(c, c)
    /\ UNCHANGED <<tpc, tobj, tstack, status, wchan, lockVars,
                   waiting_threads, panicked>>

\* The end of task_yield: interrupts are enabled again when task_asm_yield
\* moves to the stack whose address was read before.
YieldSwitch(c) ==
    LET t == thread[c] IN
    /\ pc[c] = "thread"
    /\ tstack[t] # None
    /\ YieldDone(c, tstack[t])
    /\ tstack' = [tstack EXCEPT ![t] = None]
    /\ tpc' = [tpc EXCEPT ![t] = IF @ = "wait" THEN "run" ELSE @]
    /\ UNCHANGED <<tobj, status, wchan, lockVars, waiting_threads, panicked>>

\* The rest of task_yield_done: queue the thread again unless it waits on a
\* channel, then call schedule().
RequeueLock(c) ==
    /\ pc[c] = "requeue"
    /\ waiting_mutex = None
    /\ waiting_mutex' = c
    /\ pc' = [pc EXCEPT ![c] = "requeue_held"]
    /\ UNCHANGED <<thread, local, kstack, cr3, threadVars, task_mutex,
                   waiting_threads, panicked>>

RequeuePush(c) ==
    /\ pc[c] = "requeue_held"
    /\ waiting_threads' = IF MayRun(local[c])
                            THEN PushFront(waiting_threads, local[c])
                            ELSE waiting_threads
    /\ waiting_mutex' = None
    /\ pc' = [pc EXCEPT ![c] = "sched"]
    /\ local' = [local EXCEPT ![c] = None]
    /\ UNCHANGED <<thread, kstack, cr3, threadVars, task_mutex, panicked>>

-----------------------------------------------------------------------------
(* Kernel code: schedule() and task_enter                                  *)

\* waiting_mutex.trylock() succeeds; while it fails the CPU halts until the next
\* interrupt and tries again, which changes nothing.
SchedLock(c) ==
    /\ pc[c] = "sched"
    /\ waiting_mutex = None
    /\ waiting_mutex' = c
    /\ pc' = [pc EXCEPT ![c] = "sched_held"]
    /\ UNCHANGED <<thread, local, kstack, cr3, threadVars, task_mutex,
                   waiting_threads, panicked>>

\* Nothing to run: unlock, halt until the next interrupt and poll again.
SchedEmpty(c) ==
    /\ pc[c] = "sched_held"
    /\ waiting_threads = <<>>
    /\ waiting_mutex' = None
    /\ pc' = [pc EXCEPT ![c] = "sched"]
    /\ UNCHANGED <<thread, local, kstack, cr3, threadVars, task_mutex,
                   waiting_threads, panicked>>

\* Mutant of SchedBack: waiting_mutex is released before pop_back().
SchedBackUnlocks(c) ==
    /\ pc[c] = "sched_held"
    /\ waiting_threads # <<>>
    /\ local' = [local EXCEPT ![c] = Head(waiting_threads)]
    /\ waiting_mutex' = None
    /\ pc' = [pc EXCEPT ![c] = "sched_pop"]
    /\ UNCHANGED <<thread, kstack, cr3, threadVars, task_mutex, waiting_threads,
                   panicked>>

SchedBack(c) ==
    /\ pc[c] = "sched_held"
    /\ waiting_threads # <<>>
    /\ local' = [local EXCEPT ![c] = Head(waiting_threads)]
    /\ pc' = [pc EXCEPT ![c] = "sched_pop"]
    /\ UNCHANGED <<thread, kstack, cr3, threadVars, lockVars, waiting_threads,
                   panicked>>

SchedPop(c) ==
    /\ pc[c] = "sched_pop"
    /\ waiting_threads' = Tail(waiting_threads)
    /\ waiting_mutex' = None
    /\ pc' = [pc EXCEPT ![c] = "claim"]
    /\ UNCHANGED <<thread, local, kstack, cr3, threadVars, task_mutex, panicked>>

ClaimLock(c) ==
    /\ pc[c] = "claim"
    /\ task_mutex = None
    /\ task_mutex' = c
    /\ pc' = [pc EXCEPT ![c] = "claim_held"]
    /\ UNCHANGED <<thread, local, kstack, cr3, threadVars, waiting_mutex,
                   waiting_threads, panicked>>

\* if(next->in_use) panic("Found an in use thread in the waiting list")
ClaimCheck(c) ==
    /\ pc[c] = "claim_held"
    /\ IF in_use[local[c]]
         THEN panicked' = TRUE /\ UNCHANGED pc
         ELSE pc' = [pc EXCEPT ![c] = "claim_set"] /\ UNCHANGED panicked
    /\ UNCHANGED <<thread, local, kstack, cr3, threadVars, lockVars,
                   waiting_threads>>

ClaimSet(c) ==
    /\ pc[c] = "claim_set"
    /\ in_use' = [in_use EXCEPT ![local[c]] = TRUE]
    /\ task_mutex' = None
    /\ pc' = [pc EXCEPT ![c] = "enter"]
    /\ UNCHANGED <<thread, local, kstack, cr3, tpc, tobj, tstack, status,
                   using_cpu, wchan, leaked, waiting_mutex, waiting_threads,
                   panicked>>

\* task_enter: Map::enter panics when another CPU uses the map, else loads it;
\* then the thread is installed on the CPU and resumed on its own stack.
TaskEnter(c) ==
    /\ pc[c] = "enter"
    /\ IF using_cpu[local[c]] # None
         THEN panicked' = TRUE /\ UNCHANGED <<cpuVars, using_cpu>>
         ELSE /\ VmEnter(c, local[c])
              /\ thread' = [thread EXCEPT ![c] = local[c]]
              /\ local' = [local EXCEPT ![c] = None]
              /\ kstack' = [kstack EXCEPT ![c] = None]
              /\ pc' = [pc EXCEPT ![c] = "thread"]
              /\ UNCHANGED panicked
    /\ UNCHANGED <<tpc, tobj, tstack, status, in_use, wchan, leaked, lockVars,
                   waiting_threads>>

-----------------------------------------------------------------------------
(* Services called by the running thread, with interrupts enabled          *)

\* Thread t runs on CPU c and is not inside task_yield.
Running(c, t) == pc[c] = "thread" /\ thread[c] = t /\ tstack[t] = None

\* The start of task_yield: the address of this CPU's stack is read with
\* interrupts off, then interrupts are enabled again.
YieldRead(c, t) ==
    /\ tstack' = [tstack EXCEPT ![t] = c]
    /\ UNCHANGED <<cpuVars, tpc, tobj, status, in_use, using_cpu, wchan, leaked,
                   lockVars, waiting_threads, panicked>>

TaskYield(c) ==
    \E t \in Threads :
        /\ Running(c, t)
        /\ \/ tpc[t] = "run" /\ "yield" \in Calls
           \/ tpc[t] = "wait"
        /\ YieldRead(c, t)

\* Mutex::lock in a thread: trylock fails with interrupts on, so task_yield.
LockYield(c) ==
    \E t \in Threads :
        /\ Running(c, t)
        /\ \/ tpc[t] \in {"new", "resume"} /\ task_mutex # None
           \/ tpc[t] = "push" /\ waiting_mutex # None
        /\ YieldRead(c, t)

\* wait(): store the channel, then task_yield.
TaskWait(c) ==
    \E t \in Threads, w \in Wchans :
        /\ "wait" \in Calls
        /\ Running(c, t)
        /\ tpc[t] = "run"
        /\ wchan' = [wchan EXCEPT ![t] = w]
        /\ tpc' = [tpc EXCEPT ![t] = "wait"]
        /\ UNCHANGED <<cpuVars, tobj, tstack, status, in_use, using_cpu, leaked,
                       lockVars, waiting_threads, panicked>>

\* Process::new_thread: allocate a Thread object and enter its constructor.
NewThread(c) ==
    \E t, u \in Threads :
        /\ "new" \in Calls
        /\ Running(c, t)
        /\ tpc[t] = "run"
        /\ status[u] = "none"
        /\ status' = [status EXCEPT ![u] = "new"]
        /\ tobj' = [tobj EXCEPT ![t] = u]
        /\ tpc' = [tpc EXCEPT ![t] = "new"]
        /\ UNCHANGED <<cpuVars, tstack, in_use, using_cpu, wchan, leaked,
                       lockVars, waiting_threads, panicked>>

\* resume(): the caller got a reference to the thread it resumes, and keeps it.
Resume(c) ==
    \E t, u \in Threads :
        /\ "resume" \in Calls
        /\ Running(c, t)
        /\ tpc[t] = "run"
        /\ status[u] = "live"
        /\ tobj' = [tobj EXCEPT ![t] = u]
        /\ tpc' = [tpc EXCEPT ![t] = "resume"]
        /\ leaked' = [leaked EXCEPT ![u] = TRUE]
        /\ UNCHANGED <<cpuVars, tstack, status, in_use, using_cpu, wchan,
                       lockVars, waiting_threads, panicked>>

\* _mutex.lock() in the constructor and in resume().
ThreadLock(c) ==
    \E t \in Threads :
        /\ Running(c, t)
        /\ tpc[t] \in {"new", "resume"}
        /\ task_mutex = None
        /\ task_mutex' = t
        /\ tpc' = [tpc EXCEPT ![t] = IF @ = "new" THEN "new_held"
                                                  ELSE "resume_held"]
        /\ UNCHANGED <<cpuVars, tobj, tstack, status, in_use, using_cpu, wchan,
                       leaked, waiting_mutex, waiting_threads, panicked>>

\* The constructor's body (page directory, stack) and its unlock.
Construct(c) ==
    \E t \in Threads :
        /\ Running(c, t)
        /\ tpc[t] = "new_held"
        /\ task_mutex' = None
        /\ tpc' = [tpc EXCEPT ![t] = "push"]
        /\ UNCHANGED <<cpuVars, tobj, tstack, status, in_use, using_cpu, wchan,
                       leaked, waiting_mutex, waiting_threads, panicked>>

\* Mutant of ResumeCheck: the woken thread is not queued.
ResumeCheckNoPush(c) ==
    \E t \in Threads :
        /\ Running(c, t)
        /\ tpc[t] = "resume_held"
        /\ task_mutex' = None
        /\ wchan' = [wchan EXCEPT ![tobj[t]] = no_wchan]
        /\ tpc' = [tpc EXCEPT ![t] = "run"]
        /\ tobj' = [tobj EXCEPT ![t] = None]
        /\ UNCHANGED <<cpuVars, tstack, status, in_use, using_cpu, leaked,
                       waiting_mutex, waiting_threads, panicked>>

\* resume(): a thread that waits on a channel is made ready, others are left.
ResumeCheck(c) ==
    \E t \in Threads :
        /\ Running(c, t)
        /\ tpc[t] = "resume_held"
        /\ task_mutex' = None
        /\ IF wchan[tobj[t]] # no_wchan
             THEN /\ wchan' = [wchan EXCEPT ![tobj[t]] = no_wchan]
                  /\ tpc' = [tpc EXCEPT ![t] = "push"]
                  /\ UNCHANGED tobj
             ELSE /\ tpc' = [tpc EXCEPT ![t] = "run"]
                  /\ tobj' = [tobj EXCEPT ![t] = None]
                  /\ UNCHANGED wchan
        /\ UNCHANGED <<cpuVars, tstack, status, in_use, using_cpu, leaked,
                       waiting_mutex, waiting_threads, panicked>>

\* waiting_mutex.lock(); waiting_threads.push_front(t); waiting_mutex.unlock()
\* at the end of new_thread and of resume().
PushLock(c) ==
    \E t \in Threads :
        /\ Running(c, t)
        /\ tpc[t] = "push"
        /\ waiting_mutex = None
        /\ waiting_mutex' = t
        /\ tpc' = [tpc EXCEPT ![t] = "push_held"]
        /\ UNCHANGED <<cpuVars, tobj, tstack, status, in_use, using_cpu, wchan,
                       leaked, task_mutex, waiting_threads, panicked>>

Push(c) ==
    \E t \in Threads :
        /\ Running(c, t)
        /\ tpc[t] = "push_held"
        /\ waiting_threads' = PushFront(waiting_threads, tobj[t])
        /\ waiting_mutex' = None
        /\ status' = [status EXCEPT ![tobj[t]] = IF @ = "new" THEN "live" ELSE @]
        /\ tobj' = [tobj EXCEPT ![t] = None]
        /\ tpc' = [tpc EXCEPT ![t] = "run"]
        /\ UNCHANGED <<cpuVars, tstack, in_use, using_cpu, wchan, leaked,
                       task_mutex, panicked>>

\* The entry function returns into task_end: with interrupts off, move to this
\* CPU's stack and run task_end_done.  The page directory stays loaded.
TaskEnd(c) ==
    \E t \in Threads :
        /\ Running(c, t)
        /\ tpc[t] = "run"
        /\ pc' = [pc EXCEPT ![c] = "end"]
        /\ thread' = [thread EXCEPT ![c] = None]
        /\ local' = [local EXCEPT ![c] = t]
        /\ kstack' = [kstack EXCEPT ![c] = c]
        /\ UNCHANGED <<cr3, threadVars, lockVars, waiting_threads, panicked>>

\* Thread::end
EndLock(c) ==
    /\ pc[c] = "end"
    /\ task_mutex = None
    /\ task_mutex' = c
    /\ pc' = [pc EXCEPT ![c] = "end_held"]
    /\ UNCHANGED <<thread, local, kstack, cr3, threadVars, waiting_mutex,
                   waiting_threads, panicked>>

\* Thread::end's body, `current = nullptr` (the last reference deletes the
\* Thread and its vm::Map) and the call of schedule().
EndThread(c) ==
    /\ pc[c] = "end_held"
    /\ status' = [status EXCEPT ![local[c]] =
                    IF leaked[local[c]] THEN "ended" ELSE "freed"]
    /\ task_mutex' = None
    /\ local' = [local EXCEPT ![c] = None]
    /\ pc' = [pc EXCEPT ![c] = "sched"]
    /\ UNCHANGED <<thread, kstack, cr3, tpc, tobj, tstack, in_use, using_cpu,
                   wchan, leaked, waiting_mutex, waiting_threads, panicked>>

-----------------------------------------------------------------------------
\* Code of the kernel on CPU c, on a kernel stack, not preemptible.
KernelStep(c) ==
    \/ RequeueLock(c) \/ RequeuePush(c)
    \/ SchedLock(c) \/ SchedEmpty(c) \/ SchedBack(c) \/ SchedPop(c)
    \/ ClaimLock(c) \/ ClaimCheck(c) \/ ClaimSet(c) \/ TaskEnter(c)
    \/ EndLock(c) \/ EndThread(c)

\* Code of the thread on CPU c, preemptible.
ThreadStep(c) ==
    \/ TaskYield(c) \/ LockYield(c) \/ YieldSwitch(c) \/ TaskWait(c)
    \/ NewThread(c) \/ Resume(c) \/ ThreadLock(c) \/ Construct(c)
    \/ ResumeCheck(c) \/ PushLock(c) \/ Push(c) \/ TaskEnd(c)

\* No two CPUs run on the same kernel stack: when they do, each overwrites the
\* frames of the other and what happens next is undefined.
StacksDisjoint ==
    \A c, d \in Cpus : c # d /\ kstack[c] # None => kstack[c] # kstack[d]

Next ==
    /\ ~panicked
    /\ StacksDisjoint
    /\ \E c \in Cpus : KernelStep(c) \/ ThreadStep(c) \/ Timer(c)

Spec == Init /\ [][Next]_vars

\* Fairness.  A CPU executes its instructions (weak fairness of each step it can
\* take by itself), and the LAPIC timer keeps ticking on every CPU.  A CPU that
\* fails to get a lock tries again forever; the others hold the lock for a few
\* instructions and then halt until their next tick (schedule) or run something
\* else, so a CPU that keeps trying meets a free lock: strong fairness.  A thread
\* need not call a service or end, but finishes a service it has called as long as it
\* is not preempted in every attempt, which weak fairness leaves to the timer.
LockStep(c) == RequeueLock(c) \/ SchedLock(c) \/ ClaimLock(c) \/ EndLock(c)

ServiceStep(c) ==
    \/ YieldSwitch(c) \/ ThreadLock(c) \/ Construct(c) \/ ResumeCheck(c)
    \/ PushLock(c) \/ Push(c)

Fairness ==
    \A c \in Cpus :
        /\ WF_vars(~panicked /\ StacksDisjoint /\ KernelStep(c))
        /\ SF_vars(~panicked /\ StacksDisjoint /\ LockStep(c))
        /\ WF_vars(~panicked /\ StacksDisjoint /\ ServiceStep(c))
        /\ WF_vars(~panicked /\ StacksDisjoint /\ Timer(c))

FairSpec == Spec /\ Fairness

-----------------------------------------------------------------------------
(* Properties                                                              *)

\* The threads kernel code or the current thread pointer of CPU c refers to.
Custody(c) == {thread[c], local[c]} \ {None}

Queued == {waiting_threads[i] : i \in 1..Len(waiting_threads)}

\* Every variable has its type.
TypeOK ==
    /\ pc \in [Cpus -> CpuPcs]
    /\ thread \in [Cpus -> Threads \cup {None}]
    /\ local \in [Cpus -> Threads \cup {None}]
    /\ kstack \in [Cpus -> Cpus \cup {None}]
    /\ cr3 \in [Cpus -> Threads \cup {None}]
    /\ tpc \in [Threads -> ThreadPcs]
    /\ tobj \in [Threads -> Threads \cup {None}]
    /\ tstack \in [Threads -> Cpus \cup {None}]
    /\ status \in [Threads -> Statuses]
    /\ in_use \in [Threads -> BOOLEAN]
    /\ using_cpu \in [Threads -> Cpus \cup {None}]
    /\ wchan \in [Threads -> Wchans \cup {no_wchan}]
    /\ leaked \in [Threads -> BOOLEAN]
    /\ waiting_threads \in Seq(Threads)
    /\ waiting_mutex \in Holders \cup {None}
    /\ task_mutex \in Holders \cup {None}
    /\ panicked \in BOOLEAN

\* A thread is in one place: it is not on two CPUs, not twice in
\* waiting_threads, and not in waiting_threads while a CPU has it, except for the
\* moment between back() and pop_back() in schedule().
OnePlace ==
    /\ \A c, d \in Cpus : c # d => Custody(c) \cap Custody(d) = {}
    /\ \A i, j \in 1..Len(waiting_threads) :
           waiting_threads[i] = waiting_threads[j] => i = j
    /\ \A c \in Cpus, i \in 1..Len(waiting_threads) :
           waiting_threads[i] \in Custody(c) => pc[c] = "sched_pop" /\ i = 1

\* No thread is lost: a live thread that waits for nothing is in
\* waiting_threads, or on a CPU that runs it or is about to queue or enter it, or
\* resume() is about to queue it.
NotLost ==
    \A t \in Threads :
        status[t] = "live" /\ wchan[t] = no_wchan =>
            \/ t \in Queued
            \/ \E c \in Cpus : t \in Custody(c)
            \/ \E u \in Threads : tobj[u] = t /\ tpc[u] \in {"push", "push_held"}

\* Neither the panic in schedule() ("Found an in use thread in the waiting list")
\* nor the one in Map::enter ("Tried to set a VM which is already owned by another
\* CPU") is reached.
NeverPanics == ~panicked

\* No page directory is loaded by two CPUs at a time, and the map of the
\* installed thread is the one that is loaded and records this CPU as its user, so that
\* Map::invlpg flushes the right TLB.
DirectoryExclusive ==
    /\ \A c, d \in Cpus : c # d /\ cr3[c] # None => cr3[c] # cr3[d]
    /\ \A c \in Cpus : thread[c] # None =>
           cr3[c] = thread[c] /\ using_cpu[thread[c]] = c

\* Threads are taken off waiting_threads by the CPUs only: whoever is in the
\* list runs in the end, whatever the other threads do.
QueuedRuns ==
    \A t \in Threads : t \in Queued ~> \E c \in Cpus : thread[c] = t

\* lock() on waiting_mutex and _mutex in kernel code returns in the end.
KernelLockReturns ==
    \A c \in Cpus : pc[c] \in {"requeue", "claim", "end"} ~>
                    pc[c] \notin {"requeue", "claim", "end"}

\* The page directory in CR3 is not one that ~Map has given back to the page
\* allocator.
LoadedDirectoryAlive ==
    \A c \in Cpus : cr3[c] # None => status[cr3[c]] # "freed"

-----------------------------------------------------------------------------
(* The scheduler implements module Scheduler.                              *)

\* The thread a CPU is responsible for: from pop_back() to the push_front(), the
\* decision not to queue it, or its end.
HolderOf(c) ==
    IF pc[c] = "sched_pop" THEN None
    ELSE IF thread[c] # None THEN thread[c] ELSE local[c]

Uncreated == {t \in Threads : status[t] \in {"none", "new"}}

\* Live threads that task_yield_done did not queue.
Asleep == {t \in Threads :
    /\ status[t] = "live"
    /\ t \notin Queued
    /\ \A c \in Cpus : HolderOf(c) # t}

Abstract == INSTANCE Scheduler WITH
    ready  <- waiting_threads,
    holder <- [c \in Cpus |-> HolderOf(c)],
    fresh  <- Uncreated,
    parked <- Asleep

\* Every behaviour of the scheduler, with its locks and interrupts, is a
\* behaviour of Scheduler: first in, first out, one place per thread.
ImplementsScheduler == Abstract!Spec

-----------------------------------------------------------------------------
(* The inductive invariant behind OnePlace, NotLost, NeverPanics and       *)
(* DirectoryExclusive, for threads that do not call resume().              *)

LocalPcs == {"requeue", "requeue_held", "sched_pop", "claim", "claim_held",
             "claim_set", "enter", "end", "end_held"}

\* Which pointers kernel code holds, by what it executes.
PcInv ==
    \A c \in Cpus :
        /\ thread[c] # None <=> pc[c] = "thread"
        /\ local[c] # None <=> pc[c] \in LocalPcs

\* Who holds waiting_mutex, by what he executes.
LockInv ==
    /\ \A c \in Cpus : waiting_mutex = c <=>
           pc[c] \in {"requeue_held", "sched_held", "sched_pop"}
    /\ \A t \in Threads : waiting_mutex = t <=> tpc[t] = "push_held"

\* Thread objects under construction have one constructor each.
NewInv ==
    /\ \A t \in Threads :
           /\ tpc[t] \notin {"resume", "resume_held"}
           /\ tpc[t] \in {"new", "new_held", "push", "push_held"} <=> tobj[t] # None
           /\ tobj[t] # None => status[tobj[t]] = "new"
    /\ \A t, u \in Threads : tobj[t] = tobj[u] /\ tobj[t] # None => t = u

\* No two CPUs have the same thread.
HeldInv ==
    \A c, d \in Cpus : c # d =>
        /\ thread[c] # None => thread[c] # thread[d] /\ thread[c] # local[d]
        /\ local[c] # None => local[c] # local[d]

\* waiting_threads names each thread once, and none that a CPU has, except
\* between back() and pop_back().
QueueInv ==
    /\ \A i, j \in 1..Len(waiting_threads) :
           waiting_threads[i] = waiting_threads[j] => i = j
    /\ \A c \in Cpus, i \in 1..Len(waiting_threads) :
           /\ waiting_threads[i] # thread[c]
           /\ waiting_threads[i] = local[c] => pc[c] = "sched_pop" /\ i = 1
    /\ \A c \in Cpus : pc[c] = "sched_pop" =>
           waiting_threads # <<>> /\ local[c] = Head(waiting_threads)

\* Threads in the list or with a CPU have been created and have not ended.
LiveInv ==
    /\ \A c \in Cpus : thread[c] # None => status[thread[c]] = "live"
    /\ \A c \in Cpus : local[c] # None => status[local[c]] = "live"
    /\ \A i \in 1..Len(waiting_threads) : status[waiting_threads[i]] = "live"

\* Threads that are neither entered nor about to be are marked free.
UseInv ==
    /\ \A t \in Threads : status[t] \in {"none", "new"} =>
           ~in_use[t] /\ using_cpu[t] = None
    /\ \A i \in 1..Len(waiting_threads) :
           ~in_use[waiting_threads[i]] /\ using_cpu[waiting_threads[i]] = None
    /\ \A c \in Cpus : pc[c] \in LocalPcs \ {"enter", "end", "end_held"} =>
           ~in_use[local[c]]
    /\ \A c \in Cpus : pc[c] \in LocalPcs \ {"end", "end_held"} =>
           using_cpu[local[c]] = None

\* using_cpu names the CPU that has the thread's page directory loaded.
DirectoryInv ==
    /\ \A c \in Cpus : cr3[c] # None => using_cpu[cr3[c]] = c
    /\ \A c \in Cpus : thread[c] # None => cr3[c] = thread[c]

\* Live threads that do not wait are somewhere.
SomewhereInv ==
    \A t \in Threads :
        status[t] = "live" /\ wchan[t] = no_wchan =>
            \/ \E i \in 1..Len(waiting_threads) : waiting_threads[i] = t
            \/ \E c \in Cpus : thread[c] = t \/ local[c] = t

\* The invariant that every step of every CPU preserves.
IndInv ==
    /\ TypeOK /\ PcInv /\ LockInv /\ NewInv /\ HeldInv /\ QueueInv /\ LiveInv
    /\ UseInv /\ DirectoryInv /\ SomewhereInv /\ NeverPanics
=============================================================================
