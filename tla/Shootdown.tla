----------------------------- MODULE Shootdown ------------------------------
(***************************************************************************)
(* TLB shootdown: the commands one CPU sends to others with inter-processor*)
(* interrupts (src/int/lapic.cpp), and the mutexes held meanwhile.         *)
(*                                                                         *)
(* A CPU in thread code has interrupts on.  Every operation below clears   *)
(* the interrupt flag first, but for page::create, which never does, and   *)
(* Map::insert, which writes its entry before.  Then it spins: for         *)
(* kmem::mutex, for the mutex of src/mem/vm.cpp, for _command_mutex, or    *)
(* for the target to say that it has finished the command.  A CPU that     *)
(* spins so takes no command.                                              *)
(***************************************************************************)
EXTENDS Naturals, FiniteSets, FiniteSetsExt

CONSTANTS
    Cpus,  \* the ids of the CPUs
    Ops,   \* the operations that happen, of
           \* {"heap", "uninstall", "insert", "switch", "create"}
    NoCpu

\* proc_count.  The code takes the indices below it for the ids of the CPUs (the TODO at
\* lapic.cpp:184); module Boot has machines where they are not.
proc_count == Cardinality(Cpus)

ASSUME CpusAssumption ==
    Cpus \subseteq Nat /\ Cpus = 0..(proc_count - 1) /\ NoCpu \notin Cpus

Kernel == "kernel"  \* the page of kernel space whose entry changes
User == "user"      \* the page of the map whose entry changes

VARIABLES
    pc,        \* what each CPU is doing
    todo,      \* the CPUs each CPU has still to command
    kmem,      \* holder of kmem::mutex
    vm,        \* holder of vm::_mutex
    cmd,       \* holder of _command_mutex
    using,     \* Map::using_cpu of the one map
    arg,       \* command_arg of each CPU, the page to forget
    finished,  \* command_finished of each CPU
    pending,   \* the CPUs with an interrupt to take
    stale      \* the translations in each TLB that are no longer valid

locks == <<kmem, vm, cmd>>
commands == <<arg, finished, pending>>
commandVars == <<pc, todo, locks, using, commands, stale>>

CommandsInit ==
    /\ pc = [c \in Cpus |-> "thread"]
    /\ todo = [c \in Cpus |-> {}]
    /\ kmem = NoCpu /\ vm = NoCpu /\ cmd = NoCpu
    /\ using = NoCpu
    /\ arg = [c \in Cpus |-> NoCpu]
    /\ finished = [c \in Cpus |-> FALSE]
    /\ pending = {}
    /\ stale = [c \in Cpus |-> {}]

Goto(c, step) == pc' = [pc EXCEPT ![c] = step]

At(c, step) == pc[c] = step

\* A CPU with the interrupt flag set.
InterruptsOn(c) == pc[c] \in {"thread", "create", "insert", "written"}

Forget(c, page) == stale' = [stale EXCEPT ![c] = @ \ {page}]

-----------------------------------------------------------------------------
(* Beginning an operation                                                  *)

\* push_cli, but for Map::insert.  Only the CPU that uses the map leaves it (Map::exit);
\* schedule() offers the map to one CPU at a time (module Task).
Begin(c) ==
    /\ At(c, "thread")
    /\ \/ "heap" \in Ops /\ Goto(c, "heap")
       \/ "uninstall" \in Ops /\ Goto(c, "uninstall")
       \/ "insert" \in Ops /\ Goto(c, "insert")
       \/ "switch" \in Ops /\ using = NoCpu /\ (\A d \in Cpus : ~At(d, "enter"))
             /\ Goto(c, "enter")
       \/ "switch" \in Ops /\ using = c /\ Goto(c, "exit")
    /\ UNCHANGED <<todo, locks, using, commands, stale>>

\* kmalloc and kfree.
HeapLock(c) ==
    /\ At(c, "heap")
    /\ kmem = NoCpu
    /\ kmem' = c
    /\ Goto(c, "heap_held")
    /\ UNCHANGED <<todo, vm, cmd, using, commands, stale>>

HeapUnlock(c) ==
    /\ At(c, "heap_held")
    /\ kmem' = NoCpu
    /\ Goto(c, "thread")
    /\ UNCHANGED <<todo, vm, cmd, using, commands, stale>>

\* page::create, and likewise free, used and kinstall_append: no push_cli.
CreateLock(c) ==
    /\ At(c, "thread")
    /\ "create" \in Ops
    /\ kmem = NoCpu
    /\ kmem' = c
    /\ Goto(c, "create")
    /\ UNCHANGED <<todo, vm, cmd, using, commands, stale>>

CreateUnlock(c) ==
    /\ At(c, "create")
    /\ kmem' = NoCpu
    /\ Goto(c, "thread")
    /\ UNCHANGED <<todo, vm, cmd, using, commands, stale>>

\* The timer: task_yield_done puts the thread into waiting_threads, and the list
\* kmallocs its node.
Preempt(c) ==
    /\ At(c, "create")
    /\ Goto(c, "heap")
    /\ UNCHANGED <<todo, locks, using, commands, stale>>

-----------------------------------------------------------------------------
(* Map::enter and Map::exit                                                *)

\* Loading CR3 empties the TLB of what is not the kernel's.
Enter(c) ==
    /\ At(c, "enter")
    /\ vm = NoCpu
    /\ using = NoCpu
    /\ using' = c
    /\ Forget(c, User)
    /\ Goto(c, "thread")
    /\ UNCHANGED <<todo, locks, commands>>

Exit(c) ==
    /\ At(c, "exit")
    /\ vm = NoCpu
    /\ using' = NoCpu
    /\ Forget(c, User)
    /\ Goto(c, "thread")
    /\ UNCHANGED <<todo, locks, commands>>

-----------------------------------------------------------------------------
(* page::kuninstall and Map::insert                                        *)

\* The CPUs send_command_all goes through.
OthersBelow(c) == {i \in 0..(proc_count - 1) : i < c}    \* mutant of Others
Others(c) == {i \in 0..(proc_count - 1) : i # c}

\* The entry is gone from the table; invlpg here, then send_command_all.
Uninstall(c) ==
    /\ At(c, "uninstall")
    /\ kmem = NoCpu
    /\ kmem' = c
    /\ stale' = [i \in Cpus |-> IF i = c THEN stale[i] \ {Kernel} ELSE stale[i] \cup {Kernel}]
    /\ todo' = [todo EXCEPT ![c] = Others(c)]
    /\ Goto(c, "send")
    /\ UNCHANGED <<vm, cmd, using, commands>>

\* Map::insert changes the entry; then push_cli in Map::invlpg, before it takes the mutex.
Insert(c) ==
    /\ At(c, "insert")
    /\ stale' = [i \in Cpus |-> IF i = using THEN stale[i] \cup {User} ELSE stale[i]]
    /\ Goto(c, "written")
    /\ UNCHANGED <<todo, locks, using, commands>>

InvlpgBegin(c) ==
    /\ At(c, "written")
    /\ Goto(c, "invlpg")
    /\ UNCHANGED <<todo, locks, using, commands, stale>>

\* The CPUs Map::invlpg has to tell.
Users(c) == {using} \ {NoCpu, c}

Invlpg(c) ==
    /\ At(c, "invlpg")
    /\ vm = NoCpu
    /\ vm' = c
    /\ todo' = [todo EXCEPT ![c] = Users(c)]
    /\ IF using = c THEN Forget(c, User) ELSE UNCHANGED stale
    /\ Goto(c, "send")
    /\ UNCHANGED <<kmem, cmd, using, commands>>

\* send_command: take the mutex, fill in the target's status, interrupt it.
Page(c) == IF kmem = c THEN Kernel ELSE User

SendFinished(c) ==    \* mutant of Send: command_finished is not reset
    LET i == Min(todo[c]) IN
    /\ At(c, "send")
    /\ todo[c] # {}
    /\ cmd = NoCpu
    /\ cmd' = c
    /\ arg' = [arg EXCEPT ![i] = Page(c)]
    /\ pending' = pending \cup {i}
    /\ Goto(c, "wait")
    /\ UNCHANGED <<todo, kmem, vm, using, finished, stale>>

Send(c) ==
    LET i == Min(todo[c]) IN
    /\ At(c, "send")
    /\ todo[c] # {}
    /\ cmd = NoCpu
    /\ cmd' = c
    /\ finished' = [finished EXCEPT ![i] = FALSE]
    /\ arg' = [arg EXCEPT ![i] = Page(c)]
    /\ pending' = pending \cup {i}
    /\ Goto(c, "wait")
    /\ UNCHANGED <<todo, kmem, vm, using, stale>>

Finished(c) ==
    LET i == Min(todo[c]) IN
    /\ At(c, "wait")
    /\ finished[i]
    /\ cmd' = NoCpu
    /\ todo' = [todo EXCEPT ![c] = @ \ {i}]
    /\ Goto(c, "send")
    /\ UNCHANGED <<kmem, vm, using, commands, stale>>

\* Everybody knows: unlock and pop_flags.
Done(c) ==
    /\ At(c, "send")
    /\ todo[c] = {}
    /\ kmem' = IF kmem = c THEN NoCpu ELSE kmem
    /\ vm' = IF vm = c THEN NoCpu ELSE vm
    /\ Goto(c, "thread")
    /\ UNCHANGED <<todo, cmd, using, commands, stale>>

\* handle_command.
HandleCommand(c) ==
    /\ InterruptsOn(c)
    /\ c \in pending
    /\ Forget(c, arg[c])
    /\ finished' = [finished EXCEPT ![c] = TRUE]
    /\ pending' = pending \ {c}
    /\ UNCHANGED <<pc, todo, locks, using, arg>>

Step(c) ==
    \/ HeapLock(c) \/ HeapUnlock(c) \/ CreateUnlock(c)
    \/ Enter(c) \/ Exit(c)
    \/ Uninstall(c) \/ Insert(c) \/ InvlpgBegin(c) \/ Invlpg(c) \/ Send(c) \/ Finished(c) \/ Done(c)

CommandsNext == \E c \in Cpus : Step(c) \/ Begin(c) \/ CreateLock(c) \/ Preempt(c) \/ HandleCommand(c)

CommandsSpec == CommandsInit /\ [][CommandsNext]_commandVars

\* A CPU goes on with what it has begun; one that spins for a mutex that is free again
\* and again gets it in the end; an interrupt is taken when the flag is set.
CommandsFairness == \A c \in Cpus : SF_commandVars(Step(c)) /\ SF_commandVars(HandleCommand(c))

CommandsFairSpec == CommandsSpec /\ CommandsFairness

-----------------------------------------------------------------------------
(* Properties                                                              *)

Steps == {"thread", "heap", "heap_held", "create", "enter", "exit", "uninstall",
          "insert", "written", "invlpg", "send", "wait"}

\* Every variable has its type.
CommandsTypeOK ==
    /\ pc \in [Cpus -> Steps]
    /\ todo \in [Cpus -> SUBSET Cpus]
    /\ {kmem, vm, cmd, using} \subseteq Cpus \cup {NoCpu}
    /\ arg \in [Cpus -> {Kernel, User, NoCpu}]
    /\ finished \in [Cpus -> BOOLEAN]
    /\ pending \subseteq Cpus
    /\ stale \in [Cpus -> SUBSET {Kernel, User}]

\* When kuninstall returns, no CPU can still reach the page through its TLB.
KernelFlushed ==
    ~(\E c \in Cpus : kmem = c /\ pc[c] \in {"send", "wait"}) =>
        \A i \in Cpus : Kernel \notin stale[i]

\* When Map::insert returns, the CPU that runs in the map sees the new entry.
UserFlushed ==
    ~(\E c \in Cpus : pc[c] \in {"written", "invlpg"} \/ vm = c) =>
        \A i \in Cpus : User \notin stale[i]

\* A change of a page table entry that has returned is seen by every CPU that could use
\* it: kuninstall (page.cpp:369) and Map::insert (vm.cpp:204) leave no old translation.
Flushed == KernelFlushed /\ UserFlushed

\* A command is only ever outstanding while its sender waits for it, so that none is
\* overwritten before it is handled.
CommandAwaited ==
    \A i \in pending : \E c \in Cpus :
        /\ cmd = c /\ pc[c] = "wait"
        /\ i = Min(todo[c]) /\ arg[i] = Page(c) /\ ~finished[i]

\* Whoever begins an operation returns from it ("this blocks until the lock is
\* released").
LockReturns ==
    \A c \in Cpus : pc[c] # "thread" ~> pc[c] = "thread"
=============================================================================
