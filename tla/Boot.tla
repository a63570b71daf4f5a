-------------------------------- MODULE Boot --------------------------------
(***************************************************************************)
(* From kernel_main and ap_main (src/main/main.cpp) to the first schedule: *)
(* descriptor tables and interrupt controllers are set up, the other CPUs  *)
(* are woken, the timers calibrated, and the first thread is made.  The    *)
(* interrupts are on from pic::init; the other CPUs run as soon as they    *)
(* are sent their start-up interrupt; panic stops the machine.             *)
(*                                                                         *)
(* CPUs are named by their APIC id; 0 is the one that boots.  A handler    *)
(* runs with interrupts off and is one action.                             *)
(***************************************************************************)
EXTENDS LowBoot, FiniteSets

CONSTANTS
    Machines,     \* firmware, layout and the CPUs that answer
    PER_SECOND,   \* interrupts of the PIT in a second
    Rate,         \* bound: timer interrupts of CPU 0 in a period of the PIT
    Faults        \* the steps of kernel_main at which an exception may be raised

ASSUME BootAssumption ==
    /\ PER_SECOND \in Nat \ {0} /\ Rate \in Nat \ {0}
    /\ Faults \subseteq {"cpu", "lapic", "thread"}
    /\ \A m \in Machines : 0 \in m.alive /\ m.alive \subseteq Nat

\* APIC ids are distinct.
ASSUME ProcessorsAssumption ==
    \A m \in Machines :
        LET procs == low_setup(m).procs IN
        /\ procs \in Seq(Nat)
        /\ \A i, j \in DOMAIN procs : procs[i] = procs[j] => i = j

\* linker.ld: the parts of the kernel end at page boundaries; a section starts with the
\* read-only part and one reaches into the last page (.padding lies behind it).
ASSUME LayoutAssumption ==
    \A m \in Machines :
        /\ m.ro_start \in Nat /\ m.ro_end \in Nat /\ m.rw_end \in Nat
        /\ m.ro_start <= m.ro_end /\ m.ro_end <= m.rw_end
        /\ m.ro_end % PAGE_SIZE = 0 /\ m.rw_end % PAGE_SIZE = 0
        /\ m.sections \subseteq Nat \X Nat /\ IsFiniteSet(m.sections)
        /\ m.sections # {} => /\ \E s \in m.sections : s[1] <= m.ro_end
                             /\ \E s \in m.sections : s[1] + s[2] > m.rw_end - PAGE_SIZE

CAL_INIT == 1000
CAL_DIV == 3
SWITCHES_PER_SECOND == 1000

VARIABLES
    machine,
    acpi,        \* what low_setup found
    kmap,        \* kmem::map
    pc,          \* the next step of each CPU
    next,        \* the loop variable i of CPU 0
    ifl,         \* the CPUs whose interrupt flag is set
    allowed,     \* the vectors with an entry point in the IDT
    installed,   \* the vectors marked present, with a handler
    status,      \* the indices of cpu_status that are filled
    awoken,      \* Status::awoken
    finished,    \* Status::command_finished
    apic,        \* per CPU: local APIC enabled, TIMER_INITIAL, pending vectors
    trampoline,  \* the copy at _JUMP_BASE: the code, and low_ap_page_table
    cr3,         \* the page directory of each CPU
    cal,         \* _stage, _deadline, _callibration_ticks, _ticks_per_sec
    calibrated,  \* _calibrated
    pit,         \* pit::time, whether the PIT runs, and timer interrupts in its period
    panicked,    \* calls of panic
    lost         \* history: the started CPUs to which an interrupt was sent in vain

tables == <<allowed, installed, status>>
boot == <<machine, acpi, kmap>>
timing == <<cal, calibrated, pit>>
vars == <<boot, pc, next, ifl, tables, awoken, finished, apic, trampoline, cr3, timing,
          panicked, lost>>

Cpus == machine.alive
proc_count == Len(acpi.procs)

Indices == 0..(proc_count - 1)

Init ==
    /\ machine \in Machines
    /\ acpi = [outcome |-> "none", procs |-> <<>>, lapic_base |-> 0]
    /\ kmap = [vm_start |-> 0]
    /\ pc = [c \in Cpus |-> IF c = 0 THEN "low" ELSE "off"]
    /\ next = 0
    /\ ifl = {} /\ allowed = {} /\ installed = {} /\ status = {}
    /\ awoken = {} /\ finished = {}
    /\ apic = [c \in Cpus |-> [on |-> FALSE, timer |-> 0, pend |-> {}]]
    /\ trampoline = [code |-> FALSE, page_table |-> 0]
    /\ cr3 = [c \in Cpus |-> 0]
    /\ cal = [stage |-> 0, deadline |-> 0, ticks |-> 0, per_sec |-> 0, span |-> 0]
    /\ calibrated = {}
    /\ pit = [time |-> 0, on |-> FALSE, since |-> 0]
    /\ panicked = 0 /\ lost = {}

Goto(c, from, to) == pc[c] = from /\ pc' = [pc EXCEPT ![c] = to]

\* _ipi with a vector: a local APIC that is not enabled does not accept it.
Accepts(c) == c \in Cpus /\ apic[c].on

SendTo(targets, vector) ==
    /\ apic' = [c \in Cpus |->
                  IF c \in targets /\ Accepts(c) THEN [apic[c] EXCEPT !.pend = @ \cup {vector}]
                  ELSE apic[c]]
    /\ lost' = lost \cup {c \in targets \cap Cpus : pc[c] # "off" /\ ~Accepts(c)}

\* mutant of panic: the others are not told
panicAlone(c) ==
    /\ pc' = [pc EXCEPT ![c] = "halted"]
    /\ ifl' = ifl \ {c}
    /\ panicked' = panicked + 1
    /\ SendTo({}, "lpanic")

\* vpanic_at: the message needs cpu::info(), which panics again for a CPU without status;
\* then the others are told to stop, by index, and the CPU halts.  Before lapic::init the
\* command is written to the low 4 MiB, which stay mapped (lomain.cpp:134): nobody gets it.
panic(c) ==
    /\ pc' = [pc EXCEPT ![c] = "halted"]
    /\ ifl' = ifl \ {c}
    /\ panicked' = panicked + (IF c \in status \/ panicked > 0 THEN 1 ELSE 2)
    /\ SendTo(Indices \ {c}, "lpanic")

-----------------------------------------------------------------------------
(* kernel_main, before other CPUs run                                      *)

\* low_kernel_main.
LowMain ==
    /\ acpi' = low_setup(machine)
    /\ kmap' = KernelMap(machine)
    /\ Goto(0, "low", IF acpi'.outcome = "low_error" THEN "stopped" ELSE "exceptions")
    /\ UNCHANGED <<machine, next, ifl, tables, awoken, finished, apic, trampoline, cr3,
                   timing, panicked, lost>>

\* idt::install, which panics at an entry without entry point; every init gives the
\* entry points first.
Install(vectors, entries) ==
    /\ vectors \subseteq entries
    /\ allowed' = entries
    /\ installed' = installed \cup vectors

\* idt::init, idt::setup and exceptions::init; the low code has loaded the directory.
ExceptionsInit ==
    /\ Goto(0, "exceptions", "cpu")
    /\ Install({"exceptions"}, {"exceptions"})
    /\ cr3' = [cr3 EXCEPT ![0] = kmap.vm_start]
    /\ UNCHANGED <<boot, next, ifl, status, awoken, finished, apic, trampoline, timing,
                   panicked, lost>>

\* cpu::init.
CpuInit ==
    /\ Goto(0, "cpu", "pic")
    /\ status' = Indices
    /\ UNCHANGED <<boot, next, ifl, allowed, installed, awoken, finished, apic, trampoline,
                   cr3, timing, panicked, lost>>

\* pic::init masks the old controllers and sets the interrupt flag.
PicInit ==
    /\ Goto(0, "pic", "lapic")
    /\ ifl' = ifl \cup {0}
    /\ UNCHANGED <<boot, next, tables, awoken, finished, apic, trampoline, cr3, timing,
                   panicked, lost>>

\* The registers exist only where the ACPI tables say; elsewhere they are memory.
SetTimer(c, initial) ==
    apic' = [apic EXCEPT ![c].on = acpi.lapic_base # 0,
                         ![c].timer = IF acpi.lapic_base # 0 THEN initial ELSE 0]

\* The order of lapic::init, and how it could be wrong.
LapicVectors == {"ltimer", "lcommand", "lpanic"}

\* mutant of LapicFirst: the timer is started before its handler is there
LapicFirstNone == {}

LapicFirst == {"ltimer"}

\* lapic::init, to the handler of the timer; _deadline is read from the PIT.
LapicInit ==
    /\ Goto(0, "lapic", "lapic_timer")
    /\ Install(LapicFirst, allowed \cup LapicVectors)
    /\ cal' = [cal EXCEPT !.deadline = pit.time]
    /\ UNCHANGED <<boot, next, ifl, status, awoken, finished, apic, trampoline, cr3,
                   calibrated, pit, panicked, lost>>

LapicTimer ==
    /\ Goto(0, "lapic_timer", "lapic_rest")
    /\ SetTimer(0, CAL_INIT)
    /\ UNCHANGED <<boot, next, ifl, tables, awoken, finished, trampoline, cr3, timing,
                   panicked, lost>>

LapicRest ==
    /\ Goto(0, "lapic_rest", "lapic_setup")
    /\ Install({"lcommand", "lpanic"}, allowed)
    /\ UNCHANGED <<boot, next, ifl, status, awoken, finished, apic, trampoline, cr3, timing,
                   panicked, lost>>

\* lapic::setup on CPU 0 does again what lapic::init did.
LapicSetup ==
    /\ Goto(0, "lapic_setup", "pit")
    /\ SetTimer(0, CAL_INIT)
    /\ UNCHANGED <<boot, next, ifl, tables, awoken, finished, trampoline, cr3, timing,
                   panicked, lost>>

\* The entry points of ioapic::init, of which three are used.
IoapicVectors == {"iotimer", "iokeyboard", "iomouse"}

EnableFunc(vector) == Install({vector}, allowed \cup IoapicVectors)

\* ioapic::init and pit::init; pci::init and task::init change nothing here.
PitInit ==
    /\ Goto(0, "pit", "copy")
    /\ EnableFunc("iotimer")
    /\ pit' = [pit EXCEPT !.on = TRUE]
    /\ UNCHANGED <<boot, next, ifl, status, awoken, finished, apic, trampoline, cr3, cal,
                   calibrated, panicked, lost>>

-----------------------------------------------------------------------------
(* Waking the other CPUs                                                   *)

\* mutant of PlaceTrampoline: the page table is stored, then overwritten by the copy
PlaceTrampolineFirst == [code |-> TRUE, page_table |-> 0]

\* The code is copied, with an empty low_ap_page_table, which is then filled in.
PlaceTrampoline == [[code |-> TRUE, page_table |-> 0] EXCEPT !.page_table = kmap.vm_start]

Copy ==
    /\ Goto(0, "copy", "awaken")
    /\ trampoline' = PlaceTrampoline
    /\ next' = 1
    /\ UNCHANGED <<boot, ifl, tables, awoken, finished, apic, cr3, timing, panicked, lost>>

\* INIT and start-up interrupt; a CPU that is not there does not answer.
Awaken ==
    /\ next < proc_count /\ next < MADT_COPY
    /\ pc[0] = "awaken"
    /\ LET id == acpi.procs[next + 1]
       IN pc' = [c \in Cpus |-> IF c = 0 THEN "await"
                                ELSE IF c = id THEN "trampoline" ELSE pc[c]]
    /\ UNCHANGED <<boot, next, ifl, tables, awoken, finished, apic, trampoline, cr3, timing,
                   panicked, lost>>

\* The loop that waits: info_of takes the APIC id for an index.
Await ==
    /\ pc[0] = "await"
    /\ LET id == acpi.procs[next + 1]
       IN \/ /\ id \notin status
             /\ panic(0)
             /\ UNCHANGED next
          \/ /\ id \in status /\ id \in awoken
             /\ Goto(0, "await", "awaken")
             /\ next' = next + 1
             /\ UNCHANGED <<ifl, apic, panicked, lost>>
    /\ UNCHANGED <<boot, tables, awoken, finished, trampoline, cr3, timing>>

AllAwake ==
    /\ ~(next < proc_count /\ next < MADT_COPY)
    /\ Goto(0, "awaken", "thread")
    /\ UNCHANGED <<boot, next, ifl, tables, awoken, finished, apic, trampoline, cr3, timing,
                   panicked, lost>>

\* low_ap_jumper: paging on, with the directory found in the trampoline.
ApStart(c) ==
    /\ Goto(c, "trampoline", "ap_main")
    /\ cr3' = [cr3 EXCEPT ![c] = trampoline.page_table]
    /\ UNCHANGED <<boot, next, ifl, tables, awoken, finished, apic, trampoline, timing,
                   panicked, lost>>

ApMain(c) ==
    /\ pc[c] = "ap_main"
    /\ \/ /\ c \in status
          /\ Goto(c, "ap_main", "ap_lapic")
          /\ awoken' = awoken \cup {c}
          /\ UNCHANGED <<ifl, apic, panicked, lost>>
       \/ c \notin status /\ panic(c) /\ UNCHANGED awoken
    /\ UNCHANGED <<boot, next, tables, finished, trampoline, cr3, timing>>

\* idt::setup and lapic::setup.
ApLapic(c) ==
    /\ Goto(c, "ap_lapic", "ap_sti")
    /\ SetTimer(c, CAL_INIT)
    /\ UNCHANGED <<boot, next, ifl, tables, awoken, finished, trampoline, cr3, timing,
                   panicked, lost>>

\* From here on the CPU waits in schedule() with interrupts on.
ApSti(c) ==
    /\ Goto(c, "ap_sti", "schedule")
    /\ ifl' = ifl \cup {c}
    /\ UNCHANGED <<boot, next, tables, awoken, finished, apic, trampoline, cr3, timing,
                   panicked, lost>>

-----------------------------------------------------------------------------
(* The first thread                                                        *)

\* Process::new_thread: the stack of the thread is mapped and unmapped, for which
\* send_command_all clears the interrupt flag and commands every CPU but this one.
NewThread ==
    /\ Goto(0, "thread", "command")
    /\ next' = 1
    /\ ifl' = ifl \ {0}
    /\ UNCHANGED <<boot, tables, awoken, finished, apic, trampoline, cr3, timing, panicked,
                   lost>>

\* send_command.
Command ==
    /\ next < proc_count
    /\ Goto(0, "command", "finish")
    /\ finished' = finished \ {next}
    /\ SendTo({next}, "lcommand")
    /\ UNCHANGED <<boot, next, ifl, tables, awoken, trampoline, cr3, timing, panicked>>

Finish ==
    /\ next \in finished
    /\ Goto(0, "finish", "command")
    /\ next' = next + 1
    /\ UNCHANGED <<boot, ifl, tables, awoken, finished, apic, trampoline, cr3, timing,
                   panicked, lost>>

Schedule ==
    /\ next >= proc_count
    /\ Goto(0, "command", "schedule")
    /\ ifl' = ifl \cup {0}
    /\ UNCHANGED <<boot, next, tables, awoken, finished, apic, trampoline, cr3, timing,
                   panicked, lost>>

\* An exception: every handler panics, page_fault too, as no thread is running.  An
\* allocation that fails panics as well.
Exception ==
    /\ pc[0] \in Faults
    /\ panic(0)
    /\ UNCHANGED <<boot, next, tables, awoken, finished, trampoline, cr3, timing>>

-----------------------------------------------------------------------------
(* Interrupts                                                              *)

\* The local APIC timer counts down.
Tick(c) ==
    /\ apic[c].on /\ apic[c].timer # 0
    /\ c = 0 /\ cal.stage < 2 => pit.since < Rate
    /\ apic' = [apic EXCEPT ![c].pend = @ \cup {"ltimer"}]
    /\ UNCHANGED <<boot, pc, next, ifl, tables, awoken, finished, trampoline, cr3, timing,
                   panicked, lost>>

\* So does the PIT, whose interrupt goes to CPU 0.  Its period is long: CPU 0 takes a
\* timer interrupt in each.  Once calibrated, nothing reads pit::time.
PitTick ==
    /\ pit.on /\ Accepts(0)
    /\ cal.stage < 2 /\ pit.since > 0
    /\ apic' = [apic EXCEPT ![0].pend = @ \cup {"iotimer"}]
    /\ pit' = [pit EXCEPT !.since = 0]
    /\ UNCHANGED <<boot, pc, next, ifl, tables, awoken, finished, trampoline, cr3, cal,
                   calibrated, panicked, lost>>

Slice(per_sec) == (per_sec \div CAL_DIV) \div SWITCHES_PER_SECOND

\* mutant of Calibrate: the second is not waited for
CalibrateAtOnce ==
    IF cal.stage = 0 /\ cal.deadline < pit.time
    THEN [cal EXCEPT !.stage = 1, !.deadline = pit.time, !.ticks = 1, !.span = pit.time]
    ELSE IF cal.stage = 1 /\ cal.deadline < pit.time
    THEN [cal EXCEPT !.stage = 2, !.per_sec = cal.ticks * CAL_INIT * CAL_DIV, !.ticks = 0,
                     !.span = pit.time - cal.span]
    ELSE IF cal.stage = 1 THEN [cal EXCEPT !.ticks = @ + 1]
    ELSE cal

\* timer on CPU 0: the first stage waits for the PIT, the second counts for a second.
\* span is history: the time the second stage began, then the periods it took.
Calibrate ==
    IF cal.stage = 0 /\ cal.deadline < pit.time
    THEN [cal EXCEPT !.stage = 1, !.deadline = pit.time + PER_SECOND + 1, !.ticks = 1,
                     !.span = pit.time]
    ELSE IF cal.stage = 1 /\ cal.deadline < pit.time
    THEN [cal EXCEPT !.stage = 2, !.per_sec = cal.ticks * CAL_INIT * CAL_DIV, !.ticks = 0,
                     !.span = pit.time - cal.span]
    ELSE IF cal.stage = 1 THEN [cal EXCEPT !.ticks = @ + 1]
    ELSE cal

\* mutant of TimerAfter: the CPU counts itself calibrated whatever it found
TimerAfterEager(c) == Slice(cal.per_sec)

\* What timer leaves in TIMER_INITIAL: CPU 0 when it ends the calibration, another CPU
\* at its first interrupt after that.  The yield of a running thread is in module Task.
TimerAfter(c) ==
    IF c = 0 THEN IF Calibrate.stage = 2 /\ cal.stage = 1 THEN Slice(Calibrate.per_sec)
                  ELSE apic[0].timer
    ELSE IF c \notin calibrated /\ cal.per_sec # 0 THEN Slice(cal.per_sec)
    ELSE apic[c].timer

\* The pending vector with the highest number is taken first.
Priority == <<"iotimer", "lpanic", "lcommand", "ltimer">>

Taken(c, vector) ==
    /\ c \in ifl /\ vector \in apic[c].pend /\ vector \in installed
    /\ \E i \in DOMAIN Priority :
          Priority[i] = vector /\ \A j \in 1..(i - 1) : Priority[j] \notin apic[c].pend

Timer(c) ==
    /\ Taken(c, "ltimer")
    /\ apic' = [apic EXCEPT ![c].pend = @ \ {"ltimer"}, ![c].timer = TimerAfter(c)]
    /\ cal' = IF c = 0 THEN Calibrate ELSE cal
    /\ pit' = IF c = 0 /\ cal.stage < 2 /\ pit.since < Rate
              THEN [pit EXCEPT !.since = @ + 1] ELSE pit
    /\ calibrated' = IF c # 0 /\ cal.per_sec # 0 THEN calibrated \cup {c} ELSE calibrated
    /\ UNCHANGED <<boot, pc, next, ifl, tables, awoken, finished, trampoline, cr3, panicked,
                   lost>>

\* pit::interrupt.
PitInterrupt ==
    /\ Taken(0, "iotimer")
    /\ pit' = IF cal.stage < 2 THEN [pit EXCEPT !.time = @ + 1] ELSE pit
    /\ apic' = [apic EXCEPT ![0].pend = @ \ {"iotimer"}]
    /\ UNCHANGED <<boot, pc, next, ifl, tables, awoken, finished, trampoline, cr3, cal,
                   calibrated, panicked, lost>>

handle_command(c) ==
    /\ Taken(c, "lcommand")
    /\ finished' = finished \cup {c}
    /\ apic' = [apic EXCEPT ![c].pend = @ \ {"lcommand"}]
    /\ UNCHANGED <<boot, pc, next, ifl, tables, awoken, trampoline, cr3, timing, panicked,
                   lost>>

handle_panic(c) ==
    /\ Taken(c, "lpanic")
    /\ pc' = [pc EXCEPT ![c] = "halted"]
    /\ ifl' = ifl \ {c}
    /\ apic' = [apic EXCEPT ![c].pend = @ \ {"lpanic"}]
    /\ UNCHANGED <<boot, next, tables, awoken, finished, trampoline, cr3, timing, panicked,
                   lost>>

-----------------------------------------------------------------------------
Main == \/ LowMain \/ ExceptionsInit \/ CpuInit \/ PicInit
        \/ LapicInit \/ LapicTimer \/ LapicRest \/ LapicSetup \/ PitInit
        \/ Copy \/ Awaken \/ Await \/ AllAwake
        \/ NewThread \/ Command \/ Finish \/ Schedule

Ap(c) == ApStart(c) \/ ApMain(c) \/ ApLapic(c) \/ ApSti(c)

Interrupt(c) ==
    \/ Timer(c) \/ handle_command(c) \/ handle_panic(c)
    \/ c = 0 /\ PitInterrupt

Next ==
    \/ Main \/ Exception \/ PitTick
    \/ \E c \in Cpus : Ap(c) \/ Tick(c) \/ Interrupt(c)

\* Code runs on, timers keep ticking, and an interrupt that can be taken is taken.
Fairness ==
    /\ WF_vars(Main) /\ WF_vars(PitTick) /\ WF_vars(PitInterrupt)
    /\ \A c \in 0..MADT_COPY :
          /\ WF_vars(c \in Cpus /\ Ap(c))
          /\ WF_vars(c \in Cpus /\ Tick(c))
          /\ WF_vars(c \in Cpus /\ Timer(c))
          /\ WF_vars(c \in Cpus /\ handle_command(c))
          /\ WF_vars(c \in Cpus /\ handle_panic(c))

Spec == Init /\ [][Next]_vars /\ Fairness

-----------------------------------------------------------------------------
(* Properties                                                              *)

Steps == {"low", "stopped", "exceptions", "cpu", "pic", "lapic", "lapic_timer", "lapic_rest",
          "lapic_setup", "pit", "copy", "awaken", "await", "thread", "command", "finish",
          "off", "trampoline", "ap_main", "ap_lapic", "ap_sti", "schedule", "halted"}

Vectors == {"ltimer", "lcommand", "lpanic", "iotimer"}

\* Types of the variables of kernel_main, ap_main and the interrupt handlers.
TypeOK ==
    /\ machine \in Machines
    /\ pc \in [Cpus -> Steps]
    /\ next \in 0..(MADT_COPY + 1)
    /\ ifl \subseteq Cpus /\ awoken \subseteq Cpus /\ finished \subseteq Cpus
    /\ calibrated \subseteq Cpus \ {0} /\ lost \subseteq Cpus
    /\ installed \subseteq allowed /\ status \subseteq 0..(MADT_COPY - 1)
    /\ apic \in [Cpus -> [on : BOOLEAN, timer : Nat, pend : SUBSET Vectors]]
    /\ cr3 \in [Cpus -> Nat]
    /\ cal.stage \in 0..2 /\ cal.ticks \in Nat /\ cal.per_sec \in Nat
    /\ pit.time \in 0..(PER_SECOND + 4) /\ pit.since \in 0..Rate
    /\ panicked \in Nat

\* Interrupts are on from pic::init, long before most handlers are installed: no CPU
\* may get an interrupt whose IDT entry is not present yet (lapic.cpp:82, pit.cpp:27).
HandlersReady == \A c \in ifl : apic[c].pend \subseteq installed

\* A CPU that left the trampoline runs on the directory of the kernel, which CPU 0
\* stores into the copied code after the copy (lapic.cpp:163).
KernelDirectory ==
    \A c \in Cpus : pc[c] \in {"ap_main", "ap_lapic", "ap_sti", "schedule"} =>
                       cr3[c] = kmap.vm_start

\* The calibration spans a whole second and at most two periods of the PIT more, and
\* counts the timer interrupts of that span (lapic.cpp:105-125).
SecondMeasured ==
    cal.stage = 2 =>
        /\ cal.span \in PER_SECOND..(PER_SECOND + 2)
        /\ cal.per_sec >= PER_SECOND * CAL_INIT * CAL_DIV
        /\ cal.per_sec <= (PER_SECOND + 3) * Rate * CAL_INIT * CAL_DIV

\* All CPUs that preempt threads do so at the same rate (lapic.cpp:119 and 142).
SlicesAgree ==
    /\ \A c \in calibrated : apic[c].timer = Slice(cal.per_sec)
    /\ cal.stage = 2 /\ apic[0].on => apic[0].timer = Slice(cal.per_sec)

\* The timers are set from a second that was measured, and alike on all CPUs
\* (lapic.cpp:105-142).
TimersSet == SecondMeasured /\ SlicesAgree

\* What lomain.cpp:49-53 asks of the entry of a page: the read-only part, the rest of
\* the kernel with the tables, all other pages.
Asked(map, addr) ==
    IF addr \in map.ro_start..(map.ro_end - 1) THEN {"present"}
    ELSE IF addr \in map.ro_end..(map.vm_end - 1) THEN {"present", "rw"}
    ELSE {}

\* The kernel's pages, as far as two behind the tables.
KernelPages(map) == {page * PAGE_SIZE : page \in 0..((map.vm_end \div PAGE_SIZE) + 2)}

\* The first page tables lie behind everything that was loaded, and differ from what is
\* asked of them in two pages: both tests reach a page too far, which leaves the first
\* page of .data read-only and maps one page behind the tables (lomain.cpp:107-155).
KernelMapped ==
    LET map == KernelMap(machine)
    IN /\ map.rw_end <= map.vm_start
       /\ \A s \in machine.sections : s[1] + s[2] <= map.vm_start
       /\ \A addr \in KernelPages(map) :
             PageEntry(map, addr) = IF addr = map.ro_end THEN {"present"}
                                    ELSE IF addr = map.vm_end THEN {"present", "rw"}
                                    ELSE Asked(map, addr)

\* Every page is marked as the comment of low_kernel_main says (lomain.cpp:49-53).
MappedAsDocumented ==
    \A addr \in KernelPages(KernelMap(machine)) :
        PageEntry(KernelMap(machine), addr) = Asked(KernelMap(machine), addr)

\* The tables name CPUs 0, 1, ... and each of them answers.
Regular == Cpus = 0..(Cardinality(Cpus) - 1) /\ proc_count = Cardinality(Cpus)

Preempting(c) == pc[c] = "schedule" /\ apic[c].timer = Slice(cal.per_sec)

\* With regular tables every CPU ends up in schedule() with a calibrated timer, unless
\* the machine panics or an interrupt is lost (main.cpp:81-153, lapic.cpp:100-175).
BootCompletes ==
    <>(\/ acpi.outcome = "found" /\ ~Regular
       \/ acpi.outcome \in {"not found", "low_error"}
       \/ lost # {} \/ panicked > 0
       \/ cal.per_sec # 0 /\ \A c \in Cpus : Preempting(c))

\* After a panic every CPU that was started stops, unless the interrupt that tells it
\* to was lost (panic.cpp:92).
PanicStops ==
    panicked > 0 ~> (lost # {} \/ \A c \in Cpus : pc[c] \in {"off", "halted"})

\* The interrupts that tell other processors to stop, or to forget a page, reach every
\* processor that was started (panic.cpp:92, lapic.cpp:200).
NoInterruptLost == lost = {}

\* Without the ACPI tables the kernel stops with low_error (acpi.hpp:137).
NoTablesStops == acpi.outcome = "not found" => pc[0] = "stopped"

\* The arrays hold at most MADT_COPY entries (acpi.hpp:75).
TablesFit == proc_count <= MADT_COPY
=============================================================================
