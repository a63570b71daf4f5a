----------------------------- MODULE BootProofs -----------------------------
(***************************************************************************)
(* Proofs about the start of the kernel, for any machines, any number of   *)
(* CPUs and any rate of the timers: every interrupt finds its handler,     *)
(* every CPU runs on the directory of the kernel, and the timers are set   *)
(* from a second that was measured.                                        *)
(*                                                                         *)
(* BootInv says how far each CPU has come, and what that implies for the   *)
(* tables and the local APICs; and, for the calibration, how the timer     *)
(* interrupts that were counted and the periods of the PIT that went by    *)
(* bound each other.  The last part is about the first page tables, for    *)
(* every layout of the kernel that linker.ld allows.                       *)
(***************************************************************************)
EXTENDS Boot, WellFoundedInduction, TLAPS

\* The steps of CPU 0 in the order of kernel_main.
BeforeTimer == {"low", "stopped", "exceptions", "cpu", "pic", "lapic", "lapic_timer"}
BeforePit == BeforeTimer \cup {"lapic_rest", "lapic_setup", "pit"}
BeforeCopy == BeforePit \cup {"copy"}
Waking == {"awaken", "await"}
AfterRest == {"lapic_setup", "pit", "copy", "awaken", "await", "thread", "command", "finish",
              "schedule"}
ApSteps == {"off", "trampoline", "ap_main", "ap_lapic", "ap_sti", "schedule", "halted"}

BootTypes ==
    /\ machine \in Machines
    /\ pc \in [Cpus -> Steps]
    /\ next \in Nat
    /\ ifl \subseteq Cpus /\ calibrated \subseteq Cpus \ {0}
    /\ apic \in [Cpus -> [on : BOOLEAN, timer : Nat, pend : SUBSET Vectors]]
    /\ DOMAIN cr3 = Cpus
    /\ cal \in [stage : 0..2, deadline : Nat, ticks : Nat, per_sec : Nat, span : Nat]
    /\ pit \in [time : Nat, on : BOOLEAN, since : 0..Rate]
    /\ acpi.procs \in Seq(Nat)
    /\ \A i, j \in DOMAIN acpi.procs : acpi.procs[i] = acpi.procs[j] => i = j

\* What CPU 0 has done.
MainInv ==
    /\ pc[0] \notin {"off", "trampoline", "ap_main", "ap_lapic", "ap_sti"}
    /\ pc[0] \in BeforeTimer => \A c \in Cpus : ~apic[c].on
    /\ pc[0] \in BeforePit => ~pit.on
    /\ pc[0] \in BeforeCopy => \A c \in Cpus \ {0} : pc[c] = "off"
    /\ pc[0] \in {"lapic_timer", "lapic_rest"} => "ltimer" \in installed
    /\ pc[0] \in AfterRest => LapicVectors \subseteq installed
    /\ apic[0].on => "ltimer" \in installed
    /\ pit.on => "iotimer" \in installed
    /\ pc[0] \notin {"low", "stopped", "exceptions"} => cr3[0] = kmap.vm_start
    /\ pc[0] \in Waking => trampoline.page_table = kmap.vm_start

\* What another CPU finds when it has been started.
ApInv ==
    \A c \in Cpus \ {0} :
        /\ pc[c] \in ApSteps
        /\ pc[c] # "off" => /\ LapicVectors \subseteq installed
                            /\ trampoline.page_table = kmap.vm_start
        /\ pc[c] \in {"ap_main", "ap_lapic", "ap_sti", "schedule"} => cr3[c] = kmap.vm_start
        /\ pc[c] = "off" => ~apic[c].on
        /\ c \in ifl \cup calibrated => pc[c] \in {"schedule", "halted"}

\* The CPUs CPU 0 has still to wake are off.
OffInv ==
    \A k \in DOMAIN acpi.procs :
        /\ \/ pc[0] = "awaken" /\ k > next
           \/ pc[0] = "await" /\ k > next + 1
        /\ acpi.procs[k] \in Cpus \ {0}
        => pc[acpi.procs[k]] = "off"

\* Interrupts that wait.
PendInv ==
    \A c \in Cpus :
        /\ apic[c].on => acpi.lapic_base # 0
        /\ apic[c].pend # {} => apic[c].on
        /\ apic[c].pend \cap {"lcommand", "lpanic"} # {} => LapicVectors \subseteq installed
        /\ "iotimer" \in apic[c].pend => pit.on

\* Periods of the PIT since the count began, the one whose interrupt waits included.
Periods == pit.time - cal.span + (IF "iotimer" \in apic[0].pend THEN 1 ELSE 0)

\* The calibration.
CalInv ==
    /\ pit.time > 0 \/ cal.stage > 0 => pit.on
    /\ cal.stage < 2 => /\ cal.per_sec = 0 /\ calibrated = {}
                        /\ "iotimer" \in apic[0].pend => pit.since = 0
                        /\ "ltimer" \in apic[0].pend => pit.since < Rate
    /\ cal.stage = 1 =>
          /\ cal.deadline = cal.span + PER_SECOND + 1
          /\ cal.span <= pit.time
          /\ Periods <= PER_SECOND + 2
          /\ pit.time = cal.deadline + 1 => pit.since = 0
          /\ cal.ticks <= Periods * Rate + pit.since
          /\ cal.ticks >= Periods + (IF pit.since > 0 THEN 1 ELSE 0)
    /\ cal.stage = 2 => cal.per_sec # 0
    /\ TimersSet

BootInv == BootTypes /\ MainInv /\ ApInv /\ OffInv /\ PendInv /\ CalInv

-----------------------------------------------------------------------------
(* Parts of a step                                                         *)

\* The slice of a CPU is a number.
LEMMA SliceType == \A n \in Nat : Slice(n) \in Nat
  BY DEF Slice, CAL_DIV, SWITCHES_PER_SECOND

\* Steps without timers: the calibration goes on as it was.
LEMMA CalSame ==
    ASSUME CalInv, UNCHANGED <<cal, pit, calibrated>>,
           \A v \in {"iotimer", "ltimer"} : v \in apic'[0].pend <=> v \in apic[0].pend,
           \A c \in calibrated : apic'[c].timer = apic[c].timer,
           cal.stage = 2 /\ apic'[0].on => apic[0].on /\ apic'[0].timer = apic[0].timer
    PROVE  CalInv'
  <1>1. Periods' = Periods
      BY DEF Periods
  <1>2. TimersSet'
      BY DEF CalInv, TimersSet, SecondMeasured, SlicesAgree, Slice
  <1> QED
      BY <1>1, <1>2 DEF CalInv

LEMMA BootInitInv == Init => BootInv
  <1> SUFFICES ASSUME Init PROVE BootInv
      OBVIOUS
  <1> USE BootAssumption DEF Init
  <1>0. 0 \in Cpus
      BY DEF Cpus
  <1>1. BootTypes
      BY <1>0 DEF BootTypes, Steps, Vectors
  <1>2. MainInv
      BY <1>0 DEF MainInv, BeforeTimer, BeforePit, BeforeCopy, Waking, AfterRest
  <1>3. ApInv /\ OffInv /\ PendInv
      BY <1>0 DEF ApInv, OffInv, PendInv, ApSteps
  <1>4. CalInv
      BY <1>0 DEF CalInv, TimersSet, SecondMeasured, SlicesAgree
  <1> QED
      BY <1>1, <1>2, <1>3, <1>4 DEF BootInv

-----------------------------------------------------------------------------
(* kernel_main                                                             *)

LEMMA LowMainInv ==
    ASSUME BootInv, LowMain
    PROVE  BootInv'
  <1> USE BootAssumption, ProcessorsAssumption DEF BootInv, LowMain, Goto, Cpus, tables, timing
  <1>1. BootTypes'
      BY DEF BootTypes, Steps
  <1>2. MainInv'
      BY DEF BootTypes, MainInv, BeforeTimer, BeforePit, BeforeCopy, Waking, AfterRest
  <1>3. ApInv' /\ OffInv'
      BY DEF BootTypes, MainInv, ApInv, OffInv, BeforeTimer, BeforePit, BeforeCopy
  <1>4. PendInv'
      BY DEF BootTypes, MainInv, PendInv, BeforeTimer
  <1>5. CalInv'
      BY CalSame
  <1> QED
      BY <1>1, <1>2, <1>3, <1>4, <1>5

\* The steps of CPU 0 before it starts others that leave the timers alone.
LEMMA ExceptionsInitInv ==
    ASSUME BootInv, ExceptionsInit
    PROVE  BootInv'
  <1> USE BootAssumption DEF BootInv, ExceptionsInit, Goto, Cpus, tables, timing, boot, Install
  <1>1. BootTypes'
      BY DEF BootTypes, Steps
  <1>2. MainInv'
      BY DEF BootTypes, MainInv, BeforeTimer, BeforePit, BeforeCopy, Waking, AfterRest
  <1>3. ApInv' /\ OffInv'
      BY DEF BootTypes, MainInv, ApInv, OffInv, BeforeTimer, BeforePit, BeforeCopy
  <1>4. PendInv'
      BY DEF BootTypes, PendInv
  <1>5. CalInv'
      BY CalSame
  <1> QED
      BY <1>1, <1>2, <1>3, <1>4, <1>5

LEMMA CpuPicInv ==
    ASSUME BootInv, CpuInit \/ PicInit
    PROVE  BootInv'
  <1> USE BootAssumption DEF BootInv
  <1>1. /\ \/ pc[0] = "cpu" /\ pc' = [pc EXCEPT ![0] = "pic"] /\ ifl' = ifl
           \/ pc[0] = "pic" /\ pc' = [pc EXCEPT ![0] = "lapic"] /\ ifl' = ifl \cup {0}
        /\ UNCHANGED <<machine, acpi, kmap, next, allowed, installed, awoken, finished, apic,
                       trampoline, cr3, cal, calibrated, pit, panicked, lost>>
      BY DEF CpuInit, PicInit, Goto, tables, timing, boot
  <1>2. 0 \in Cpus /\ Cpus' = Cpus
      BY <1>1 DEF Cpus, BootTypes
  <1>3. BootTypes'
      BY <1>1, <1>2 DEF BootTypes, Steps
  <1>4. MainInv'
      BY <1>1, <1>2 DEF BootTypes, MainInv, BeforeTimer, BeforePit, BeforeCopy, Waking, AfterRest
  <1>5. ApInv' /\ OffInv'
      BY <1>1, <1>2 DEF BootTypes, MainInv, ApInv, OffInv
  <1>6. PendInv'
      BY <1>1, <1>2 DEF BootTypes, PendInv
  <1>7. CalInv'
      BY <1>1, CalSame
  <1> QED
      BY <1>3, <1>4, <1>5, <1>6, <1>7

LEMMA LapicRestInv ==
    ASSUME BootInv, LapicRest
    PROVE  BootInv'
  <1> USE BootAssumption DEF BootInv, LapicRest, Goto, Cpus, tables, timing, boot, Install
  <1>1. BootTypes'
      BY DEF BootTypes, Steps
  <1>2. MainInv'
      BY DEF BootTypes, MainInv, BeforeTimer, BeforePit, BeforeCopy, Waking, AfterRest, LapicVectors
  <1>3. ApInv' /\ OffInv'
      BY DEF BootTypes, MainInv, ApInv, OffInv, BeforeTimer, BeforePit, BeforeCopy
  <1>4. PendInv'
      BY DEF BootTypes, PendInv
  <1>5. CalInv'
      BY CalSame
  <1> QED
      BY <1>1, <1>2, <1>3, <1>4, <1>5

LEMMA CopyInv ==
    ASSUME BootInv, Copy
    PROVE  BootInv'
  <1> USE BootAssumption DEF BootInv, Copy, Goto, Cpus, tables, timing, boot
  <1>1. BootTypes'
      BY DEF BootTypes, Steps
  <1>2. MainInv'
      BY DEF BootTypes, MainInv, BeforeTimer, BeforePit, BeforeCopy, Waking, AfterRest, PlaceTrampoline
  <1>3. ApInv' /\ OffInv'
      BY SMTT(60) DEF BootTypes, MainInv, ApInv, OffInv, BeforeTimer, BeforePit, BeforeCopy
  <1>4. PendInv'
      BY DEF BootTypes, PendInv
  <1>5. CalInv'
      BY CalSame
  <1> QED
      BY <1>1, <1>2, <1>3, <1>4, <1>5

LEMMA LapicInitInv ==
    ASSUME BootInv, LapicInit
    PROVE  BootInv'
  <1> USE BootAssumption DEF BootInv, LapicInit, Goto, Cpus, tables, timing, boot, Install,
             LapicFirst
  <1>1. BootTypes'
      BY DEF BootTypes, Steps
  <1>2. MainInv'
      BY DEF BootTypes, MainInv, BeforeTimer, BeforePit, BeforeCopy, Waking, AfterRest
  <1>3. ApInv' /\ OffInv'
      BY DEF BootTypes, MainInv, ApInv, OffInv, BeforeTimer, BeforePit, BeforeCopy
  <1>4. PendInv'
      BY DEF BootTypes, PendInv
  <1>5. cal.stage = 0
      BY DEF MainInv, CalInv, BeforeTimer, BeforePit, BootTypes
  <1>6. CalInv'
      BY <1>5 DEF CalInv, BootTypes, TimersSet, SecondMeasured, SlicesAgree, MainInv, BeforeTimer
  <1> QED
      BY <1>1, <1>2, <1>3, <1>4, <1>6

\* Writing TIMER_INITIAL changes no interrupt that waits, and no other CPU.
LEMMA SetTimerFacts ==
    ASSUME BootTypes, machine' = machine, NEW c \in Cpus, NEW initial \in Nat, SetTimer(c, initial)
    PROVE  /\ apic' \in [Cpus -> [on : BOOLEAN, timer : Nat, pend : SUBSET Vectors]]
           /\ \A d \in Cpus : apic'[d].pend = apic[d].pend
           /\ \A d \in Cpus \ {c} : apic'[d] = apic[d]
           /\ apic'[c].on <=> acpi.lapic_base # 0
  <1> DEFINE new == [apic[c] EXCEPT !.on = acpi.lapic_base # 0,
                                    !.timer = IF acpi.lapic_base # 0 THEN initial ELSE 0]
  <1>1. /\ new \in [on : BOOLEAN, timer : Nat, pend : SUBSET Vectors]
        /\ new.pend = apic[c].pend
        /\ new.on <=> acpi.lapic_base # 0
    <2>1. CASE acpi.lapic_base # 0
      <3>1. new = [apic[c] EXCEPT !.on = TRUE, !.timer = initial]
          BY <2>1
      <3>2. apic[c] \in [on : BOOLEAN, timer : Nat, pend : SUBSET Vectors]
          BY DEF BootTypes
      <3> HIDE DEF new
      <3>3. new = [on |-> TRUE, timer |-> initial, pend |-> apic[c].pend]
          BY <3>1, <3>2
      <3> QED
          BY <2>1, <3>2, <3>3
    <2>2. CASE acpi.lapic_base = 0
      <3>1. new = [apic[c] EXCEPT !.on = FALSE, !.timer = 0]
          BY <2>2
      <3>2. apic[c] \in [on : BOOLEAN, timer : Nat, pend : SUBSET Vectors]
          BY DEF BootTypes
      <3> HIDE DEF new
      <3>3. new = [on |-> FALSE, timer |-> 0, pend |-> apic[c].pend]
          BY <3>1, <3>2
      <3> QED
          BY <2>2, <3>2, <3>3
    <2> QED
        BY <2>1, <2>2
  <1>2. apic' = [apic EXCEPT ![c] = new]
      BY DEF SetTimer, BootTypes
  <1> HIDE DEF new
  <1> QED
      BY <1>1, <1>2 DEF BootTypes

\* lapic::init starts the timer of CPU 0, lapic::setup starts it again.
LEMMA LapicTimerInv ==
    ASSUME BootInv, LapicTimer \/ LapicSetup
    PROVE  BootInv'
  <1> USE BootAssumption DEF BootInv
  <1>1. /\ SetTimer(0, CAL_INIT)
        /\ \/ pc[0] = "lapic_timer" /\ pc' = [pc EXCEPT ![0] = "lapic_rest"]
           \/ pc[0] = "lapic_setup" /\ pc' = [pc EXCEPT ![0] = "pit"]
        /\ UNCHANGED <<machine, acpi, kmap, next, ifl, allowed, installed, status, awoken,
                       finished, trampoline, cr3, cal, calibrated, pit, panicked, lost>>
      BY DEF LapicTimer, LapicSetup, Goto, tables, timing, boot
  <1>2. 0 \in Cpus /\ Cpus' = Cpus /\ CAL_INIT \in Nat
      BY <1>1 DEF Cpus, BootTypes, CAL_INIT
  <1>3. /\ apic' \in [Cpus -> [on : BOOLEAN, timer : Nat, pend : SUBSET Vectors]]
        /\ \A c \in Cpus : apic'[c].pend = apic[c].pend
        /\ \A c \in Cpus \ {0} : apic'[c] = apic[c]
        /\ apic'[0].on <=> acpi.lapic_base # 0
      BY <1>1, <1>2, SetTimerFacts
  <1>4. BootTypes'
    <2>1. pc' \in [Cpus -> Steps]
        BY <1>1, <1>2 DEF BootTypes, Steps
    <2> QED
        BY <1>1, <1>2, <1>3, <2>1 DEF BootTypes
  <1>5. MainInv'
      BY <1>1, <1>2, <1>3, SMTT(60) DEF BootTypes, MainInv, BeforeTimer, BeforePit, BeforeCopy, Waking,
                              AfterRest, LapicVectors
  <1>6. ApInv' /\ OffInv'
    <2>1. \A c \in Cpus \ {0} : pc'[c] = pc[c]
        BY <1>1 DEF BootTypes
    <2>2. pc'[0] \notin {"awaken", "await"}
        BY <1>1, <1>2 DEF BootTypes
    <2> QED
        BY <1>1, <1>2, <1>3, <2>1, <2>2 DEF ApInv, OffInv
  <1>7. PendInv'
      BY <1>1, <1>2, <1>3, ZenonT(60) DEF BootTypes, PendInv
  <1>8. cal.stage = 0 /\ calibrated = {}
      BY <1>1 DEF MainInv, CalInv, BeforePit, BeforeTimer, BootTypes
  <1>9. CalInv'
      BY <1>1, <1>2, <1>3, <1>8, CalSame
  <1> QED
      BY <1>4, <1>5, <1>6, <1>7, <1>9

LEMMA PitInitInv ==
    ASSUME BootInv, PitInit
    PROVE  BootInv'
  <1> USE BootAssumption DEF BootInv, PitInit, EnableFunc, Goto, Cpus, tables, timing, boot, Install
  <1>1. BootTypes'
      BY DEF BootTypes, Steps
  <1>2. MainInv'
      BY DEF BootTypes, MainInv, BeforeTimer, BeforePit, BeforeCopy, Waking, AfterRest
  <1>3. ApInv' /\ OffInv'
      BY DEF BootTypes, MainInv, ApInv, OffInv, BeforeTimer, BeforePit, BeforeCopy
  <1>4. PendInv'
      BY DEF BootTypes, PendInv
  <1>5. cal.stage = 0
      BY DEF MainInv, CalInv, BeforePit, BootTypes
  <1>6. CalInv'
      BY <1>5 DEF CalInv, BootTypes, TimersSet, SecondMeasured, SlicesAgree
  <1> QED
      BY <1>1, <1>2, <1>3, <1>4, <1>6

\* _ipi: CPUs whose local APIC is on have one more interrupt, nothing else changes.
LEMMA SendFacts ==
    ASSUME BootTypes, machine' = machine, NEW targets, NEW v \in {"lcommand", "lpanic"},
           SendTo(targets, v)
    PROVE  /\ apic' \in [Cpus -> [on : BOOLEAN, timer : Nat, pend : SUBSET Vectors]]
           /\ \A c \in Cpus :
                 /\ apic'[c].on <=> apic[c].on
                 /\ apic'[c].timer = apic[c].timer
                 /\ apic'[c].pend \in {apic[c].pend, apic[c].pend \cup {v}}
                 /\ ~apic[c].on => apic'[c].pend = apic[c].pend
  <1> DEFINE told(c) == [apic[c] EXCEPT !.pend = @ \cup {v}]
  <1>1. \A c \in Cpus : apic'[c] = apic[c] \/ (apic'[c] = told(c) /\ apic[c].on)
      BY DEF SendTo, Accepts, BootTypes
  <1>2. \A c \in Cpus : apic[c] \in [on : BOOLEAN, timer : Nat, pend : SUBSET Vectors]
      BY DEF BootTypes
  <1>3. \A c \in Cpus :
           /\ told(c) \in [on : BOOLEAN, timer : Nat, pend : SUBSET Vectors]
           /\ told(c).on <=> apic[c].on
           /\ told(c).timer = apic[c].timer
           /\ told(c).pend = apic[c].pend \cup {v}
      BY <1>2 DEF Vectors
  <1>4. apic' = [c \in Cpus |-> apic'[c]]
      BY DEF SendTo, BootTypes
  <1> HIDE DEF told
  <1>5. \A c \in Cpus : apic'[c] \in [on : BOOLEAN, timer : Nat, pend : SUBSET Vectors]
      BY <1>1, <1>2, <1>3
  <1>6. apic' \in [Cpus -> [on : BOOLEAN, timer : Nat, pend : SUBSET Vectors]]
      BY <1>4, <1>5
  <1> QED
      BY <1>1, <1>3, <1>6

\* A step that sends an interrupt and moves CPU 0 between steps that come after lapic::init.
LEMMA PendSent ==
    ASSUME BootInv, machine' = machine, NEW targets, NEW v \in {"lcommand", "lpanic"},
           SendTo(targets, v), UNCHANGED <<acpi, installed, pit, cal, calibrated>>,
           (\E c \in Cpus : apic[c].on) => LapicVectors \subseteq installed
    PROVE  PendInv' /\ CalInv'
  <1> USE BootAssumption DEF BootInv
  <1>1. 0 \in Cpus /\ Cpus' = Cpus
      BY DEF Cpus, BootTypes
  <1>2. \A c \in Cpus : /\ apic'[c].on <=> apic[c].on
                        /\ apic'[c].timer = apic[c].timer
                        /\ apic'[c].pend \in {apic[c].pend, apic[c].pend \cup {v}}
                        /\ ~apic[c].on => apic'[c].pend = apic[c].pend
      BY SendFacts
  <1>3. PendInv'
      BY <1>1, <1>2 DEF PendInv
  <1>4. CalInv'
    <2>1. \A w \in {"iotimer", "ltimer"} : w \in apic'[0].pend <=> w \in apic[0].pend
        BY <1>1, <1>2
    <2>2. calibrated \subseteq Cpus
        BY DEF BootTypes
    <2> QED
        BY <1>1, <1>2, <2>1, <2>2, CalSame
  <1> QED
      BY <1>3, <1>4

\* A CPU panics.
LEMMA PanicInv ==
    ASSUME BootInv, NEW c \in Cpus, panic(c), next' = next,
           UNCHANGED <<boot, tables, trampoline, cr3, timing>>,
           pc[c] \notin {"off", "low", "stopped", "exceptions"},
           (\E d \in Cpus : apic[d].on) => LapicVectors \subseteq installed
    PROVE  BootInv'
  <1> USE BootAssumption DEF BootInv
  <1>1. /\ pc' = [pc EXCEPT ![c] = "halted"]
        /\ ifl' = ifl \ {c}
        /\ SendTo(Indices \ {c}, "lpanic")
        /\ UNCHANGED <<machine, acpi, kmap, next, allowed, installed, status, trampoline, cr3,
                       cal, calibrated, pit>>
      BY DEF panic, boot, tables, timing
  <1>2. 0 \in Cpus /\ Cpus' = Cpus
      BY <1>1 DEF Cpus, BootTypes
  <1>3. /\ apic' \in [Cpus -> [on : BOOLEAN, timer : Nat, pend : SUBSET Vectors]]
        /\ \A d \in Cpus : apic'[d].on <=> apic[d].on
      BY <1>1, SendFacts
  <1>4. BootTypes'
    <2>1. pc' \in [Cpus -> Steps]
        BY <1>1 DEF BootTypes, Steps
    <2>2. ifl' \subseteq Cpus
        BY <1>1 DEF BootTypes
    <2> QED
        BY <1>1, <1>2, <1>3, <2>1, <2>2 DEF BootTypes
  <1>5. MainInv'
      BY <1>1, <1>2, <1>3 DEF BootTypes, MainInv, BeforeTimer, BeforePit, BeforeCopy, Waking, AfterRest
  <1>6. ApInv'
      BY <1>1, <1>2, <1>3 DEF BootTypes, ApInv, ApSteps
  <1>7. OffInv'
      BY <1>1, <1>2, SMTT(60) DEF BootTypes, OffInv
  <1>8. PendInv' /\ CalInv'
      BY <1>1, PendSent
  <1> QED
      BY <1>4, <1>5, <1>6, <1>7, <1>8

LEMMA ExceptionInv ==
    ASSUME BootInv, Exception
    PROVE  BootInv'
  <1> USE BootAssumption DEF BootInv
  <1>1. /\ pc[0] \in {"cpu", "lapic", "thread"} /\ panic(0) /\ next' = next
        /\ UNCHANGED <<boot, tables, trampoline, cr3, timing>>
      BY DEF Exception
  <1>2. (\E d \in Cpus : apic[d].on) => LapicVectors \subseteq installed
      BY <1>1 DEF MainInv, BeforeTimer, AfterRest
  <1>3. 0 \in Cpus
      BY DEF Cpus, BootTypes
  <1> QED
      BY <1>1, <1>2, <1>3, PanicInv

\* The CPU that is woken was off: its id comes once in the table.
LEMMA AwakenInv ==
    ASSUME BootInv, Awaken
    PROVE  BootInv'
  <1> USE BootAssumption DEF BootInv
  <1>0. PICK id : id = acpi.procs[next + 1]
      OBVIOUS
  <1>1. /\ pc[0] = "awaken" /\ next < Len(acpi.procs)
        /\ pc' = [c \in Cpus |-> IF c = 0 THEN "await" ELSE IF c = id THEN "trampoline" ELSE pc[c]]
        /\ UNCHANGED <<machine, acpi, kmap, next, ifl, allowed, installed, status, apic,
                       trampoline, cr3, cal, calibrated, pit>>
      BY <1>0 DEF Awaken, boot, tables, timing, proc_count
  <1>2. 0 \in Cpus /\ Cpus' = Cpus
      BY <1>1 DEF Cpus, BootTypes
  <1>3. next + 1 \in DOMAIN acpi.procs /\ DOMAIN acpi.procs \subseteq Nat
    <2>1. PICK procs \in Seq(Nat) : procs = acpi.procs
        BY DEF BootTypes
    <2>2. DOMAIN procs = 1..Len(procs) /\ Len(procs) \in Nat
        OBVIOUS
    <2>3. next \in Nat
        BY DEF BootTypes
    <2> QED
        BY <1>1, <2>1, <2>2, <2>3
  <1>4. id \in Cpus \ {0} => pc[id] = "off"
      BY <1>0, <1>1, <1>3 DEF OffInv, BootTypes
  <1>5. BootTypes'
      BY <1>1, <1>2 DEF BootTypes, Steps
  <1>6. MainInv'
      BY <1>1, <1>2 DEF BootTypes, MainInv, BeforeTimer, BeforePit, BeforeCopy, Waking, AfterRest
  <1>7. ApInv'
      BY <1>1, <1>2, <1>4 DEF BootTypes, ApInv, ApSteps, MainInv, Waking, AfterRest
  <1>8. OffInv'
    <2> SUFFICES ASSUME NEW k \in DOMAIN acpi.procs, k > next + 1, acpi.procs[k] \in Cpus \ {0}
                 PROVE  pc'[acpi.procs[k]] = "off"
        BY <1>1, <1>2 DEF OffInv
    <2>1. k # next + 1 /\ k > next
        BY <1>3, SMTT(60) DEF BootTypes
    <2>2. acpi.procs[k] # id
        BY <1>0, <1>3, <2>1 DEF BootTypes
    <2>3. pc[acpi.procs[k]] = "off"
        BY <1>1, <2>1 DEF OffInv
    <2> QED
        BY <1>1, <2>2, <2>3
  <1>9. PendInv'
      BY <1>1, <1>2 DEF PendInv
  <1>10. CalInv'
      BY <1>1, CalSame
  <1> QED
      BY <1>5, <1>6, <1>7, <1>8, <1>9, <1>10

LEMMA AwaitInv ==
    ASSUME BootInv, Await
    PROVE  BootInv'
  <1> USE BootAssumption DEF BootInv
  <1>0. 0 \in Cpus
      BY DEF Cpus, BootTypes
  <1>1. CASE panic(0) /\ next' = next
    <2>1. pc[0] = "await" /\ UNCHANGED <<boot, tables, trampoline, cr3, timing>>
        BY DEF Await
    <2>2. LapicVectors \subseteq installed
        BY <2>1 DEF MainInv, AfterRest
    <2> QED
        BY <1>0, <1>1, <2>1, <2>2, PanicInv
  <1>2. CASE ~(panic(0) /\ next' = next)
    <2>1. /\ pc[0] = "await" /\ pc' = [pc EXCEPT ![0] = "awaken"] /\ next' = next + 1
          /\ UNCHANGED <<machine, acpi, kmap, ifl, allowed, installed, status, apic, trampoline,
                         cr3, cal, calibrated, pit>>
        BY <1>2 DEF Await, Goto, boot, tables, timing
    <2>2. Cpus' = Cpus
        BY <2>1 DEF Cpus
    <2>3. BootTypes'
        BY <1>0, <2>1, <2>2 DEF BootTypes, Steps
    <2>4. MainInv'
        BY <1>0, <2>1, <2>2 DEF BootTypes, MainInv, BeforeTimer, BeforePit, BeforeCopy, Waking,
                                AfterRest
    <2>5. ApInv'
        BY <1>0, <2>1, <2>2 DEF BootTypes, ApInv
    <2>6. OffInv'
        BY <1>0, <2>1, <2>2 DEF BootTypes, OffInv
    <2>7. PendInv'
        BY <2>1, <2>2 DEF PendInv
    <2>8. CalInv'
        BY <2>1, CalSame
    <2> QED
        BY <2>3, <2>4, <2>5, <2>6, <2>7, <2>8
  <1> QED
      BY <1>1, <1>2

\* The rest of kernel_main moves CPU 0 on, and its interrupt flag.
LEMMA ThreadInv ==
    ASSUME BootInv, AllAwake \/ NewThread \/ Finish \/ Schedule
    PROVE  BootInv'
  <1> USE BootAssumption DEF BootInv
  <1>0. 0 \in Cpus
      BY DEF Cpus, BootTypes
  <1>1. /\ pc[0] \in {"awaken", "thread", "finish", "command"}
        /\ \E step \in {"thread", "command", "schedule"} : pc' = [pc EXCEPT ![0] = step]
        /\ next' \in Nat
        /\ ifl' \in {ifl, ifl \ {0}, ifl \cup {0}}
        /\ UNCHANGED <<machine, acpi, kmap, allowed, installed, status, apic, trampoline, cr3,
                       cal, calibrated, pit>>
      BY DEF AllAwake, NewThread, Finish, Schedule, Goto, boot, tables, timing, BootTypes
  <1>2. Cpus' = Cpus
      BY <1>1 DEF Cpus
  <1>3. BootTypes'
      BY <1>0, <1>1, <1>2 DEF BootTypes, Steps
  <1>4. MainInv'
      BY <1>0, <1>1, <1>2 DEF BootTypes, MainInv, BeforeTimer, BeforePit, BeforeCopy, Waking,
                              AfterRest
  <1>5. ApInv' /\ OffInv'
      BY <1>0, <1>1, <1>2, SMTT(60) DEF BootTypes, ApInv, OffInv
  <1>6. PendInv'
      BY <1>1, <1>2 DEF PendInv
  <1>7. CalInv'
      BY <1>1, CalSame
  <1> QED
      BY <1>3, <1>4, <1>5, <1>6, <1>7

LEMMA CommandInv ==
    ASSUME BootInv, Command
    PROVE  BootInv'
  <1> USE BootAssumption DEF BootInv
  <1>0. 0 \in Cpus
      BY DEF Cpus, BootTypes
  <1>1. /\ pc[0] = "command" /\ pc' = [pc EXCEPT ![0] = "finish"]
        /\ SendTo({next}, "lcommand")
        /\ UNCHANGED <<machine, acpi, kmap, next, ifl, allowed, installed, status, trampoline,
                       cr3, cal, calibrated, pit>>
      BY DEF Command, Goto, boot, tables, timing
  <1>2. Cpus' = Cpus
      BY <1>1 DEF Cpus
  <1>3. PICK targets : targets = {next}
      OBVIOUS
  <1>4. /\ apic' \in [Cpus -> [on : BOOLEAN, timer : Nat, pend : SUBSET Vectors]]
        /\ \A d \in Cpus : apic'[d].on <=> apic[d].on
      BY <1>1, <1>3, SendFacts
  <1>5. BootTypes'
      BY <1>0, <1>1, <1>2, <1>4 DEF BootTypes, Steps
  <1>6. MainInv'
      BY <1>0, <1>1, <1>2, <1>4 DEF BootTypes, MainInv, BeforeTimer, BeforePit, BeforeCopy, Waking,
                                    AfterRest
  <1>7. ApInv' /\ OffInv'
      BY <1>0, <1>1, <1>2, <1>4 DEF BootTypes, ApInv, OffInv
  <1>8. LapicVectors \subseteq installed
      BY <1>1 DEF MainInv, AfterRest
  <1>9. PendInv' /\ CalInv'
      BY <1>1, <1>3, <1>8, PendSent
  <1> QED
      BY <1>5, <1>6, <1>7, <1>9

-----------------------------------------------------------------------------
(* ap_main                                                                 *)

LEMMA ApInvStep ==
    ASSUME BootInv, NEW c \in Cpus, ApStart(c) \/ ApSti(c) \/ (ApMain(c) /\ ~panic(c))
    PROVE  BootInv'
  <1> USE BootAssumption DEF BootInv
  <1>1. /\ \/ /\ pc[c] = "trampoline" /\ pc' = [pc EXCEPT ![c] = "ap_main"] /\ ifl' = ifl
              /\ cr3' = [cr3 EXCEPT ![c] = trampoline.page_table]
           \/ /\ pc[c] = "ap_main" /\ pc' = [pc EXCEPT ![c] = "ap_lapic"] /\ ifl' = ifl
              /\ cr3' = cr3
           \/ /\ pc[c] = "ap_sti" /\ pc' = [pc EXCEPT ![c] = "schedule"] /\ ifl' = ifl \cup {c}
              /\ cr3' = cr3
        /\ UNCHANGED <<machine, acpi, kmap, next, allowed, installed, status, apic, trampoline,
                       cal, calibrated, pit>>
      BY DEF ApStart, ApSti, ApMain, Goto, boot, tables, timing
  <1>2. 0 \in Cpus /\ Cpus' = Cpus
      BY <1>1 DEF Cpus, BootTypes
  <1>3. c # 0
      BY <1>1 DEF MainInv
  <1>4. BootTypes'
      BY <1>1, <1>2, ZenonT(60) DEF BootTypes, Steps
  <1>5. pc'[0] = pc[0] /\ cr3'[0] = cr3[0] /\ \A d \in Cpus : pc'[d] = "off" <=> pc[d] = "off"
      BY <1>1, <1>2, <1>3 DEF BootTypes
  <1>6. pc[0] \notin BeforeCopy
      BY <1>1, <1>3 DEF MainInv
  <1>7. MainInv'
      BY <1>1, <1>2, <1>5, <1>6 DEF MainInv, BeforeCopy
  <1>8. ApInv'
    <2> SUFFICES ASSUME NEW d \in Cpus \ {0}
                 PROVE  /\ pc'[d] \in ApSteps
                        /\ pc'[d] # "off" => /\ LapicVectors \subseteq installed
                                             /\ trampoline.page_table = kmap.vm_start
                        /\ pc'[d] \in {"ap_main", "ap_lapic", "ap_sti", "schedule"} =>
                              cr3'[d] = kmap.vm_start
                        /\ pc'[d] = "off" => ~apic[d].on
                        /\ d \in ifl' \cup calibrated =>
                              pc'[d] \in {"schedule", "halted"}
        BY <1>1, <1>2 DEF ApInv
    <2>1. CASE d # c
        BY <1>1, <2>1 DEF BootTypes, ApInv
    <2>2. CASE d = c
        BY <1>1, <2>2, SMTT(60) DEF BootTypes, ApInv, ApSteps
    <2> QED
        BY <2>1, <2>2
  <1>9. OffInv'
      BY <1>1, <1>2, <1>5 DEF OffInv
  <1>10. PendInv'
      BY <1>1, <1>2 DEF PendInv
  <1>11. CalInv'
      BY <1>1, CalSame
  <1> QED
      BY <1>4, <1>7, <1>8, <1>9, <1>10, <1>11

LEMMA ApMainInv ==
    ASSUME BootInv, NEW c \in Cpus, ApMain(c)
    PROVE  BootInv'
  <1>1. CASE ~panic(c)
      BY <1>1, ApInvStep
  <1>2. CASE panic(c)
    <2> USE DEF BootInv
    <2>1. /\ pc[c] = "ap_main" /\ next' = next
          /\ UNCHANGED <<boot, tables, trampoline, cr3, timing>>
        BY DEF ApMain
    <2>2. LapicVectors \subseteq installed
        BY <2>1 DEF MainInv, ApInv
    <2> QED
        BY <1>2, <2>1, <2>2, PanicInv
  <1> QED
      BY <1>1, <1>2

LEMMA ApLapicInv ==
    ASSUME BootInv, NEW c \in Cpus, ApLapic(c)
    PROVE  BootInv'
  <1> USE BootAssumption DEF BootInv
  <1>1. /\ pc[c] = "ap_lapic" /\ pc' = [pc EXCEPT ![c] = "ap_sti"]
        /\ SetTimer(c, CAL_INIT)
        /\ UNCHANGED <<machine, acpi, kmap, next, ifl, allowed, installed, status, trampoline,
                       cr3, cal, calibrated, pit>>
      BY DEF ApLapic, Goto, boot, tables, timing
  <1>2. 0 \in Cpus /\ Cpus' = Cpus /\ CAL_INIT \in Nat
      BY <1>1 DEF Cpus, BootTypes, CAL_INIT
  <1>3. c # 0 /\ c \notin calibrated
      BY <1>1 DEF MainInv, ApInv
  <1>4. /\ apic' \in [Cpus -> [on : BOOLEAN, timer : Nat, pend : SUBSET Vectors]]
        /\ \A d \in Cpus : apic'[d].pend = apic[d].pend
        /\ \A d \in Cpus \ {c} : apic'[d] = apic[d]
        /\ apic'[c].on <=> acpi.lapic_base # 0
      BY <1>1, <1>2, SetTimerFacts
  <1>5. BootTypes'
      BY <1>1, <1>2, <1>4 DEF BootTypes, Steps
  <1>6. pc'[0] = pc[0] /\ pc[0] \notin BeforeCopy
      BY <1>1, <1>2, <1>3 DEF BootTypes, MainInv
  <1>7. MainInv'
      BY <1>1, <1>2, <1>3, <1>4, <1>6 DEF MainInv, BeforeCopy, BeforePit
  <1>8. ApInv'
      BY <1>1, <1>2, <1>3, <1>4, SMTT(60) DEF BootTypes, ApInv, ApSteps
  <1>9. OffInv'
      BY <1>1, <1>2, <1>3 DEF BootTypes, OffInv
  <1>10. PendInv'
      BY <1>1, <1>2, <1>3, <1>4 DEF PendInv
  <1>11. CalInv'
    <2>1. calibrated \subseteq Cpus \ {c}
        BY <1>3 DEF BootTypes
    <2> QED
        BY <1>1, <1>2, <1>3, <1>4, <2>1, CalSame
  <1> QED
      BY <1>5, <1>7, <1>8, <1>9, <1>10, <1>11

-----------------------------------------------------------------------------
(* Interrupts                                                              *)

\* A local APIC gets or gives up an interrupt, and its timer may be set.
LEMMA ApicFacts ==
    ASSUME BootTypes, NEW c \in Cpus, NEW p \in SUBSET Vectors, NEW t \in Nat,
           apic' = [apic EXCEPT ![c].pend = p, ![c].timer = t]
    PROVE  /\ apic' \in [Cpus -> [on : BOOLEAN, timer : Nat, pend : SUBSET Vectors]]
           /\ \A d \in Cpus \ {c} : apic'[d] = apic[d]
           /\ \A d \in Cpus : apic'[d].on <=> apic[d].on
           /\ apic'[c].timer = t /\ apic'[c].pend = p
  <1>1. apic[c] \in [on : BOOLEAN, timer : Nat, pend : SUBSET Vectors]
      BY DEF BootTypes
  <1> DEFINE new == [apic[c] EXCEPT !.pend = p, !.timer = t]
  <1>2. /\ new \in [on : BOOLEAN, timer : Nat, pend : SUBSET Vectors]
        /\ new.on <=> apic[c].on
        /\ new.timer = t /\ new.pend = p
      BY <1>1
  <1>3. apic' = [apic EXCEPT ![c] = new]
      BY DEF BootTypes
  <1> HIDE DEF new
  <1>4. apic'[c] = new /\ \A d \in Cpus \ {c} : apic'[d] = apic[d]
      BY <1>3 DEF BootTypes
  <1>5. apic' \in [Cpus -> [on : BOOLEAN, timer : Nat, pend : SUBSET Vectors]]
      BY <1>2, <1>3 DEF BootTypes
  <1> QED
      BY <1>2, <1>4, <1>5

LEMMA PendFacts ==
    ASSUME BootTypes, NEW c \in Cpus, NEW p \in SUBSET Vectors,
           apic' = [apic EXCEPT ![c].pend = p]
    PROVE  /\ apic' \in [Cpus -> [on : BOOLEAN, timer : Nat, pend : SUBSET Vectors]]
           /\ \A d \in Cpus \ {c} : apic'[d] = apic[d]
           /\ \A d \in Cpus : (apic'[d].on <=> apic[d].on) /\ apic'[d].timer = apic[d].timer
           /\ apic'[c].pend = p
  <1>1. apic[c] \in [on : BOOLEAN, timer : Nat, pend : SUBSET Vectors]
      BY DEF BootTypes
  <1> DEFINE new == [apic[c] EXCEPT !.pend = p]
  <1>2. /\ new \in [on : BOOLEAN, timer : Nat, pend : SUBSET Vectors]
        /\ new.on <=> apic[c].on
        /\ new.timer = apic[c].timer /\ new.pend = p
      BY <1>1
  <1>3. apic' = [apic EXCEPT ![c] = new]
      BY DEF BootTypes
  <1> HIDE DEF new
  <1> QED
      BY <1>2, <1>3, ZenonT(60) DEF BootTypes

\* The code of every CPU is where it was.
LEMMA InterruptFrame ==
    ASSUME BootInv,
           UNCHANGED <<machine, acpi, kmap, pc, next, ifl, installed, trampoline, cr3>>,
           apic' \in [Cpus -> [on : BOOLEAN, timer : Nat, pend : SUBSET Vectors]],
           \A c \in Cpus : apic'[c].on <=> apic[c].on,
           cal' \in [stage : 0..2, deadline : Nat, ticks : Nat, per_sec : Nat, span : Nat],
           pit' \in [time : Nat, on : BOOLEAN, since : 0..Rate], pit'.on <=> pit.on,
           calibrated' \subseteq calibrated \cup (ifl \ {0})
    PROVE  BootTypes' /\ MainInv' /\ ApInv' /\ OffInv'
  <1> USE BootAssumption DEF BootInv
  <1>1. 0 \in Cpus /\ Cpus' = Cpus
      BY DEF Cpus, BootTypes
  <1>2. BootTypes'
      BY <1>1 DEF BootTypes
  <1>3. MainInv'
      BY <1>1 DEF MainInv
  <1>4. ApInv'
      BY <1>1 DEF ApInv
  <1>5. OffInv'
      BY <1>1 DEF OffInv
  <1> QED
      BY <1>2, <1>3, <1>4, <1>5

LEMMA TickInv ==
    ASSUME BootInv, NEW c \in Cpus, Tick(c)
    PROVE  BootInv'
  <1> USE BootAssumption DEF BootInv
  <1>1. /\ apic[c].on /\ (c = 0 /\ cal.stage < 2 => pit.since < Rate)
        /\ apic' = [apic EXCEPT ![c].pend = apic[c].pend \cup {"ltimer"}]
        /\ UNCHANGED <<machine, acpi, kmap, pc, next, ifl, installed, trampoline, cr3, cal,
                       calibrated, pit>>
      BY DEF Tick, boot, tables, timing
  <1>2. 0 \in Cpus /\ Cpus' = Cpus
      BY <1>1 DEF Cpus, BootTypes
  <1>3. PICK p \in SUBSET Vectors : p = apic[c].pend \cup {"ltimer"}
      BY DEF BootTypes, Vectors
  <1>4. /\ apic' \in [Cpus -> [on : BOOLEAN, timer : Nat, pend : SUBSET Vectors]]
        /\ \A d \in Cpus \ {c} : apic'[d] = apic[d]
        /\ \A d \in Cpus : (apic'[d].on <=> apic[d].on) /\ apic'[d].timer = apic[d].timer
        /\ apic'[c].pend = p
      BY <1>1, <1>3, PendFacts
  <1>5. BootTypes' /\ MainInv' /\ ApInv' /\ OffInv'
      BY <1>1, <1>4, InterruptFrame DEF BootTypes
  <1>6. PendInv'
      BY <1>1, <1>2, <1>3, <1>4 DEF PendInv
  <1>7. CalInv'
    <2>1. \A d \in calibrated : apic'[d].timer = apic[d].timer
        BY <1>4 DEF BootTypes
    <2>2. (apic'[0].on <=> apic[0].on) /\ apic'[0].timer = apic[0].timer
        BY <1>2, <1>4
    <2>3. "iotimer" \in apic'[0].pend <=> "iotimer" \in apic[0].pend
        BY <1>2, <1>3, <1>4
    <2>4. Periods' = Periods
        BY <1>1, <2>3 DEF Periods
    <2>5. TimersSet'
        BY <1>1, <2>1, <2>2 DEF CalInv, TimersSet, SecondMeasured, SlicesAgree, Slice
    <2>6. cal.stage < 2 /\ "ltimer" \in apic'[0].pend => pit.since < Rate
        BY <1>1, <1>2, <1>4 DEF CalInv
    <2> QED
        BY <1>1, <2>3, <2>4, <2>5, <2>6 DEF CalInv
  <1> QED
      BY <1>5, <1>6, <1>7

\* The bound on the ticks of a period, one period later.
LEMMA OnePeriodMore == \A n, r \in Nat : (n + 1) * r = n * r + r
  OBVIOUS

\* A new period of the PIT begins.
LEMMA PitTickInv ==
    ASSUME BootInv, PitTick
    PROVE  BootInv'
  <1> USE BootAssumption DEF BootInv
  <1>1. /\ pit.on /\ apic[0].on /\ cal.stage < 2 /\ pit.since > 0
        /\ apic' = [apic EXCEPT ![0].pend = apic[0].pend \cup {"iotimer"}]
        /\ pit' = [pit EXCEPT !.since = 0]
        /\ UNCHANGED <<machine, acpi, kmap, pc, next, ifl, installed, trampoline, cr3, cal,
                       calibrated>>
      BY DEF PitTick, Accepts, boot, tables, timing
  <1>2. 0 \in Cpus /\ Cpus' = Cpus
      BY <1>1 DEF Cpus, BootTypes
  <1>3. PICK p \in SUBSET Vectors : p = apic[0].pend \cup {"iotimer"}
      BY <1>2 DEF BootTypes, Vectors
  <1>4. /\ apic' \in [Cpus -> [on : BOOLEAN, timer : Nat, pend : SUBSET Vectors]]
        /\ \A d \in Cpus \ {0} : apic'[d] = apic[d]
        /\ \A d \in Cpus : (apic'[d].on <=> apic[d].on) /\ apic'[d].timer = apic[d].timer
        /\ apic'[0].pend = p
      BY <1>1, <1>2, <1>3, PendFacts
  <1>5. /\ pit' \in [time : Nat, on : BOOLEAN, since : 0..Rate]
        /\ pit'.time = pit.time /\ pit'.since = 0 /\ (pit'.on <=> pit.on)
    <2>1. pit \in [time : Nat, on : BOOLEAN, since : 0..Rate] /\ 0 \in 0..Rate
        BY DEF BootTypes
    <2> QED
        BY <1>1, <2>1
  <1>6. BootTypes' /\ MainInv' /\ ApInv' /\ OffInv'
      BY <1>1, <1>2, <1>4, <1>5, InterruptFrame DEF BootTypes
  <1>7. PendInv'
      BY <1>1, <1>2, <1>3, <1>4, <1>5 DEF PendInv
  <1>8. CalInv'
    <2>1. "iotimer" \notin apic[0].pend /\ "iotimer" \in apic'[0].pend
        BY <1>1, <1>3, <1>4 DEF CalInv
    <2>2. /\ cal.stage \in 0..2 /\ cal.deadline \in Nat /\ cal.span \in Nat /\ cal.ticks \in Nat
          /\ pit.time \in Nat /\ pit.since \in 0..Rate
        BY DEF BootTypes
    <2>3. cal.stage = 1 =>
             /\ Periods \in Nat /\ Periods' = Periods + 1
             /\ Periods + 1 <= PER_SECOND + 2
             /\ cal.ticks <= Periods * Rate + Rate
             /\ cal.ticks >= Periods + 1
      <3> SUFFICES ASSUME cal.stage = 1
                   PROVE  /\ Periods \in Nat /\ Periods' = Periods + 1
                          /\ Periods + 1 <= PER_SECOND + 2
                          /\ cal.ticks <= Periods * Rate + Rate
                          /\ cal.ticks >= Periods + 1
          OBVIOUS
      <3>1. Periods = pit.time - cal.span /\ Periods' = pit.time - cal.span + 1
          BY <1>1, <1>5, <2>1, <2>2 DEF Periods
      <3>2. /\ cal.span <= pit.time /\ cal.deadline = cal.span + PER_SECOND + 1
            /\ Periods <= PER_SECOND + 2 /\ pit.time # cal.deadline + 1
            /\ cal.ticks <= Periods * Rate + pit.since
            /\ cal.ticks >= Periods + 1
          BY <1>1, <2>2 DEF CalInv
      <3>3. Periods \in Nat /\ Periods' = Periods + 1 /\ Periods # PER_SECOND + 2
          BY <2>2, <3>1, <3>2
      <3>4. PICK n \in Nat : n = Periods * Rate
          BY <3>3
      <3> HIDE DEF BootInv
      <3> QED
          BY <2>2, <3>2, <3>3, <3>4
    <2>4. cal.stage = 1 => cal.ticks <= Periods' * Rate
        BY <2>3, OnePeriodMore
    <2>5. TimersSet'
        BY <1>1 DEF TimersSet, SecondMeasured, SlicesAgree, CalInv
    <2> QED
        BY <1>1, <1>5, <2>1, <2>2, <2>3, <2>4, <2>5 DEF CalInv
  <1> QED
      BY <1>6, <1>7, <1>8

\* The PIT's interrupt is taken: a period that waited is counted.
LEMMA PitInterruptInv ==
    ASSUME BootInv, PitInterrupt
    PROVE  BootInv'
  <1> USE BootAssumption DEF BootInv
  <1>1. /\ "iotimer" \in apic[0].pend
        /\ pit' = IF cal.stage < 2 THEN [pit EXCEPT !.time = pit.time + 1] ELSE pit
        /\ apic' = [apic EXCEPT ![0].pend = apic[0].pend \ {"iotimer"}]
        /\ UNCHANGED <<machine, acpi, kmap, pc, next, ifl, installed, trampoline, cr3, cal,
                       calibrated>>
      BY DEF PitInterrupt, Taken, boot, tables, timing
  <1>2. 0 \in Cpus /\ Cpus' = Cpus
      BY <1>1 DEF Cpus, BootTypes
  <1>3. PICK p \in SUBSET Vectors : p = apic[0].pend \ {"iotimer"}
      BY <1>2 DEF BootTypes
  <1>4. /\ apic' \in [Cpus -> [on : BOOLEAN, timer : Nat, pend : SUBSET Vectors]]
        /\ \A d \in Cpus \ {0} : apic'[d] = apic[d]
        /\ \A d \in Cpus : (apic'[d].on <=> apic[d].on) /\ apic'[d].timer = apic[d].timer
        /\ apic'[0].pend = p
      BY <1>1, <1>2, <1>3, PendFacts
  <1>5. /\ pit' \in [time : Nat, on : BOOLEAN, since : 0..Rate]
        /\ pit'.since = pit.since /\ (pit'.on <=> pit.on)
        /\ cal.stage < 2 => pit'.time = pit.time + 1
        /\ ~(cal.stage < 2) => pit'.time = pit.time
    <2>1. pit \in [time : Nat, on : BOOLEAN, since : 0..Rate] /\ pit.time + 1 \in Nat
        BY DEF BootTypes
    <2>2. CASE cal.stage < 2
        BY <1>1, <2>1, <2>2
    <2>3. CASE ~(cal.stage < 2)
        BY <1>1, <2>1, <2>3
    <2> QED
        BY <2>2, <2>3
  <1>6. BootTypes' /\ MainInv' /\ ApInv' /\ OffInv'
      BY <1>1, <1>2, <1>4, <1>5, InterruptFrame DEF BootTypes
  <1>7. PendInv'
      BY <1>1, <1>2, <1>3, <1>4, <1>5 DEF PendInv
  <1>8. CalInv'
    <2>1. /\ cal.stage \in 0..2 /\ cal.span \in Nat /\ pit.time \in Nat
          /\ calibrated \subseteq Cpus
        BY DEF BootTypes
    <2>2. cal.stage < 2 => Periods' = Periods
        BY <1>1, <1>3, <1>4, <1>5, <2>1 DEF Periods
    <2>3. cal.stage < 2 => pit'.since = 0
        BY <1>1, <1>5 DEF CalInv
    <2>4. TimersSet'
        BY <1>1, <1>2, <1>4, <2>1 DEF CalInv, TimersSet, SecondMeasured, SlicesAgree, Slice
    <2>5. pit.on
        BY <1>1, <1>2 DEF PendInv
    <2>6. "ltimer" \in apic'[0].pend => "ltimer" \in apic[0].pend
        BY <1>3, <1>4
    <2> QED
        BY <1>1, <1>3, <1>4, <1>5, <2>1, <2>2, <2>3, <2>4, <2>5, <2>6 DEF CalInv
  <1> QED
      BY <1>6, <1>7, <1>8

LEMMA HandleCommandInv ==
    ASSUME BootInv, NEW c \in Cpus, handle_command(c)
    PROVE  BootInv'
  <1> USE BootAssumption DEF BootInv
  <1>1. /\ apic' = [apic EXCEPT ![c].pend = apic[c].pend \ {"lcommand"}]
        /\ UNCHANGED <<machine, acpi, kmap, pc, next, ifl, installed, trampoline, cr3, cal,
                       calibrated, pit>>
      BY DEF handle_command, boot, tables, timing
  <1>2. 0 \in Cpus /\ Cpus' = Cpus
      BY <1>1 DEF Cpus, BootTypes
  <1>3. PICK p \in SUBSET Vectors : p = apic[c].pend \ {"lcommand"}
      BY DEF BootTypes
  <1>4. /\ apic' \in [Cpus -> [on : BOOLEAN, timer : Nat, pend : SUBSET Vectors]]
        /\ \A d \in Cpus \ {c} : apic'[d] = apic[d]
        /\ \A d \in Cpus : (apic'[d].on <=> apic[d].on) /\ apic'[d].timer = apic[d].timer
        /\ apic'[c].pend = p
      BY <1>1, <1>3, PendFacts
  <1>5. BootTypes' /\ MainInv' /\ ApInv' /\ OffInv'
      BY <1>1, <1>4, InterruptFrame DEF BootTypes
  <1>6. PendInv'
      BY <1>1, <1>2, <1>3, <1>4 DEF PendInv
  <1>7. CalInv'
    <2>1. \A v \in {"iotimer", "ltimer"} : v \in apic'[0].pend <=> v \in apic[0].pend
        BY <1>2, <1>3, <1>4
    <2>2. calibrated \subseteq Cpus
        BY DEF BootTypes
    <2> QED
        BY <1>1, <1>2, <1>4, <2>1, <2>2, CalSame
  <1> QED
      BY <1>5, <1>6, <1>7

LEMMA HandlePanicInv ==
    ASSUME BootInv, NEW c \in Cpus, handle_panic(c)
    PROVE  BootInv'
  <1> USE BootAssumption DEF BootInv
  <1>1. /\ c \in ifl /\ "lpanic" \in apic[c].pend
        /\ apic' = [apic EXCEPT ![c].pend = apic[c].pend \ {"lpanic"}]
        /\ pc' = [pc EXCEPT ![c] = "halted"]
        /\ ifl' = ifl \ {c}
        /\ UNCHANGED <<machine, acpi, kmap, next, installed, trampoline, cr3, cal,
                       calibrated, pit>>
      BY DEF handle_panic, Taken, boot, tables, timing
  <1>2. 0 \in Cpus /\ Cpus' = Cpus
      BY <1>1 DEF Cpus, BootTypes
  <1>3. PICK p \in SUBSET Vectors : p = apic[c].pend \ {"lpanic"}
      BY DEF BootTypes
  <1>4. /\ apic' \in [Cpus -> [on : BOOLEAN, timer : Nat, pend : SUBSET Vectors]]
        /\ \A d \in Cpus \ {c} : apic'[d] = apic[d]
        /\ \A d \in Cpus : (apic'[d].on <=> apic[d].on) /\ apic'[d].timer = apic[d].timer
        /\ apic'[c].pend = p
      BY <1>1, <1>3, PendFacts
  <1>5. pc' \in [Cpus -> Steps] /\ pc'[c] = "halted" /\ \A d \in Cpus \ {c} : pc'[d] = pc[d]
      BY <1>1 DEF BootTypes, Steps
  <1>6. BootTypes'
    <2>1. ifl' \subseteq Cpus
        BY <1>1 DEF BootTypes
    <2> QED
        BY <1>1, <1>2, <1>4, <1>5, <2>1 DEF BootTypes
  <1>7. MainInv'
    <2>1. CASE c = 0
        BY <1>1, <1>2, <1>4, <1>5, <2>1 DEF MainInv, BeforeTimer, BeforePit, BeforeCopy, AfterRest,
                                            Waking, PendInv, BootTypes
    <2>2. CASE c # 0
      <3>1. pc[0] \notin BeforeCopy
          BY <1>1, <2>2 DEF MainInv, ApInv
      <3> QED
          BY <1>1, <1>2, <1>4, <1>5, <2>2, <3>1 DEF MainInv, BeforeCopy, BeforePit
    <2> QED
        BY <2>1, <2>2
  <1>8. ApInv'
    <2>1. c # 0 => pc[c] # "off"
        BY <1>1 DEF ApInv
    <2> QED
        BY <1>1, <1>2, <1>4, <1>5, <2>1 DEF ApInv, ApSteps
  <1>9. OffInv'
      BY <1>1, <1>2, <1>5 DEF OffInv, ApInv
  <1>10. PendInv'
      BY <1>1, <1>2, <1>3, <1>4 DEF PendInv
  <1>11. CalInv'
    <2>1. \A v \in {"iotimer", "ltimer"} : v \in apic'[0].pend <=> v \in apic[0].pend
        BY <1>2, <1>3, <1>4
    <2>2. calibrated \subseteq Cpus
        BY DEF BootTypes
    <2> QED
        BY <1>1, <1>2, <1>4, <2>1, <2>2, CalSame
  <1> QED
      BY <1>6, <1>7, <1>8, <1>9, <1>10, <1>11

\* timer on a CPU other than 0: the slice is taken over once it is known.
LEMMA OtherTimerInv ==
    ASSUME BootInv, NEW c \in Cpus \ {0}, Timer(c)
    PROVE  BootInv'
  <1> USE BootAssumption DEF BootInv
  <1>1. PICK t : t = IF c \notin calibrated /\ cal.per_sec # 0 THEN Slice(cal.per_sec)
                     ELSE apic[c].timer
      OBVIOUS
  <1>2. /\ c \in ifl
        /\ apic' = [apic EXCEPT ![c].pend = apic[c].pend \ {"ltimer"}, ![c].timer = t]
        /\ calibrated' = IF cal.per_sec # 0 THEN calibrated \cup {c} ELSE calibrated
        /\ UNCHANGED <<machine, acpi, kmap, pc, next, ifl, installed, trampoline, cr3, cal, pit>>
      BY <1>1 DEF Timer, TimerAfter, Taken, boot, tables
  <1>3. 0 \in Cpus /\ Cpus' = Cpus
      BY <1>2 DEF Cpus, BootTypes
  <1>4. t \in Nat
    <2>1. cal.per_sec \in Nat /\ apic[c].timer \in Nat
        BY DEF BootTypes
    <2>2. Slice(cal.per_sec) \in Nat
        BY <2>1, SliceType
    <2> QED
        BY <1>1, <2>1, <2>2
  <1>5. PICK p \in SUBSET Vectors : p = apic[c].pend \ {"ltimer"}
      BY DEF BootTypes
  <1>6. /\ apic' \in [Cpus -> [on : BOOLEAN, timer : Nat, pend : SUBSET Vectors]]
        /\ \A d \in Cpus \ {c} : apic'[d] = apic[d]
        /\ \A d \in Cpus : apic'[d].on <=> apic[d].on
        /\ apic'[c].timer = t /\ apic'[c].pend = p
    <2>1. apic' = [apic EXCEPT ![c].pend = p, ![c].timer = t] /\ c \in Cpus
        BY <1>2, <1>5
    <2> QED
        BY <1>4, <2>1, ApicFacts
  <1>7. BootTypes' /\ MainInv' /\ ApInv' /\ OffInv'
    <2>1. calibrated' \subseteq calibrated \cup (ifl \ {0})
        BY <1>2
    <2> QED
        BY <1>2, <1>6, <2>1, InterruptFrame DEF BootTypes
  <1>8. PendInv'
      BY <1>2, <1>3, <1>5, <1>6 DEF PendInv
  <1>9. CalInv'
    <2>1. apic'[0] = apic[0] /\ calibrated \subseteq Cpus
        BY <1>3, <1>6 DEF BootTypes
    <2>2. CASE cal.per_sec = 0
      <3>1. \A d \in calibrated : apic'[d].timer = apic[d].timer
          BY <1>1, <1>6, <2>1, <2>2
      <3> QED
          BY <1>2, <2>1, <2>2, <3>1, CalSame
    <2>3. CASE cal.per_sec # 0
      <3>1. cal.stage = 2
          BY <2>3 DEF CalInv, BootTypes
      <3>2. \A d \in calibrated' : apic'[d].timer = Slice(cal.per_sec)
          BY <1>1, <1>2, <1>6, <2>1, <2>3 DEF CalInv, TimersSet, SlicesAgree
      <3>3. TimersSet'
          BY <1>2, <2>1, <3>2 DEF CalInv, TimersSet, SecondMeasured, SlicesAgree, Slice
      <3> QED
          BY <1>2, <2>1, <3>1, <3>3 DEF CalInv
    <2> QED
        BY <2>2, <2>3
  <1> QED
      BY <1>7, <1>8, <1>9

\* A second and two periods were counted, of at most Rate ticks each.
LEMMA SecondCounted ==
    ASSUME NEW n \in Nat, n >= PER_SECOND + 2, n <= (PER_SECOND + 2) * Rate
    PROVE  /\ n * CAL_INIT * CAL_DIV >= PER_SECOND * CAL_INIT * CAL_DIV
           /\ n * CAL_INIT * CAL_DIV <= (PER_SECOND + 3) * Rate * CAL_INIT * CAL_DIV
           /\ n * CAL_INIT * CAL_DIV \in Nat \ {0}
  <1> USE BootAssumption
  <1>1. (PER_SECOND + 3) * Rate = (PER_SECOND + 2) * Rate + Rate
      BY OnePeriodMore
  <1>2. PICK m \in Nat : m = (PER_SECOND + 3) * Rate
      OBVIOUS
  <1>3. (PER_SECOND + 2) * Rate \in Nat
      OBVIOUS
  <1>4. n <= m
      BY <1>1, <1>2, <1>3
  <1> QED
      BY <1>2, <1>4 DEF CAL_INIT, CAL_DIV

\* timer on CPU 0: the three stages of the calibration.
LEMMA BootTimerInv ==
    ASSUME BootInv, Timer(0)
    PROVE  BootInv'
  <1> USE BootAssumption DEF BootInv
  <1>1. /\ "ltimer" \in apic[0].pend
        /\ apic' = [apic EXCEPT ![0].pend = apic[0].pend \ {"ltimer"}, ![0].timer = TimerAfter(0)]
        /\ cal' = Calibrate
        /\ pit' = IF cal.stage < 2 /\ pit.since < Rate THEN [pit EXCEPT !.since = pit.since + 1]
                  ELSE pit
        /\ UNCHANGED <<machine, acpi, kmap, pc, next, ifl, installed, trampoline, cr3, calibrated>>
      BY DEF Timer, Taken, boot, tables
  <1>2. "iotimer" \notin apic[0].pend
    <2>1. PICK i \in DOMAIN Priority :
             Priority[i] = "ltimer" /\ \A j \in 1..(i - 1) : Priority[j] \notin apic[0].pend
        BY DEF Timer, Taken
    <2> QED
        BY <2>1 DEF Priority
  <1>3. 0 \in Cpus /\ Cpus' = Cpus
      BY <1>1 DEF Cpus, BootTypes
  <1>4. /\ cal.stage \in 0..2 /\ cal.deadline \in Nat /\ cal.span \in Nat /\ cal.ticks \in Nat
        /\ cal.per_sec \in Nat
        /\ pit.time \in Nat /\ pit.since \in 0..Rate
        /\ apic[0].timer \in Nat /\ apic[0].pend \in SUBSET Vectors
      BY <1>3 DEF BootTypes
  <1>5. /\ pit' \in [time : Nat, on : BOOLEAN, since : 0..Rate]
        /\ pit'.time = pit.time /\ (pit'.on <=> pit.on)
        /\ cal.stage < 2 => pit.since < Rate /\ pit'.since = pit.since + 1
    <2>1. pit \in [time : Nat, on : BOOLEAN, since : 0..Rate]
        BY DEF BootTypes
    <2>2. CASE cal.stage < 2
      <3>1. pit.since < Rate /\ pit.since + 1 \in 0..Rate
          BY <1>1, <1>4, <2>2 DEF CalInv
      <3> QED
          BY <1>1, <2>1, <2>2, <3>1
    <2>3. CASE ~(cal.stage < 2)
        BY <1>1, <2>1, <2>3
    <2> QED
        BY <2>2, <2>3
  <1>6. ASSUME cal' \in [stage : 0..2, deadline : Nat, ticks : Nat, per_sec : Nat, span : Nat],
               NEW t \in Nat, t = TimerAfter(0)
        PROVE  /\ BootTypes' /\ MainInv' /\ ApInv' /\ OffInv' /\ PendInv'
               /\ apic'[0].on <=> apic[0].on
               /\ apic'[0].timer = t
               /\ "iotimer" \notin apic'[0].pend /\ "ltimer" \notin apic'[0].pend
               /\ \A d \in Cpus \ {0} : apic'[d] = apic[d]
    <2>1. PICK p \in SUBSET Vectors : p = apic[0].pend \ {"ltimer"}
        BY <1>4
    <2>2. /\ apic' \in [Cpus -> [on : BOOLEAN, timer : Nat, pend : SUBSET Vectors]]
          /\ \A d \in Cpus \ {0} : apic'[d] = apic[d]
          /\ \A d \in Cpus : apic'[d].on <=> apic[d].on
          /\ apic'[0].timer = t /\ apic'[0].pend = p
      <3>1. apic' = [apic EXCEPT ![0].pend = p, ![0].timer = t]
          BY <1>1, <1>6, <2>1
      <3> QED
          BY <1>3, <3>1, ApicFacts
    <2>3. BootTypes' /\ MainInv' /\ ApInv' /\ OffInv'
        BY <1>1, <1>5, <1>6, <2>2, InterruptFrame
    <2>4. PendInv'
        BY <1>1, <1>3, <1>5, <2>1, <2>2 DEF PendInv
    <2> QED
        BY <1>2, <1>3, <2>1, <2>2, <2>3, <2>4
  <1>7. cal \in [stage : 0..2, deadline : Nat, ticks : Nat, per_sec : Nat, span : Nat]
      BY DEF BootTypes
  <1>8. CASE cal.stage = 0 /\ cal.deadline < pit.time
    <2>1. cal' = [stage |-> 1, deadline |-> pit.time + PER_SECOND + 1, ticks |-> 1,
                  per_sec |-> cal.per_sec, span |-> pit.time]
        BY <1>1, <1>7, <1>8 DEF Calibrate
    <2>2. apic[0].timer = TimerAfter(0)
        BY <1>1, <1>8 DEF TimerAfter
    <2>3. cal' \in [stage : 0..2, deadline : Nat, ticks : Nat, per_sec : Nat, span : Nat]
        BY <1>4, <2>1
    <2>4. /\ BootTypes' /\ MainInv' /\ ApInv' /\ OffInv' /\ PendInv'
          /\ "iotimer" \notin apic'[0].pend /\ "ltimer" \notin apic'[0].pend
        BY <1>4, <1>6, <2>2, <2>3
    <2>5. CalInv'
      <3>1. /\ cal'.stage = 1 /\ cal'.deadline = pit.time + PER_SECOND + 1 /\ cal'.ticks = 1
            /\ cal'.per_sec = cal.per_sec /\ cal'.span = pit.time
          BY <2>1
      <3>2. Periods' = 0 /\ Periods' * Rate = 0
          BY <1>4, <1>5, <2>4, <3>1 DEF Periods
      <3>3. pit.on /\ cal.per_sec = 0 /\ calibrated = {}
          BY <1>4, <1>8 DEF CalInv
      <3>4. TimersSet'
          BY <1>1, <3>1, <3>3 DEF TimersSet, SecondMeasured, SlicesAgree
      <3> QED
          BY <1>1, <1>4, <1>5, <1>8, <2>4, <3>1, <3>2, <3>3, <3>4 DEF CalInv
    <2> QED
        BY <2>4, <2>5
  <1>9. CASE cal.stage = 1 /\ cal.deadline < pit.time
    <2>1. cal' = [stage |-> 2, deadline |-> cal.deadline, ticks |-> 0,
                  per_sec |-> cal.ticks * CAL_INIT * CAL_DIV, span |-> pit.time - cal.span]
      <3>1. PICK n, m : n = cal.ticks * CAL_INIT * CAL_DIV /\ m = pit.time - cal.span
          OBVIOUS
      <3>2. cal' = [cal EXCEPT !.stage = 2, !.per_sec = n, !.ticks = 0, !.span = m]
          BY <1>1, <1>9, <3>1 DEF Calibrate
      <3> QED
          BY <1>7, <3>1, <3>2
    <2>2. /\ Periods = pit.time - cal.span
          /\ cal.span <= pit.time /\ cal.deadline = cal.span + PER_SECOND + 1
          /\ Periods <= PER_SECOND + 2
          /\ pit.time = cal.deadline + 1 => pit.since = 0
          /\ cal.ticks <= Periods * Rate + pit.since
          /\ cal.ticks >= Periods + (IF pit.since > 0 THEN 1 ELSE 0)
        BY <1>2, <1>4, <1>9 DEF CalInv, Periods
    <2>3. Periods = PER_SECOND + 2 /\ pit.since = 0
      <3>1. /\ cal.deadline = cal.span + PER_SECOND + 1 /\ cal.deadline < pit.time
            /\ pit.time - cal.span <= PER_SECOND + 2
          BY <1>9, <2>2
      <3>2. pit.time = cal.deadline + 1
          BY <1>4, <3>1
      <3> QED
          BY <1>4, <2>2, <3>1, <3>2
    <2>4. cal.ticks >= PER_SECOND + 2 /\ cal.ticks <= (PER_SECOND + 2) * Rate
        BY <1>4, <2>2, <2>3
    <2>5. PICK n \in Nat \ {0} :
             /\ n = cal.ticks * CAL_INIT * CAL_DIV
             /\ n >= PER_SECOND * CAL_INIT * CAL_DIV
             /\ n <= (PER_SECOND + 3) * Rate * CAL_INIT * CAL_DIV
        BY <1>4, <2>4, SecondCounted
    <2>6. Slice(n) \in Nat /\ Slice(n) = TimerAfter(0)
      <3>1. Calibrate.stage = 2 /\ Calibrate.per_sec = n
          BY <1>1, <2>1, <2>5
      <3> QED
          BY <1>9, <2>5, <3>1, SliceType DEF TimerAfter
    <2>7. /\ cal' \in [stage : 0..2, deadline : Nat, ticks : Nat, per_sec : Nat, span : Nat]
          /\ cal'.stage = 2 /\ cal'.per_sec = n /\ cal'.span = PER_SECOND + 2
        BY <1>4, <2>1, <2>2, <2>3, <2>5
    <2>8. /\ BootTypes' /\ MainInv' /\ ApInv' /\ OffInv' /\ PendInv'
          /\ apic'[0].timer = Slice(n)
        BY <1>6, <2>6, <2>7
    <2>9. pit.on /\ calibrated = {}
        BY <1>9 DEF CalInv
    <2>10. TimersSet'
        BY <1>1, <2>5, <2>7, <2>8, <2>9 DEF TimersSet, SecondMeasured, SlicesAgree
    <2> QED
        BY <1>5, <2>7, <2>8, <2>9, <2>10 DEF CalInv
  <1>10. CASE cal.stage = 1 /\ ~(cal.deadline < pit.time)
    <2>1. cal' = [stage |-> 1, deadline |-> cal.deadline, ticks |-> cal.ticks + 1,
                  per_sec |-> cal.per_sec, span |-> cal.span]
        BY <1>1, <1>7, <1>10 DEF Calibrate
    <2>2. apic[0].timer = TimerAfter(0)
        BY <1>1, <1>10, <2>1 DEF TimerAfter
    <2>3. cal' \in [stage : 0..2, deadline : Nat, ticks : Nat, per_sec : Nat, span : Nat]
        BY <1>4, <2>1
    <2>4. /\ BootTypes' /\ MainInv' /\ ApInv' /\ OffInv' /\ PendInv'
          /\ "iotimer" \notin apic'[0].pend /\ "ltimer" \notin apic'[0].pend
        BY <1>4, <1>6, <2>2, <2>3
    <2>5. CalInv'
      <3>1. /\ cal'.stage = 1 /\ cal'.deadline = cal.deadline /\ cal'.ticks = cal.ticks + 1
            /\ cal'.per_sec = cal.per_sec /\ cal'.span = cal.span
          BY <2>1
      <3>2. Periods' = Periods /\ Periods \in Int
          BY <1>2, <1>4, <1>5, <2>4, <3>1 DEF Periods
      <3>3. /\ pit.on /\ cal.per_sec = 0 /\ calibrated = {}
            /\ cal.deadline = cal.span + PER_SECOND + 1
            /\ cal.span <= pit.time /\ Periods <= PER_SECOND + 2
            /\ cal.ticks <= Periods * Rate + pit.since
            /\ cal.ticks >= Periods + (IF pit.since > 0 THEN 1 ELSE 0)
          BY <1>4, <1>10 DEF CalInv
      <3>4. TimersSet'
          BY <1>1, <3>1, <3>3 DEF TimersSet, SecondMeasured, SlicesAgree
      <3>5. PICK m \in Int : m = Periods * Rate
          BY <3>2
      <3>6. cal'.ticks <= Periods' * Rate + pit'.since
          BY <1>4, <1>5, <1>10, <3>1, <3>2, <3>3, <3>5
      <3>7. cal'.ticks >= Periods' + 1
          BY <1>4, <3>1, <3>2, <3>3
      <3> QED
          BY <1>1, <1>4, <1>5, <1>10, <2>4, <3>1, <3>2, <3>3, <3>4, <3>6, <3>7 DEF CalInv
    <2> QED
        BY <2>4, <2>5
  <1>11. CASE cal.stage = 2 \/ (cal.stage = 0 /\ ~(cal.deadline < pit.time))
    <2>1. cal' = cal
        BY <1>1, <1>7, <1>11 DEF Calibrate
    <2>2. apic[0].timer = TimerAfter(0)
        BY <1>11 DEF TimerAfter
    <2>3. /\ BootTypes' /\ MainInv' /\ ApInv' /\ OffInv' /\ PendInv'
          /\ apic'[0].on <=> apic[0].on
          /\ apic'[0].timer = apic[0].timer
          /\ "iotimer" \notin apic'[0].pend /\ "ltimer" \notin apic'[0].pend
          /\ \A d \in Cpus \ {0} : apic'[d] = apic[d]
        BY <1>4, <1>6, <1>7, <2>1, <2>2
    <2>4. calibrated \subseteq Cpus \ {0}
        BY DEF BootTypes
    <2>5. TimersSet'
        BY <1>1, <2>1, <2>3, <2>4, ZenonT(60) DEF CalInv, TimersSet, SecondMeasured, SlicesAgree, Slice
    <2> QED
        BY <1>1, <1>5, <1>11, <2>1, <2>3, <2>5 DEF CalInv
  <1> QED
      BY <1>4, <1>8, <1>9, <1>10, <1>11

-----------------------------------------------------------------------------
(* The invariant                                                           *)

LEMMA BootNextInv == BootInv /\ [Next]_vars => BootInv'
  <1> SUFFICES ASSUME BootInv, [Next]_vars PROVE BootInv'
      OBVIOUS
  <1>1. CASE Main
      BY <1>1, LowMainInv, ExceptionsInitInv, CpuPicInv, LapicInitInv, LapicTimerInv,
         LapicRestInv, PitInitInv, CopyInv, AwakenInv, AwaitInv, ThreadInv, CommandInv DEF Main
  <1>2. CASE Exception \/ PitTick
      BY <1>2, ExceptionInv, PitTickInv
  <1>3. ASSUME NEW c \in Cpus, Ap(c)
        PROVE  BootInv'
      BY <1>3, ApInvStep, ApMainInv, ApLapicInv DEF Ap
  <1>4. ASSUME NEW c \in Cpus, Tick(c)
        PROVE  BootInv'
      BY <1>4, TickInv
  <1>5. ASSUME NEW c \in Cpus, Interrupt(c)
        PROVE  BootInv'
    <2>1. CASE Timer(c)
        BY <2>1, OtherTimerInv, BootTimerInv
    <2>2. CASE handle_command(c) \/ handle_panic(c) \/ PitInterrupt
        BY <2>2, HandleCommandInv, HandlePanicInv, PitInterruptInv
    <2> QED
        BY <1>5, <2>1, <2>2 DEF Interrupt
  <1>6. CASE UNCHANGED vars
    <2> USE DEF BootInv
    <2>1. UNCHANGED <<machine, acpi, kmap, pc, next, ifl, installed, apic, trampoline, cr3, cal,
                      calibrated, pit>>
        BY <1>6 DEF vars, boot, tables, timing
    <2>2. Cpus' = Cpus
        BY <2>1 DEF Cpus
    <2>3. BootTypes'
        BY <2>1, <2>2 DEF BootTypes
    <2>4. MainInv' /\ ApInv' /\ OffInv' /\ PendInv'
        BY <2>1, <2>2 DEF MainInv, ApInv, OffInv, PendInv
    <2>5. CalInv'
        BY <2>1, CalSame
    <2> QED
        BY <2>3, <2>4, <2>5
  <1> QED
      BY <1>1, <1>2, <1>3, <1>4, <1>5, <1>6 DEF Next

\* Whatever the machine, its CPUs and its timers: CPU 0 has done what its step implies,
\* the others find the tables and the directory they need, those not yet woken are off,
\* and the ticks counted and the periods of the PIT bound each other (main.cpp:81-200,
\* lapic.cpp:60-175).
THEOREM BootInvariant == Spec => []BootInv
  BY BootInitInv, BootNextInv, PTL DEF Spec

\* No CPU gets an interrupt whose IDT entry is not present (lapic.cpp:82, pit.cpp:27).
THEOREM InterruptsHandled == Spec => []HandlersReady
  <1>1. BootInv => HandlersReady
    <2> SUFFICES ASSUME BootInv, NEW c \in ifl, NEW v \in apic[c].pend PROVE v \in installed
        BY DEF HandlersReady
    <2> USE BootAssumption DEF BootInv
    <2>1. c \in Cpus /\ 0 \in Cpus /\ v \in Vectors
        BY DEF BootTypes, Cpus
    <2>2. CASE v \in {"lcommand", "lpanic"}
        BY <2>1, <2>2 DEF PendInv, LapicVectors
    <2>3. CASE v = "iotimer"
        BY <2>1, <2>3 DEF PendInv, MainInv
    <2>4. CASE v = "ltimer"
      <3>1. apic[c].on
          BY <2>1 DEF PendInv
      <3>2. CASE c = 0
          BY <2>4, <3>1, <3>2 DEF MainInv
      <3>3. CASE c # 0
          BY <2>1, <2>4, <3>3 DEF ApInv, LapicVectors
      <3> QED
          BY <3>2, <3>3
    <2> QED
        BY <2>1, <2>2, <2>3, <2>4 DEF Vectors
  <1> QED
      BY <1>1, BootInvariant, PTL

\* Every CPU that runs the kernel runs on its directory (lapic.cpp:163).
THEOREM DirectoryLoaded == Spec => []KernelDirectory
  <1>1. BootInv => KernelDirectory
    <2> SUFFICES ASSUME BootInv, NEW c \in Cpus,
                        pc[c] \in {"ap_main", "ap_lapic", "ap_sti", "schedule"}
                 PROVE  cr3[c] = kmap.vm_start
        BY DEF KernelDirectory
    <2>1. CASE c = 0
        BY <2>1 DEF BootInv, MainInv
    <2>2. CASE c # 0
        BY <2>2 DEF BootInv, ApInv
    <2> QED
        BY <2>1, <2>2
  <1> QED
      BY <1>1, BootInvariant, PTL

\* Whatever the rates of the timers, the slice comes from a second that was measured to
\* within two periods, and is the same on all CPUs (lapic.cpp:105-142).
THEOREM TimersMeasured == Spec => []TimersSet
  <1>1. BootInv => TimersSet
      BY DEF BootInv, CalInv
  <1> QED
      BY <1>1, BootInvariant, PTL

-----------------------------------------------------------------------------
(* The layout of the first page tables                                     *)

\* A set of numbers has a least member.
LEMMA LeastNumber ==
    ASSUME NEW T \in SUBSET Nat, T # {}
    PROVE  \E x \in T : \A y \in T : x <= y
  <1> DEFINE R == OpToRel(<, Nat)
  <1>1. IsWellFoundedOn(R, Nat)
      BY NatLessThanWellFounded
  <1>2. \A x, y \in Nat : x < y => <<x, y>> \in R
      BY DEF OpToRel
  <1> HIDE DEF R
  <1>3. PICK x \in T : \A y \in T : ~(<<y, x>> \in R)
      BY <1>1, WFMin
  <1>4. ASSUME NEW y \in T PROVE x <= y
    <2>1. x \in Nat /\ y \in Nat
        OBVIOUS
    <2>2. ~(y < x)
        BY <1>2, <1>3, <2>1, Zenon
    <2> QED
        BY <2>1, <2>2
  <1> QED
      BY <1>4

\* Finitely many numbers have a bound: there is no shortest list without one.
LEMMA ListBounded ==
    ASSUME NEW n \in Nat, NEW f \in [1..n -> Nat]
    PROVE  \E b \in Nat : \A i \in 1..n : f[i] <= b
  <1> DEFINE Bounded(k) == \A g \in [1..k -> Nat] : \E b \in Nat : \A i \in 1..k : g[i] <= b
             Wrong == {k \in Nat : ~Bounded(k)}
  <1>1. SUFFICES ASSUME Wrong # {} PROVE FALSE
    <2>1. Wrong = {} => Bounded(n)
        OBVIOUS
    <2> QED
        BY <2>1
  <1>2. PICK k \in Wrong : \A j \in Wrong : k <= j
    <2> HIDE DEF Wrong
    <2>1. Wrong \in SUBSET Nat
        BY DEF Wrong
    <2> QED
        BY <1>1, <2>1, LeastNumber
  <1>0. k \in Nat /\ ~Bounded(k)
      OBVIOUS
  <1>3. PICK g \in [1..k -> Nat] : ~\E b \in Nat : \A i \in 1..k : g[i] <= b
      BY <1>0
  <1>4. k # 0
      BY <1>3
  <1>5. k - 1 \in Nat /\ Bounded(k - 1)
    <2>1. k - 1 \in Nat /\ ~(k <= k - 1)
        BY <1>0, <1>4
    <2>2. k - 1 \notin Wrong
        BY <1>2, <2>1
    <2> QED
        BY <2>1, <2>2
  <1> HIDE DEF Wrong
  <1>6. [i \in 1..(k - 1) |-> g[i]] \in [1..(k - 1) -> Nat]
    <2>1. \A i \in 1..(k - 1) : i \in 1..k
        BY <1>0, <1>5
    <2>2. \A i \in 1..(k - 1) : g[i] \in Nat
        BY <2>1
    <2> QED
        BY <2>2
  <1>7. PICK b \in Nat : \A i \in 1..(k - 1) : [j \in 1..(k - 1) |-> g[j]][i] <= b
      BY <1>5, <1>6
  <1>8. \A i \in 1..(k - 1) : g[i] <= b
      BY <1>7
  <1>9. g[k] \in Nat
      BY <1>0, <1>4
  <1>10. PICK c \in Nat : c >= b /\ c >= g[k]
    <2>1. CASE b >= g[k]
        BY <2>1
    <2>2. CASE ~(b >= g[k])
        BY <1>9, <2>2
    <2> QED
        BY <2>1, <2>2
  <1>11. \A i \in 1..k : g[i] <= c
    <2> SUFFICES ASSUME NEW i \in 1..k PROVE g[i] <= c
        OBVIOUS
    <2>1. i = k \/ i \in 1..(k - 1)
        BY <1>0
    <2>2. CASE i = k
        BY <1>10, <2>2, <1>9
    <2>3. CASE i \in 1..(k - 1)
      <3>1. g[i] <= b /\ g[i] \in Nat
          BY <1>8, <2>3
      <3> QED
          BY <1>10, <3>1
    <2> QED
        BY <2>1, <2>2, <2>3
  <1> QED
      BY <1>3, <1>11

\* The last end of a section.
LEMMA MaxEnd ==
    ASSUME NEW S \in SUBSET (Nat \X Nat), IsFiniteSet(S), S # {}
    PROVE  LET ends == {s[1] + s[2] : s \in S}
           IN Max(ends) \in Nat /\ \A s \in S : s[1] + s[2] <= Max(ends)
  <1> DEFINE ends == {s[1] + s[2] : s \in S}
  <1>1. PICK seq \in Seq(S) : \A s \in S : \E i \in 1..Len(seq) : seq[i] = s
      BY DEF IsFiniteSet
  <1>2. \A s \in S : s[1] + s[2] \in Nat
      OBVIOUS
  <1>3. PICK n \in Nat : n = Len(seq)
      OBVIOUS
  <1>4. \A i \in 1..n : seq[i] \in S
      BY <1>3
  <1>5. [i \in 1..n |-> seq[i][1] + seq[i][2]] \in [1..n -> Nat]
      BY <1>2, <1>4
  <1>6. PICK b \in Nat : \A i \in 1..n : [j \in 1..n |-> seq[j][1] + seq[j][2]][i] <= b
      BY <1>3, <1>5, ListBounded
  <1>7. \A s \in S : s[1] + s[2] <= b
      BY <1>1, <1>3, <1>6
  <1>8. ends \in SUBSET Nat /\ ends # {} /\ \A e \in ends : e <= b
      BY <1>2, <1>7
  <1> DEFINE upper == {u \in Nat : \A e \in ends : e <= u}
  <1> HIDE DEF ends
  <1>9. upper \in SUBSET Nat /\ upper # {}
      BY <1>8
  <1>10. PICK top \in upper : \A u \in upper : top <= u
      BY <1>9, LeastNumber
  <1>11. top \in ends
    <2>1. SUFFICES ASSUME top \notin ends PROVE FALSE
        OBVIOUS
    <2>2. \A e \in ends : e \in Nat /\ e < top
        BY <1>8, <2>1
    <2>3. PICK e0 \in ends : e0 \in Nat /\ e0 < top
        BY <1>8, <2>2
    <2>4. top - 1 \in Nat /\ top - 1 < top
        BY <2>3
    <2>5. \A e \in ends : e <= top - 1
        BY <2>2
    <2>6. top - 1 \in upper
        BY <2>4, <2>5
    <2> QED
        BY <1>10, <2>4, <2>6
  <1>12. \A e \in ends : top >= e
      BY <1>8
  <1>13. Max(ends) \in ends /\ \A e \in ends : Max(ends) >= e
      BY <1>11, <1>12 DEF Max
  <1>14. Max(ends) \in Nat /\ \A e \in ends : e <= Max(ends)
      BY <1>8, <1>13
  <1> QED
      BY <1>14 DEF ends

\* The least of the starts.
LEMMA MinStart ==
    ASSUME NEW S \in SUBSET (Nat \X Nat), S # {}
    PROVE  LET starts == {s[1] : s \in S}
           IN Min(starts) \in Nat /\ \A s \in S : Min(starts) <= s[1]
  <1> DEFINE starts == {s[1] : s \in S}
  <1>1. starts \in SUBSET Nat /\ starts # {}
      OBVIOUS
  <1> HIDE DEF starts
  <1>2. PICK x \in starts : \A y \in starts : x <= y
      BY <1>1, LeastNumber
  <1>3. Min(starts) \in starts /\ \A y \in starts : Min(starts) <= y
      BY <1>2 DEF Min
  <1>4. Min(starts) \in Nat
      BY <1>1, <1>3
  <1> QED
      BY <1>3, <1>4 DEF starts

\* Rounding up ends at a page boundary, less than a page and more than nothing behind.
LEMMA RoundUpFacts ==
    ASSUME NEW addr \in Nat
    PROVE  /\ \E k \in Nat : RoundUp(addr) = k * PAGE_SIZE
           /\ RoundUp(addr) > addr
           /\ \A k \in Nat : k * PAGE_SIZE < addr + PAGE_SIZE => k * PAGE_SIZE <= RoundUp(addr)
  <1> USE LowBootAssumption
  <1>1. PICK d \in Nat : d = addr \div PAGE_SIZE
      OBVIOUS
  <1>2. addr % PAGE_SIZE \in 0..(PAGE_SIZE - 1) /\ addr = PAGE_SIZE * d + (addr % PAGE_SIZE)
      BY <1>1
  <1>3. RoundUp(addr) = (d + 1) * PAGE_SIZE
    <2>1. (d + 1) * PAGE_SIZE = PAGE_SIZE * d + PAGE_SIZE
        OBVIOUS
    <2>2. PICK r \in Nat : r = addr % PAGE_SIZE
        BY <1>2
    <2>3. PICK m \in Nat : m = PAGE_SIZE * d
        OBVIOUS
    <2> QED
        BY <1>2, <2>1, <2>2, <2>3 DEF RoundUp
  <1>4. \A k \in Nat : k * PAGE_SIZE < addr + PAGE_SIZE => k * PAGE_SIZE <= RoundUp(addr)
    <2> SUFFICES ASSUME NEW k \in Nat, k * PAGE_SIZE < addr + PAGE_SIZE, k > d + 1
                 PROVE  FALSE
        BY <1>3
    <2>1. k * PAGE_SIZE >= (d + 2) * PAGE_SIZE
        OBVIOUS
    <2>2. (d + 2) * PAGE_SIZE = PAGE_SIZE * d + PAGE_SIZE + PAGE_SIZE
        OBVIOUS
    <2> QED
        BY <1>2, <2>1, <2>2
  <1>5. RoundUp(addr) > addr
      BY <1>2 DEF RoundUp
  <1> QED
      BY <1>3, <1>4, <1>5

\* The tables lie behind the kernel and what was loaded, at a page boundary.
LEMMA KernelMapFacts ==
    ASSUME NEW m \in Machines
    PROVE  /\ KernelMap(m).ro_end = m.ro_end /\ KernelMap(m).rw_start = m.ro_end
           /\ KernelMap(m).rw_end = m.rw_end
           /\ KernelMap(m).ro_start \in Nat /\ KernelMap(m).ro_start <= m.ro_end
           /\ m.rw_end <= KernelMap(m).vm_start
           /\ \A s \in m.sections : s[1] + s[2] <= KernelMap(m).vm_start
           /\ \E k \in Nat : KernelMap(m).vm_start = k * PAGE_SIZE
           /\ KernelMap(m).vm_end = KernelMap(m).vm_start + VM_TABLES * PAGE_SIZE
  <1> USE LowBootAssumption
  <1>1. /\ m.ro_start \in Nat /\ m.ro_end \in Nat /\ m.rw_end \in Nat
        /\ m.ro_start <= m.ro_end /\ m.rw_end % PAGE_SIZE = 0
        /\ m.sections \in SUBSET (Nat \X Nat) /\ IsFiniteSet(m.sections)
        /\ m.sections # {} => \E s \in m.sections : s[1] <= m.ro_end
        /\ m.sections # {} => \E s \in m.sections : s[1] + s[2] > m.rw_end - PAGE_SIZE
      BY LayoutAssumption
  <1>2. PICK e \in Nat : m.rw_end = e * PAGE_SIZE
    <2>1. PICK e \in Nat : e = m.rw_end \div PAGE_SIZE
        BY <1>1
    <2>2. m.rw_end = PAGE_SIZE * e
        BY <1>1, <2>1
    <2>3. PAGE_SIZE * e = e * PAGE_SIZE
        OBVIOUS
    <2> QED
        BY <2>2, <2>3
  <1>3. CASE m.sections = {}
      BY <1>1, <1>2, <1>3 DEF KernelMap
  <1>4. CASE m.sections # {}
    <2>1. PICK top : top = Max({s[1] + s[2] : s \in m.sections})
        OBVIOUS
    <2>2. top \in Nat /\ \A s \in m.sections : s[1] + s[2] <= top
        BY <1>1, <1>4, <2>1, MaxEnd
    <2>3. KernelMap(m).vm_start = RoundUp(top)
        BY <1>4, <2>1 DEF KernelMap
    <2>4. PICK k \in Nat : RoundUp(top) = k * PAGE_SIZE
        BY <2>2, RoundUpFacts
    <2>5. RoundUp(top) > top
        BY <2>2, RoundUpFacts
    <2>6. PICK z \in m.sections : z[1] + z[2] > m.rw_end - PAGE_SIZE
        BY <1>1, <1>4
    <2>7. m.rw_end < top + PAGE_SIZE
      <3>1. z[1] + z[2] \in Nat
          BY <1>1
      <3> QED
          BY <1>1, <2>2, <2>6, <3>1
    <2>8. m.rw_end <= RoundUp(top)
        BY <1>2, <2>2, <2>7, RoundUpFacts
    <2>9. \A x \in m.sections : x[1] + x[2] <= RoundUp(top)
      <3> SUFFICES ASSUME NEW x \in m.sections PROVE x[1] + x[2] <= RoundUp(top)
          OBVIOUS
      <3>1. x[1] + x[2] \in Nat /\ x[1] + x[2] <= top
          BY <1>1, <2>2
      <3>2. RoundUp(top) \in Nat
          BY <2>4
      <3> QED
          BY <2>2, <2>5, <3>1, <3>2
    <2>10. PICK low : low = Min({s[1] : s \in m.sections})
        OBVIOUS
    <2>11. low \in Nat /\ \A s \in m.sections : low <= s[1]
        BY <1>1, <1>4, <2>10, MinStart
    <2>12. KernelMap(m).ro_start = low
        BY <1>4, <2>10 DEF KernelMap
    <2>13. low <= m.ro_end
      <3>1. PICK s \in m.sections : s[1] <= m.ro_end
          BY <1>1, <1>4
      <3>2. s[1] \in Nat /\ low <= s[1]
          BY <1>1, <2>11
      <3> QED
          BY <1>1, <2>11, <3>1, <3>2
    <2> QED
        BY <2>3, <2>4, <2>8, <2>9, <2>11, <2>12, <2>13 DEF KernelMap
  <1> QED
      BY <1>3, <1>4

\* A multiple of the page size counts whole pages.
LEMMA WholePages ==
    ASSUME NEW end \in Nat, end % PAGE_SIZE = 0
    PROVE  end = (end \div PAGE_SIZE) * PAGE_SIZE /\ end \div PAGE_SIZE \in Nat
  <1> USE LowBootAssumption
  <1>1. PICK d \in Nat : d = end \div PAGE_SIZE
      OBVIOUS
  <1>2. end = PAGE_SIZE * d
      BY <1>1
  <1>3. PAGE_SIZE * d = d * PAGE_SIZE
      OBVIOUS
  <1> QED
      BY <1>1, <1>2, <1>3

\* A page at a boundary is the page that starts there.
LEMMA PageAt ==
    ASSUME NEW page \in Nat, NEW k \in Nat
    PROVE  \/ page * PAGE_SIZE + PAGE_SIZE <= k * PAGE_SIZE
           \/ page * PAGE_SIZE = k * PAGE_SIZE
           \/ page * PAGE_SIZE >= k * PAGE_SIZE + PAGE_SIZE
  <1> USE LowBootAssumption
  <1>1. page + 1 <= k => page * PAGE_SIZE + PAGE_SIZE <= k * PAGE_SIZE
      OBVIOUS
  <1>2. page >= k + 1 => page * PAGE_SIZE >= k * PAGE_SIZE + PAGE_SIZE
      OBVIOUS
  <1> QED
      BY <1>1, <1>2

\* The first page tables are what the comment of low_kernel_main asks for in all but two
\* pages, the first of .data and the one behind the tables, and lie behind what was loaded,
\* for every layout linker.ld can give and all sections a boot loader may report
\* (lomain.cpp:107-155).
THEOREM KernelPagesMapped == Spec => []KernelMapped
  <1>1. ASSUME BootInv PROVE KernelMapped
    <2> USE LowBootAssumption DEF BootInv
    <2>1. machine \in Machines
        BY <1>1 DEF BootTypes
    <2>2. PICK map : map = KernelMap(machine)
        OBVIOUS
    <2>3. PICK k \in Nat : map.vm_start = k * PAGE_SIZE
        BY <2>1, <2>2, KernelMapFacts
    <2>4. /\ map.ro_end = machine.ro_end /\ map.rw_start = machine.ro_end
          /\ map.rw_end = machine.rw_end
          /\ map.ro_start \in Nat /\ map.ro_start <= machine.ro_end
          /\ map.rw_end <= map.vm_start
          /\ \A s \in machine.sections : s[1] + s[2] <= map.vm_start
          /\ map.vm_end = map.vm_start + VM_TABLES * PAGE_SIZE
        BY <2>1, <2>2, KernelMapFacts
    <2>5. /\ machine.ro_end \in Nat /\ machine.rw_end \in Nat
          /\ machine.ro_end <= machine.rw_end /\ machine.ro_end % PAGE_SIZE = 0
        BY <2>1, LayoutAssumption
    <2>6. PICK v \in Nat : v = k + VM_TABLES
        OBVIOUS
    <2>7. map.vm_end = v * PAGE_SIZE
      <3>1. (k + VM_TABLES) * PAGE_SIZE = k * PAGE_SIZE + VM_TABLES * PAGE_SIZE
          OBVIOUS
      <3> QED
          BY <2>3, <2>4, <2>6, <3>1
    <2>8. /\ map.vm_start \in Nat /\ map.vm_end \in Nat
          /\ map.vm_start + PAGE_SIZE <= map.vm_end
      <3>1. k * PAGE_SIZE \in Nat /\ VM_TABLES * PAGE_SIZE >= PAGE_SIZE
          OBVIOUS
      <3>2. VM_TABLES * PAGE_SIZE \in Nat
          OBVIOUS
      <3> QED
          BY <2>3, <2>4, <3>1, <3>2
    <2>9. PICK r \in Nat : map.ro_end = r * PAGE_SIZE
      <3>1. PICK end \in Nat : end = map.ro_end /\ end % PAGE_SIZE = 0
          BY <2>4, <2>5
      <3>2. end = (end \div PAGE_SIZE) * PAGE_SIZE /\ end \div PAGE_SIZE \in Nat
          BY <3>1, WholePages
      <3> QED
          BY <3>1, <3>2
    <2>10. ASSUME NEW addr \in KernelPages(map)
           PROVE  PageEntry(map, addr) = IF addr = map.ro_end THEN {"present"}
                                         ELSE IF addr = map.vm_end THEN {"present", "rw"}
                                         ELSE Asked(map, addr)
      <3>1. PICK page \in Nat : addr = page * PAGE_SIZE
        <4>1. \A page \in 0..((map.vm_end \div PAGE_SIZE) + 2) : page \in Nat
            OBVIOUS
        <4> QED
            BY <2>10, <4>1 DEF KernelPages
      <3>2. addr \in Nat
          BY <3>1
      <3>3. \/ addr + PAGE_SIZE <= map.ro_end \/ addr = map.ro_end
            \/ addr >= map.ro_end + PAGE_SIZE
          BY <2>9, <3>1, PageAt
      <3>4. \/ addr + PAGE_SIZE <= map.vm_end \/ addr = map.vm_end
            \/ addr >= map.vm_end + PAGE_SIZE
          BY <2>7, <3>1, PageAt
      <3>5. /\ map.ro_end \in Nat /\ map.rw_start = map.ro_end
            /\ map.ro_end + PAGE_SIZE <= map.vm_end /\ map.vm_end \in Nat
            /\ map.ro_start \in Nat /\ map.ro_start <= map.ro_end
          BY <2>4, <2>5, <2>8
      <3>6. PageEntry(map, addr) =
               IF addr >= map.ro_start /\ addr < map.ro_end + PAGE_SIZE THEN {"present"}
               ELSE IF addr >= map.ro_end /\ addr < map.vm_end + PAGE_SIZE
               THEN {"present", "rw"} ELSE {}
          BY <3>5 DEF PageEntry
      <3>7. Asked(map, addr) =
               IF addr >= map.ro_start /\ addr < map.ro_end THEN {"present"}
               ELSE IF addr >= map.ro_end /\ addr < map.vm_end THEN {"present", "rw"} ELSE {}
          BY <3>2, <3>5 DEF Asked
      <3> QED
          BY <3>2, <3>3, <3>4, <3>5, <3>6, <3>7
    <2> QED
        BY <2>2, <2>4, <2>10 DEF KernelMapped
  <1> QED
      BY <1>1, BootInvariant, PTL
=============================================================================
