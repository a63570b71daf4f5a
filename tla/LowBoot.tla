------------------------------ MODULE LowBoot -------------------------------
(***************************************************************************)
(* What runs once, before paging: the search for the ACPI tables           *)
(* (src/hw/loacpi.cpp) and the layout of the kernel map and of the first   *)
(* page tables (src/main/lomain.cpp).  Operators on what the firmware and  *)
(* the boot loader left in memory.                                         *)
(***************************************************************************)
EXTENDS Integers, Sequences, SequencesExt, FiniteSetsExt

CONSTANTS
    MADT_COPY,  \* entries of procs, ioapics and isos, and of cpu_status
    PAGE_SIZE,  \* in the unit of the addresses of a layout
    VM_TABLES   \* pages of the directory and its page tables

ASSUME LowBootAssumption ==
    /\ MADT_COPY \in Nat \ {0}
    /\ PAGE_SIZE \in Nat \ {0}
    /\ VM_TABLES \in Nat \ {0}

RSDP_SIG_A == 541348690
RSDP_SIG_B == 542266448
MADT_SIG == "APIC"

-----------------------------------------------------------------------------
(* acpi::low_setup.  A paragraph of 16 bytes is given by its first two words. *)

MatchEbda(par) == par[1] = RSDP_SIG_A /\ par[1] + 1 = RSDP_SIG_B

MatchBios(par) == par[1] = RSDP_SIG_A /\ par[2] = RSDP_SIG_B

RsdpFound(fw) ==
    (\E p \in ToSet(fw.ebda) : MatchEbda(p)) \/ (\E p \in ToSet(fw.bios) : MatchBios(p))

OfType(madt, type) == SelectSeq(madt.entries, LAMBDA e : e.type = type)

\* A MADT without processors, I/O APICs or overrides ends in low_error.
MadtComplete(madt) == \A type \in {"PROC", "IOAPIC", "ISO"} : OfType(madt, type) # <<>>

\* The APIC ids of the processors, in the order of the table; the other two arrays are
\* not read again.
ProcsOf(madt) == [i \in DOMAIN OfType(madt, "PROC") |-> OfType(madt, "PROC")[i].apic_id]

\* Every MADT found is copied over the one before.  Without an RSDP the counts are set
\* for one processor, the base of the local APIC stays 0 and the kernel goes on.
low_setup(fw) ==
    LET madts == SelectSeq(fw.tables, LAMBDA t : t.signature = MADT_SIG)
    IN CASE ~RsdpFound(fw) ->
                [outcome |-> "not found", procs |-> <<0>>, lapic_base |-> 0]
         [] RsdpFound(fw) /\ (madts = <<>> \/ \E i \in DOMAIN madts : ~MadtComplete(madts[i])) ->
                [outcome |-> "low_error", procs |-> <<>>, lapic_base |-> 0]
         [] OTHER -> [outcome |-> "found", procs |-> ProcsOf(Last(madts)),
                      lapic_base |-> Last(madts).lapic_base]

-----------------------------------------------------------------------------
(* low_kernel_main.  A layout has the low addresses of the kernel's parts and the  *)
(* sections the boot loader reports, as pairs of load address and size.          *)

\* mutant of RoundUp
RoundDown(addr) == addr - (addr % PAGE_SIZE)

RoundUp(addr) == addr + PAGE_SIZE - (addr % PAGE_SIZE)

KernelMap(l) ==
    LET info_end == IF l.sections = {} THEN l.rw_end
                    ELSE RoundUp(Max({s[1] + s[2] : s \in l.sections}))
        lowest == IF l.sections = {} THEN l.ro_start ELSE Min({s[1] : s \in l.sections})
    IN [ro_start |-> lowest, ro_end |-> l.ro_end,
        rw_start |-> l.ro_end, rw_end |-> l.rw_end,
        vm_start |-> info_end, vm_end |-> info_end + VM_TABLES * PAGE_SIZE]

\* The page table entry of a kernel page, from the physical address behind it.
PageEntry(map, addr) ==
    IF addr >= map.ro_start /\ addr < map.ro_end + PAGE_SIZE THEN {"present"}
    ELSE IF addr >= map.rw_start /\ addr < map.vm_end + PAGE_SIZE THEN {"present", "rw"}
    ELSE {}
=============================================================================
