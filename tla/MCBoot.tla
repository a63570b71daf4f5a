------------------------------- MODULE MCBoot -------------------------------
(* Machines for model checking Boot.                                       *)
EXTENDS Boot

Other == <<0, 0>>
Rsdp == <<RSDP_SIG_A, RSDP_SIG_B>>

Proc(id) == [type |-> "PROC", apic_id |-> id]
Ioapic == [type |-> "IOAPIC"]
Iso == [type |-> "ISO"]

Table(entries) == [signature |-> MADT_SIG, entries |-> entries, lapic_base |-> 1]
Fadt == [signature |-> "FACP", entries |-> <<>>, lapic_base |-> 2]

\* Sections as a boot loader reports them, and none.
Loaded == {<<4, 7>>, <<12, 6>>, <<0, 0>>}

Machine(alive, ids, sections) ==
    [ebda |-> <<Other>>, bios |-> <<Other, Rsdp, Other>>,
     tables |-> <<Fadt, Table(<<Ioapic>> \o [i \in DOMAIN ids |-> Proc(ids[i])] \o <<Iso>>)>>,
     alive |-> alive, ro_start |-> 4, ro_end |-> 12, rw_end |-> 20, sections |-> sections]

Two == Machine({0, 1}, <<0, 1>>, Loaded)

\* APIC ids in another order, and with a gap.
Three == Machine({0, 1, 2}, <<0, 2, 1>>, {<<4, 8>>, <<12, 9>>})
Sparse == Machine({0, 2}, <<0, 2>>, {})

\* A processor that is listed but disabled; none at all; a MADT without overrides; the
\* RSDP in the extended BIOS data area.
Disabled == Machine({0}, <<0, 1>>, {})
Overrideless == [Two EXCEPT !.tables = <<Table(<<Ioapic, Proc(0)>>)>>]
NoMadt == [Two EXCEPT !.tables = <<Fadt>>]
InEbda == [Two EXCEPT !.ebda = <<Other, Rsdp>>, !.bios = <<Other>>]

Some == {Two, Sparse, Disabled, Overrideless, NoMadt, InEbda}
All == Some \cup {Three}
Crowded == {Machine({0, 1}, <<0, 1, 2, 3>>, {})}
=============================================================================
