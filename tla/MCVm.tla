-------------------------------- MODULE MCVm --------------------------------
(***************************************************************************)
(* Address spaces: the maps and objects of threads (VmObject), the holes   *)
(* in kernel address space (Slots) and the commands that make other CPUs   *)
(* forget translations (Shootdown).  One of the three is in use at a time, *)
(* since each abstracts the other two away.                                *)
(***************************************************************************)
EXTENDS VmObject, Slots, Shootdown

CONSTANTS m1, m2, o1, o2

VARIABLE used

Window(o, base, offset, pages) ==
    [object |-> o, base |-> base, offset |-> offset, pages |-> pages]

\* One thread, two objects, one of them through two windows.
Alone == [m \in {m1} |-> {Window(o1, 0, 0, 2), Window(o1, 2, 1, 2), Window(o2, 4, 0, 1),
                         Window(o2, 4, 1, 2)}]

\* Two threads that map the same two pages at different addresses.
Shared == [m \in {m1, m2} |-> IF m = m1 THEN {Window(o1, 0, 0, 2)}
                             ELSE {Window(o1, 1, 0, 2), Window(o1, 0, 1, 1)}]

\* The second window is under another page table.
Apart == [m \in {m1} |-> {Window(o1, 1, 1, 1), Window(o1, 4, 0, 2)}]

VmInit == used \in {"maps", "slots", "commands"} /\ Init /\ SlotsInit /\ CommandsInit

VmNext ==
    /\ UNCHANGED used
    /\ \/ used = "maps" /\ Next /\ UNCHANGED <<slotVars, commandVars>>
       \/ used = "slots" /\ SlotsNext /\ UNCHANGED <<vars, commandVars>>
       \/ used = "commands" /\ CommandsNext /\ UNCHANGED <<vars, slotVars>>

VmSpec == VmInit /\ [][VmNext]_<<used, vars, slotVars, commandVars>>
=============================================================================
