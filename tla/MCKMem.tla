------------------------------- MODULE MCKMem -------------------------------
(***************************************************************************)
(* Two uses of the heap and the page allocator: "mixed", every call on a   *)
(* memory table with a hole, which also reaches the calls that never       *)
(* return; and "heap", a longer series of kmalloc and kfree of more sizes  *)
(* with memory enough.                                                     *)
(***************************************************************************)
EXTENDS MCTables

CONSTANTS HeapSizes, MaxHeapCalls

VARIABLE use

H == INSTANCE KMem WITH Regions <- Plenty, Sizes <- HeapSizes, Counts <- {},
                        MaxCalls <- MaxHeapCalls, MaxCreates <- 0

UsesInit ==
    \/ use = "mixed" /\ Init
    \/ use = "heap" /\ H!Init

UsesNext ==
    /\ UNCHANGED use
    /\ \/ use = "mixed" /\ Next
       \/ use = "heap" /\ H!Next

UsesSpec == UsesInit /\ [][UsesNext]_<<use, vars>>

\* The reserve serves the heap (kmem.cpp:235), as long as no page::create or Page::split
\* has taken from it: they kmalloc from the reserve, and nothing refills it.
ReserveHeld == creates = 0 => ReserveHolds
=============================================================================
