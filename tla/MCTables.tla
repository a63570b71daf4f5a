------------------------------ MODULE MCTables ------------------------------
(* Memory tables for model checking KMem.                                  *)
EXTENDS KMem

\* One region that no run uses up.
Plenty == <<[base |-> 0, length |-> 40, usable |-> TRUE]>>

\* A small first region, a hole and a small last one.
Holes == <<[base |-> 0, length |-> 7, usable |-> TRUE],
           [base |-> 7, length |-> 2, usable |-> FALSE],
           [base |-> 12, length |-> 4, usable |-> TRUE]>>

\* None of the tables has regions that overlap.
ASSUME TableAssumption == RegionsApart
=============================================================================
