------------------------------- MODULE MCTask -------------------------------
(***************************************************************************)
(* Instances of Task for TLC: two CPUs and a handful of threads.           *)
(***************************************************************************)
EXTENDS Task, TLC

CONSTANTS c1, c2, t1, t2, t3, t4

Boot1 == <<t1>>
Boot2 == <<t1, t2>>
Boot3 == <<t1, t2, t3>>

\* With resume() a thread can be queued again and again: the states beyond this
\* many entries are not explored.
MaxQueue == 3
QueueBound == Len(waiting_threads) <= MaxQueue

\* The CPUs run the same code and nothing names one of them.
CpuSymmetry == Permutations(Cpus)
=============================================================================
