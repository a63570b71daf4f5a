----------------------------- MODULE TaskProofs -----------------------------
(***************************************************************************)
(* Proofs about the scheduler, for any number of CPUs and threads, any     *)
(* initial queue and any use of the services but resume(): no thread is in *)
(* two places, none is lost, neither panic is reached, no page directory   *)
(* is loaded twice, and the scheduler implements module Scheduler.         *)
(*                                                                         *)
(* IndInv is inductive; there is one lemma per action, with one step for   *)
(* each conjunct the action can disturb and one for all the others.        *)
(***************************************************************************)
EXTENDS Task, TLAPS

\* push_front: the list keeps its entries and gets one at the end.
LEMMA AppendFacts ==
    ASSUME NEW s \in Seq(Threads), NEW e \in Threads
    PROVE  /\ Append(s, e) \in Seq(Threads)
           /\ Len(s) \in Nat
           /\ Len(Append(s, e)) = Len(s) + 1
           /\ \A i \in 1..Len(s) : Append(s, e)[i] = s[i]
           /\ Append(s, e)[Len(s) + 1] = e
           /\ Append(s, e) # <<>>
           /\ s # <<>> => Head(Append(s, e)) = Head(s)
  <1>1. /\ Append(s, e) \in Seq(Threads)
        /\ Len(Append(s, e)) = Len(s) + 1
        /\ Len(s) \in Nat
      OBVIOUS
  <1>2. \A i \in 1..Len(s) : Append(s, e)[i] = s[i]
      OBVIOUS
  <1>3. Append(s, e)[Len(s) + 1] = e
      OBVIOUS
  <1>4. Append(s, e) # <<>>
      BY <1>1
  <1>5. s # <<>> => Head(Append(s, e)) = Head(s)
      BY <1>1, <1>2
  <1> QED
      BY <1>1, <1>2, <1>3, <1>4, <1>5

\* pop_back: the list loses the entry that back() returns.
LEMMA TailFacts ==
    ASSUME NEW s \in Seq(Threads), s # <<>>
    PROVE  /\ Tail(s) \in Seq(Threads)
           /\ Len(s) \in Nat /\ Len(s) >= 1
           /\ Len(Tail(s)) = Len(s) - 1
           /\ \A i \in 1..Len(Tail(s)) :
                  i + 1 \in 1..Len(s) /\ Tail(s)[i] = s[i + 1]
           /\ Head(s) = s[1]
           /\ Head(s) \in Threads
  OBVIOUS

\* The invariant holds when the CPUs begin to schedule.
LEMMA InitInd == Init => IndInv
  <1> SUFFICES ASSUME Init PROVE IndInv
      OBVIOUS
  <1> USE DisjointAssumption, BootAssumption DEF Init
  <1>1. TypeOK
      BY DEF TypeOK, CpuPcs, ThreadPcs, Statuses, Holders
  <1>2. PcInv /\ LockInv /\ NewInv
      BY DEF PcInv, LocalPcs, LockInv, NewInv
  <1>3. HeldInv /\ QueueInv
      BY DEF HeldInv, QueueInv
  <1>4. LiveInv
      BY DEF LiveInv, BootThreads
  <1>5. UseInv
      BY DEF UseInv, LocalPcs, BootThreads
  <1>6. DirectoryInv /\ NeverPanics
      BY DEF DirectoryInv, NeverPanics
  <1>7. SomewhereInv
      BY DEF SomewhereInv, BootThreads
  <1> QED
      BY <1>1, <1>2, <1>3, <1>4, <1>5, <1>6, <1>7 DEF IndInv

\* The timer takes the running thread off its CPU: the CPU has it as `current`.
LEMMA TimerInd ==
    ASSUME IndInv, NEW c \in Cpus, Timer(c), ~panicked
    PROVE  IndInv'
  <1> USE DisjointAssumption DEF IndInv, Timer, YieldDone, VmExit, Release,
             cpuVars, threadVars, lockVars, TypeOK
  <1>1. TypeOK'
      BY DEF CpuPcs, ThreadPcs, Statuses, Holders, PcInv, LocalPcs, NewInv
  <1>2. PcInv'
      BY DEF PcInv, LocalPcs
  <1>3. LockInv'
      BY DEF LockInv
  <1>4. HeldInv'
      BY DEF HeldInv, PcInv, QueueInv, LockInv, LocalPcs
  <1>5. QueueInv'
      BY DEF QueueInv, LocalPcs, PcInv, LockInv, NewInv, HeldInv, LiveInv
  <1>6. LiveInv'
      BY DEF LiveInv, LocalPcs, PcInv, NewInv, HeldInv, QueueInv
  <1>7. UseInv'
      BY DEF UseInv, LocalPcs, PcInv, HeldInv, QueueInv, LiveInv, NewInv
  <1>8. DirectoryInv'
      BY DEF DirectoryInv, PcInv, UseInv, LocalPcs
  <1>9. SomewhereInv'
    <2>1. local[c] = None /\ local'[c] = thread[c]
        BY DEF PcInv, LocalPcs
    <2>2. \A d \in Cpus, t \in Threads :
              thread[d] = t \/ local[d] = t => thread'[d] = t \/ local'[d] = t
        BY <2>1
    <2> QED
        BY <2>2 DEF SomewhereInv
  <1>10. NewInv' /\ NeverPanics'
      BY DEF NewInv, NeverPanics
  <1> QED
      BY <1>1, <1>2, <1>3, <1>4, <1>5, <1>6, <1>7, <1>8, <1>9, <1>10

\* task_yield's switch leaves the same places behind, whatever stack it is on.
LEMMA YieldSwitchInd ==
    ASSUME IndInv, NEW c \in Cpus, YieldSwitch(c), ~panicked
    PROVE  IndInv'
  <1> USE DisjointAssumption DEF IndInv, YieldSwitch, YieldDone, VmExit,
             Release, cpuVars, threadVars, lockVars, TypeOK
  <1>0. thread[c] \in Threads
      BY DEF PcInv
  <1>1. TypeOK'
      BY <1>0 DEF CpuPcs, ThreadPcs, Statuses, Holders, PcInv, LocalPcs,
             NewInv
  <1>2. PcInv'
      BY <1>0 DEF PcInv, LocalPcs
  <1>3. LockInv'
      BY <1>0 DEF LockInv
  <1>4. NewInv'
      BY <1>0 DEF NewInv
  <1>5. HeldInv'
      BY <1>0 DEF HeldInv, PcInv, QueueInv, LockInv, LocalPcs
  <1>6. QueueInv'
      BY <1>0 DEF QueueInv, LocalPcs, PcInv, LockInv, NewInv, HeldInv, LiveInv
  <1>7. LiveInv'
      BY <1>0 DEF LiveInv, LocalPcs, PcInv, NewInv, HeldInv, QueueInv
  <1>8. UseInv'
      BY <1>0 DEF UseInv, LocalPcs, PcInv, HeldInv, QueueInv, LiveInv, NewInv
  <1>9. DirectoryInv'
      BY <1>0 DEF DirectoryInv, PcInv, UseInv, LocalPcs
  <1>10. SomewhereInv'
    <2>1. local[c] = None /\ local'[c] = thread[c]
        BY DEF PcInv, LocalPcs
    <2>2. \A d \in Cpus, t \in Threads :
              thread[d] = t \/ local[d] = t => thread'[d] = t \/ local'[d] = t
        BY <2>1
    <2> QED
        BY <2>2 DEF SomewhereInv
  <1>11. NeverPanics'
      BY DEF NeverPanics
  <1> QED
      BY <1>1, <1>2, <1>3, <1>4, <1>5, <1>6, <1>7, <1>8, <1>9,
             <1>10, <1>11

LEMMA RequeueLockInd ==
    ASSUME IndInv, NEW c \in Cpus, RequeueLock(c), ~panicked
    PROVE  IndInv'
  <1> USE DisjointAssumption DEF IndInv, RequeueLock, cpuVars, threadVars,
             lockVars, TypeOK
  <1>1. TypeOK'
      BY DEF CpuPcs, ThreadPcs, Statuses, Holders, PcInv, LocalPcs, NewInv
  <1>2. PcInv'
      BY DEF PcInv, LocalPcs
  <1>3. LockInv'
      BY DEF LockInv
  <1>4. QueueInv'
      BY DEF QueueInv, LocalPcs, PcInv, LockInv, NewInv, HeldInv, LiveInv
  <1>5. UseInv'
      BY DEF UseInv, LocalPcs, PcInv, HeldInv, QueueInv, LiveInv, NewInv
  <1>6. NewInv' /\ HeldInv' /\ LiveInv' /\ DirectoryInv' /\ SomewhereInv' /\ NeverPanics'
      BY DEF NewInv, HeldInv, LiveInv, DirectoryInv, SomewhereInv, NeverPanics
  <1> QED
      BY <1>1, <1>2, <1>3, <1>4, <1>5, <1>6

\* The thread moves from the CPU to the end of the list, unless it waits.
LEMMA RequeuePushInd ==
    ASSUME IndInv, NEW c \in Cpus, RequeuePush(c), ~panicked
    PROVE  IndInv'
  <1> USE DisjointAssumption DEF IndInv, RequeuePush, PushFront, MayRun,
             cpuVars, threadVars, lockVars, TypeOK
  <1>0. local[c] \in Threads
      BY DEF PcInv, LocalPcs
  <1>1. TypeOK'
      BY <1>0, AppendFacts DEF CpuPcs, ThreadPcs, Statuses, Holders, PcInv,
             LocalPcs, NewInv
  <1>2. PcInv'
      BY <1>0, AppendFacts DEF PcInv, LocalPcs
  <1>3. LockInv'
      BY <1>0, AppendFacts DEF LockInv
  <1>4. HeldInv'
      BY <1>0, AppendFacts DEF HeldInv, PcInv, QueueInv, LockInv, LocalPcs
  <1>5. QueueInv'
      BY <1>0, AppendFacts DEF QueueInv, LocalPcs, PcInv, LockInv, NewInv,
             HeldInv, LiveInv
  <1>6. LiveInv'
      BY <1>0, AppendFacts DEF LiveInv, LocalPcs, PcInv, NewInv, HeldInv,
             QueueInv
  <1>7. UseInv'
      BY <1>0, AppendFacts DEF UseInv, LocalPcs, PcInv, HeldInv, QueueInv,
             LiveInv, NewInv
  <1>8. SomewhereInv'
      BY <1>0, AppendFacts DEF SomewhereInv, PcInv, LocalPcs, QueueInv, NewInv
  <1>9. NewInv' /\ DirectoryInv' /\ NeverPanics'
      BY DEF NewInv, DirectoryInv, NeverPanics
  <1> QED
      BY <1>1, <1>2, <1>3, <1>4, <1>5, <1>6, <1>7, <1>8, <1>9

LEMMA SchedLockInd ==
    ASSUME IndInv, NEW c \in Cpus, SchedLock(c), ~panicked
    PROVE  IndInv'
  <1> USE DisjointAssumption DEF IndInv, SchedLock, cpuVars, threadVars,
             lockVars, TypeOK
  <1>1. TypeOK'
      BY DEF CpuPcs, ThreadPcs, Statuses, Holders, PcInv, LocalPcs, NewInv
  <1>2. PcInv'
      BY DEF PcInv, LocalPcs
  <1>3. LockInv'
      BY DEF LockInv
  <1>4. QueueInv'
      BY DEF QueueInv, LocalPcs, PcInv, LockInv, NewInv, HeldInv, LiveInv
  <1>5. UseInv'
      BY DEF UseInv, LocalPcs, PcInv, HeldInv, QueueInv, LiveInv, NewInv
  <1>6. NewInv' /\ HeldInv' /\ LiveInv' /\ DirectoryInv' /\ SomewhereInv' /\ NeverPanics'
      BY DEF NewInv, HeldInv, LiveInv, DirectoryInv, SomewhereInv, NeverPanics
  <1> QED
      BY <1>1, <1>2, <1>3, <1>4, <1>5, <1>6

LEMMA SchedEmptyInd ==
    ASSUME IndInv, NEW c \in Cpus, SchedEmpty(c), ~panicked
    PROVE  IndInv'
  <1> USE DisjointAssumption DEF IndInv, SchedEmpty, cpuVars, threadVars,
             lockVars, TypeOK
  <1>1. TypeOK'
      BY DEF CpuPcs, ThreadPcs, Statuses, Holders, PcInv, LocalPcs, NewInv
  <1>2. PcInv'
      BY DEF PcInv, LocalPcs
  <1>3. LockInv'
      BY DEF LockInv
  <1>4. QueueInv'
      BY DEF QueueInv, LocalPcs, PcInv, LockInv, NewInv, HeldInv, LiveInv
  <1>5. UseInv'
      BY DEF UseInv, LocalPcs, PcInv, HeldInv, QueueInv, LiveInv, NewInv
  <1>6. NewInv' /\ HeldInv' /\ LiveInv' /\ DirectoryInv' /\ SomewhereInv' /\ NeverPanics'
      BY DEF NewInv, HeldInv, LiveInv, DirectoryInv, SomewhereInv, NeverPanics
  <1> QED
      BY <1>1, <1>2, <1>3, <1>4, <1>5, <1>6

\* back(): the first thread of the list is now also `next`; the lock keeps it there.
LEMMA SchedBackInd ==
    ASSUME IndInv, NEW c \in Cpus, SchedBack(c), ~panicked
    PROVE  IndInv'
  <1> USE DisjointAssumption DEF IndInv, SchedBack, cpuVars, threadVars,
             lockVars, TypeOK
  <1>0. /\ Head(waiting_threads) \in Threads
        /\ Len(waiting_threads) \in Nat
        /\ Head(waiting_threads) = waiting_threads[1]
        /\ 1 \in 1..Len(waiting_threads)
      BY TailFacts
  <1>1. TypeOK'
      BY <1>0 DEF CpuPcs, ThreadPcs, Statuses, Holders, PcInv, LocalPcs,
             NewInv
  <1>2. PcInv'
      BY <1>0 DEF PcInv, LocalPcs
  <1>3. LockInv'
      BY <1>0 DEF LockInv
  <1>4. HeldInv'
      BY <1>0 DEF HeldInv, PcInv, QueueInv, LockInv, LocalPcs
  <1>5. QueueInv'
      BY <1>0 DEF QueueInv, LocalPcs, PcInv, LockInv, NewInv, HeldInv, LiveInv
  <1>6. LiveInv'
      BY <1>0 DEF LiveInv, LocalPcs, PcInv, NewInv, HeldInv, QueueInv
  <1>7. UseInv'
      BY <1>0 DEF UseInv, LocalPcs, PcInv, HeldInv, QueueInv, LiveInv, NewInv
  <1>8. SomewhereInv'
    <2>1. local[c] = None
        BY DEF PcInv, LocalPcs
    <2>2. \A d \in Cpus : local[d] # None => local'[d] = local[d]
        BY <2>1
    <2> QED
        BY <2>2, TypeOK DEF SomewhereInv
  <1>9. NewInv' /\ DirectoryInv' /\ NeverPanics'
      BY DEF NewInv, DirectoryInv, NeverPanics
  <1> QED
      BY <1>1, <1>2, <1>3, <1>4, <1>5, <1>6, <1>7, <1>8, <1>9

\* pop_back() removes the thread that back() returned.
LEMMA SchedPopInd ==
    ASSUME IndInv, NEW c \in Cpus, SchedPop(c), ~panicked
    PROVE  IndInv'
  <1> USE DisjointAssumption DEF IndInv, SchedPop, cpuVars, threadVars,
             lockVars, TypeOK
  <1>0. /\ waiting_threads # <<>>
        /\ local[c] = Head(waiting_threads)
        /\ local[c] \in Threads
      BY DEF PcInv, LocalPcs, QueueInv
  <1>1. TypeOK'
      BY <1>0, TailFacts DEF CpuPcs, ThreadPcs, Statuses, Holders, PcInv,
             LocalPcs, NewInv
  <1>2. PcInv'
      BY <1>0, TailFacts DEF PcInv, LocalPcs
  <1>3. LockInv'
      BY <1>0, TailFacts DEF LockInv
  <1>4. QueueInv'
      BY <1>0, TailFacts DEF QueueInv, LocalPcs, PcInv, LockInv, NewInv,
             HeldInv, LiveInv
  <1>5. LiveInv'
      BY <1>0, TailFacts DEF LiveInv, LocalPcs, PcInv, NewInv, HeldInv,
             QueueInv
  <1>6. UseInv'
      BY <1>0, TailFacts DEF UseInv, LocalPcs, PcInv, HeldInv, QueueInv,
             LiveInv, NewInv
  <1>7. SomewhereInv'
    <2> SUFFICES ASSUME NEW t \in Threads, status[t] = "live",
                        wchan[t] = no_wchan,
                        \A d \in Cpus : thread[d] # t /\ local[d] # t
                 PROVE  \E i \in 1..Len(waiting_threads') : waiting_threads'[i] = t
        BY DEF SomewhereInv
    <2>1. PICK i \in 1..Len(waiting_threads) : waiting_threads[i] = t
        BY DEF SomewhereInv
    <2>2. i # 1
        BY <1>0, <2>1, TailFacts
    <2>3. i - 1 \in 1..Len(Tail(waiting_threads)) /\ Tail(waiting_threads)[i - 1] = t
        BY <1>0, <2>1, <2>2, TailFacts
    <2> QED
        BY <2>3
  <1>8. NewInv' /\ HeldInv' /\ DirectoryInv' /\ NeverPanics'
      BY DEF NewInv, HeldInv, DirectoryInv, NeverPanics
  <1> QED
      BY <1>1, <1>2, <1>3, <1>4, <1>5, <1>6, <1>7, <1>8

LEMMA ClaimLockInd ==
    ASSUME IndInv, NEW c \in Cpus, ClaimLock(c), ~panicked
    PROVE  IndInv'
  <1> USE DisjointAssumption DEF IndInv, ClaimLock, cpuVars, threadVars,
             lockVars, TypeOK
  <1>1. TypeOK'
      BY DEF CpuPcs, ThreadPcs, Statuses, Holders, PcInv, LocalPcs, NewInv
  <1>2. PcInv'
      BY DEF PcInv, LocalPcs
  <1>3. LockInv'
      BY DEF LockInv
  <1>4. QueueInv'
      BY DEF QueueInv, LocalPcs, PcInv, LockInv, NewInv, HeldInv, LiveInv
  <1>5. UseInv'
      BY DEF UseInv, LocalPcs, PcInv, HeldInv, QueueInv, LiveInv, NewInv
  <1>6. NewInv' /\ HeldInv' /\ LiveInv' /\ DirectoryInv' /\ SomewhereInv' /\ NeverPanics'
      BY DEF NewInv, HeldInv, LiveInv, DirectoryInv, SomewhereInv, NeverPanics
  <1> QED
      BY <1>1, <1>2, <1>3, <1>4, <1>5, <1>6

\* The panic is not reached: a thread that comes out of the list is not in use.
LEMMA ClaimCheckInd ==
    ASSUME IndInv, NEW c \in Cpus, ClaimCheck(c), ~panicked
    PROVE  IndInv'
  <1> USE DisjointAssumption DEF IndInv, ClaimCheck, cpuVars, threadVars,
             lockVars, TypeOK
  <1>0. ~in_use[local[c]]
      BY DEF UseInv, LocalPcs
  <1>1. pc' = [pc EXCEPT ![c] = "claim_set"] /\ panicked' = panicked
      BY <1>0
  <1>2. TypeOK'
      BY <1>1 DEF CpuPcs, ThreadPcs, Statuses, Holders, PcInv, LocalPcs,
             NewInv
  <1>3. PcInv'
      BY <1>1 DEF PcInv, LocalPcs
  <1>4. LockInv'
      BY <1>1 DEF LockInv
  <1>5. QueueInv'
      BY <1>1 DEF QueueInv, LocalPcs, PcInv, LockInv, NewInv, HeldInv, LiveInv
  <1>6. UseInv'
      BY <1>1 DEF UseInv, LocalPcs, PcInv, HeldInv, QueueInv, LiveInv, NewInv
  <1>7. NeverPanics'
      BY <1>1 DEF NeverPanics, UseInv, LocalPcs
  <1>8. NewInv' /\ HeldInv' /\ LiveInv' /\ DirectoryInv' /\ SomewhereInv'
      BY DEF NewInv, HeldInv, LiveInv, DirectoryInv, SomewhereInv
  <1> QED
      BY <1>2, <1>3, <1>4, <1>5, <1>6, <1>7, <1>8

LEMMA ClaimSetInd ==
    ASSUME IndInv, NEW c \in Cpus, ClaimSet(c), ~panicked
    PROVE  IndInv'
  <1> USE DisjointAssumption DEF IndInv, ClaimSet, cpuVars, threadVars,
             lockVars, TypeOK
  <1>0. local[c] \in Threads
      BY DEF PcInv, LocalPcs
  <1>1. TypeOK'
      BY <1>0 DEF CpuPcs, ThreadPcs, Statuses, Holders, PcInv, LocalPcs,
             NewInv
  <1>2. PcInv'
      BY <1>0 DEF PcInv, LocalPcs
  <1>3. LockInv'
      BY <1>0 DEF LockInv
  <1>4. QueueInv'
      BY <1>0 DEF QueueInv, LocalPcs, PcInv, LockInv, NewInv, HeldInv, LiveInv
  <1>5. UseInv'
      BY <1>0 DEF UseInv, LocalPcs, PcInv, HeldInv, QueueInv, LiveInv, NewInv
  <1>6. NewInv' /\ HeldInv' /\ LiveInv' /\ DirectoryInv' /\ SomewhereInv' /\ NeverPanics'
      BY DEF NewInv, HeldInv, LiveInv, DirectoryInv, SomewhereInv, NeverPanics
  <1> QED
      BY <1>1, <1>2, <1>3, <1>4, <1>5, <1>6

\* The panic of Map::enter is not reached: the map is not in use either.
LEMMA TaskEnterInd ==
    ASSUME IndInv, NEW c \in Cpus, TaskEnter(c), ~panicked
    PROVE  IndInv'
  <1> USE DisjointAssumption DEF IndInv, TaskEnter, VmEnter, cpuVars,
             threadVars, lockVars, TypeOK
  <1>0. local[c] \in Threads /\ using_cpu[local[c]] = None
      BY DEF PcInv, UseInv, LocalPcs
  <1>1. /\ using_cpu' = [using_cpu EXCEPT ![local[c]] = c]
        /\ cr3' = [cr3 EXCEPT ![c] = local[c]]
        /\ thread' = [thread EXCEPT ![c] = local[c]]
        /\ local' = [local EXCEPT ![c] = None]
        /\ kstack' = [kstack EXCEPT ![c] = None]
        /\ pc' = [pc EXCEPT ![c] = "thread"]
        /\ panicked' = panicked
      BY <1>0
  <1>2. TypeOK'
      BY <1>0, <1>1 DEF CpuPcs, ThreadPcs, Statuses, Holders, PcInv, LocalPcs,
             NewInv
  <1>3. PcInv'
      BY <1>0, <1>1 DEF PcInv, LocalPcs
  <1>4. LockInv'
      BY <1>0, <1>1 DEF LockInv
  <1>5. HeldInv'
      BY <1>0, <1>1 DEF HeldInv, PcInv, QueueInv, LockInv, LocalPcs
  <1>6. QueueInv'
      BY <1>0, <1>1 DEF QueueInv, LocalPcs, PcInv, LockInv, NewInv, HeldInv,
             LiveInv
  <1>7. LiveInv'
      BY <1>0, <1>1 DEF LiveInv, LocalPcs, PcInv, NewInv, HeldInv, QueueInv
  <1>8. UseInv'
    <2>1. \A d \in Cpus : d # c /\ pc[d] \in LocalPcs => local[d] # local[c]
        BY <1>0 DEF HeldInv, PcInv
    <2>2. \A i \in 1..Len(waiting_threads) : waiting_threads[i] # local[c]
        BY DEF QueueInv
    <2>3. status[local[c]] = "live"
        BY <1>0, DisjointAssumption DEF LiveInv
    <2>4. \A d \in Cpus : d # c => pc'[d] = pc[d] /\ local'[d] = local[d]
        BY <1>1
    <2>5. pc'[c] = "thread"
        BY <1>1
    <2> QED
        BY <1>0, <1>1, <2>1, <2>2, <2>3, <2>4, <2>5 DEF UseInv, LocalPcs
  <1>9. DirectoryInv'
      BY <1>0, <1>1 DEF DirectoryInv, PcInv, UseInv, LocalPcs
  <1>10. SomewhereInv'
      BY <1>0, <1>1 DEF SomewhereInv, PcInv, LocalPcs, QueueInv, NewInv
  <1>11. NeverPanics'
      BY <1>0, <1>1 DEF NeverPanics, UseInv, LocalPcs
  <1>12. NewInv'
      BY DEF NewInv
  <1> QED
      BY <1>2, <1>3, <1>4, <1>5, <1>6, <1>7, <1>8, <1>9, <1>10,
             <1>11, <1>12

LEMMA EndLockInd ==
    ASSUME IndInv, NEW c \in Cpus, EndLock(c), ~panicked
    PROVE  IndInv'
  <1> USE DisjointAssumption DEF IndInv, EndLock, cpuVars, threadVars,
             lockVars, TypeOK
  <1>1. TypeOK'
      BY DEF CpuPcs, ThreadPcs, Statuses, Holders, PcInv, LocalPcs, NewInv
  <1>2. PcInv'
      BY DEF PcInv, LocalPcs
  <1>3. LockInv'
      BY DEF LockInv
  <1>4. QueueInv'
      BY DEF QueueInv, LocalPcs, PcInv, LockInv, NewInv, HeldInv, LiveInv
  <1>5. UseInv'
      BY DEF UseInv, LocalPcs, PcInv, HeldInv, QueueInv, LiveInv, NewInv
  <1>6. NewInv' /\ HeldInv' /\ LiveInv' /\ DirectoryInv' /\ SomewhereInv' /\ NeverPanics'
      BY DEF NewInv, HeldInv, LiveInv, DirectoryInv, SomewhereInv, NeverPanics
  <1> QED
      BY <1>1, <1>2, <1>3, <1>4, <1>5, <1>6

\* The CPU drops a thread that no other CPU has and that is not in the list.
LEMMA EndThreadInd ==
    ASSUME IndInv, NEW c \in Cpus, EndThread(c), ~panicked
    PROVE  IndInv'
  <1> USE DisjointAssumption DEF IndInv, EndThread, cpuVars, threadVars,
             lockVars, TypeOK
  <1>0. local[c] \in Threads
      BY DEF PcInv, LocalPcs
  <1>1. TypeOK'
      BY <1>0 DEF CpuPcs, ThreadPcs, Statuses, Holders, PcInv, LocalPcs,
             NewInv
  <1>2. PcInv'
      BY <1>0 DEF PcInv, LocalPcs
  <1>3. LockInv'
      BY <1>0 DEF LockInv
  <1>4. NewInv'
      BY <1>0 DEF NewInv, LiveInv
  <1>5. HeldInv'
      BY <1>0 DEF HeldInv, PcInv, QueueInv, LockInv, LocalPcs
  <1>6. QueueInv'
      BY <1>0 DEF QueueInv, LocalPcs, PcInv, LockInv, NewInv, HeldInv, LiveInv
  <1>7. LiveInv'
      BY <1>0 DEF LiveInv, LocalPcs, PcInv, NewInv, HeldInv, QueueInv
  <1>8. UseInv'
      BY <1>0 DEF UseInv, LocalPcs, PcInv, HeldInv, QueueInv, LiveInv, NewInv
  <1>9. SomewhereInv'
      BY <1>0 DEF SomewhereInv, PcInv, LocalPcs, QueueInv, NewInv
  <1>10. DirectoryInv' /\ NeverPanics'
      BY DEF DirectoryInv, NeverPanics
  <1> QED
      BY <1>1, <1>2, <1>3, <1>4, <1>5, <1>6, <1>7, <1>8, <1>9, <1>10

LEMMA TaskYieldInd ==
    ASSUME IndInv, NEW c \in Cpus, TaskYield(c), ~panicked
    PROVE  IndInv'
  <1> USE DisjointAssumption DEF IndInv, TaskYield, Running, YieldRead,
             cpuVars, threadVars, lockVars, TypeOK
  <1>1. TypeOK'
      BY DEF CpuPcs, ThreadPcs, Statuses, Holders, PcInv, LocalPcs, NewInv
  <1>2. PcInv' /\ LockInv' /\ NewInv' /\ HeldInv' /\ QueueInv' /\ LiveInv' /\ UseInv' /\ DirectoryInv' /\ SomewhereInv' /\ NeverPanics'
      BY DEF PcInv, LockInv, NewInv, HeldInv, QueueInv, LiveInv, UseInv,
             DirectoryInv, SomewhereInv, NeverPanics, LocalPcs
  <1> QED
      BY <1>1, <1>2

LEMMA LockYieldInd ==
    ASSUME IndInv, NEW c \in Cpus, LockYield(c), ~panicked
    PROVE  IndInv'
  <1> USE DisjointAssumption DEF IndInv, LockYield, Running, YieldRead,
             cpuVars, threadVars, lockVars, TypeOK
  <1>1. TypeOK'
      BY DEF CpuPcs, ThreadPcs, Statuses, Holders, PcInv, LocalPcs, NewInv
  <1>2. PcInv' /\ LockInv' /\ NewInv' /\ HeldInv' /\ QueueInv' /\ LiveInv' /\ UseInv' /\ DirectoryInv' /\ SomewhereInv' /\ NeverPanics'
      BY DEF PcInv, LockInv, NewInv, HeldInv, QueueInv, LiveInv, UseInv,
             DirectoryInv, SomewhereInv, NeverPanics, LocalPcs
  <1> QED
      BY <1>1, <1>2

LEMMA TaskWaitInd ==
    ASSUME IndInv, NEW c \in Cpus, TaskWait(c), ~panicked
    PROVE  IndInv'
  <1> USE DisjointAssumption DEF IndInv, TaskWait, Running, cpuVars,
             threadVars, lockVars, TypeOK
  <1>1. TypeOK'
      BY DEF CpuPcs, ThreadPcs, Statuses, Holders, PcInv, LocalPcs, NewInv
  <1>2. LockInv'
      BY DEF LockInv
  <1>3. NewInv'
      BY DEF NewInv
  <1>4. SomewhereInv'
      BY DEF SomewhereInv, PcInv, LocalPcs, QueueInv, NewInv
  <1>5. PcInv' /\ HeldInv' /\ QueueInv' /\ LiveInv' /\ UseInv' /\ DirectoryInv' /\ NeverPanics'
      BY DEF PcInv, HeldInv, QueueInv, LiveInv, UseInv, DirectoryInv,
             NeverPanics, LocalPcs
  <1> QED
      BY <1>1, <1>2, <1>3, <1>4, <1>5

\* The new object is one that no CPU has and that is not in the list.
LEMMA NewThreadInd ==
    ASSUME IndInv, NEW c \in Cpus, NewThread(c), ~panicked
    PROVE  IndInv'
  <1> USE DisjointAssumption DEF IndInv, NewThread, Running, cpuVars,
             threadVars, lockVars, TypeOK
  <1>1. TypeOK'
      BY DEF CpuPcs, ThreadPcs, Statuses, Holders, PcInv, LocalPcs, NewInv
  <1>2. LockInv'
      BY DEF LockInv
  <1>3. NewInv'
      BY DEF NewInv
  <1>4. LiveInv'
      BY DEF LiveInv, LocalPcs, PcInv, NewInv, HeldInv, QueueInv
  <1>5. UseInv'
      BY DEF UseInv, LocalPcs, PcInv, HeldInv, QueueInv, LiveInv, NewInv
  <1>6. SomewhereInv'
      BY DEF SomewhereInv, PcInv, LocalPcs, QueueInv, NewInv
  <1>7. PcInv' /\ HeldInv' /\ QueueInv' /\ DirectoryInv' /\ NeverPanics'
      BY DEF PcInv, HeldInv, QueueInv, DirectoryInv, NeverPanics, LocalPcs
  <1> QED
      BY <1>1, <1>2, <1>3, <1>4, <1>5, <1>6, <1>7

LEMMA ThreadLockInd ==
    ASSUME IndInv, NEW c \in Cpus, ThreadLock(c), ~panicked
    PROVE  IndInv'
  <1> USE DisjointAssumption DEF IndInv, ThreadLock, Running, cpuVars,
             threadVars, lockVars, TypeOK
  <1>1. TypeOK'
      BY DEF CpuPcs, ThreadPcs, Statuses, Holders, PcInv, LocalPcs, NewInv
  <1>2. LockInv'
      BY DEF LockInv
  <1>3. NewInv'
      BY DEF NewInv
  <1>4. PcInv' /\ HeldInv' /\ QueueInv' /\ LiveInv' /\ UseInv' /\ DirectoryInv' /\ SomewhereInv' /\ NeverPanics'
      BY DEF PcInv, HeldInv, QueueInv, LiveInv, UseInv, DirectoryInv,
             SomewhereInv, NeverPanics, LocalPcs
  <1> QED
      BY <1>1, <1>2, <1>3, <1>4

LEMMA ConstructInd ==
    ASSUME IndInv, NEW c \in Cpus, Construct(c), ~panicked
    PROVE  IndInv'
  <1> USE DisjointAssumption DEF IndInv, Construct, Running, cpuVars,
             threadVars, lockVars, TypeOK
  <1>1. TypeOK'
      BY DEF CpuPcs, ThreadPcs, Statuses, Holders, PcInv, LocalPcs, NewInv
  <1>2. LockInv'
      BY DEF LockInv
  <1>3. NewInv'
      BY DEF NewInv
  <1>4. PcInv' /\ HeldInv' /\ QueueInv' /\ LiveInv' /\ UseInv' /\ DirectoryInv' /\ SomewhereInv' /\ NeverPanics'
      BY DEF PcInv, HeldInv, QueueInv, LiveInv, UseInv, DirectoryInv,
             SomewhereInv, NeverPanics, LocalPcs
  <1> QED
      BY <1>1, <1>2, <1>3, <1>4

LEMMA PushLockInd ==
    ASSUME IndInv, NEW c \in Cpus, PushLock(c), ~panicked
    PROVE  IndInv'
  <1> USE DisjointAssumption DEF IndInv, PushLock, Running, cpuVars,
             threadVars, lockVars, TypeOK
  <1>1. TypeOK'
      BY DEF CpuPcs, ThreadPcs, Statuses, Holders, PcInv, LocalPcs, NewInv
  <1>2. LockInv'
      BY DEF LockInv
  <1>3. NewInv'
      BY DEF NewInv
  <1>4. PcInv' /\ HeldInv' /\ QueueInv' /\ LiveInv' /\ UseInv' /\ DirectoryInv' /\ SomewhereInv' /\ NeverPanics'
      BY SMTT(60) DEF PcInv, HeldInv, QueueInv, LiveInv, UseInv, DirectoryInv,
             SomewhereInv, NeverPanics, LocalPcs
  <1> QED
      BY <1>1, <1>2, <1>3, <1>4

\* The new thread enters the list; nobody else had it.
LEMMA PushInd ==
    ASSUME IndInv, NEW c \in Cpus, Push(c), ~panicked
    PROVE  IndInv'
  <1> USE DisjointAssumption DEF IndInv, Push, PushFront, Running, cpuVars,
             threadVars, lockVars, TypeOK
  <1> PICK t \in Threads : Push(c)!(t)
      BY DEF Push
  <1>0. tobj[t] \in Threads /\ status[tobj[t]] = "new"
      BY DEF NewInv
  <1>1. TypeOK'
      BY <1>0, AppendFacts DEF CpuPcs, ThreadPcs, Statuses, Holders, PcInv,
             LocalPcs, NewInv
  <1>2. LockInv'
      BY <1>0, AppendFacts DEF LockInv
  <1>3. NewInv'
      BY <1>0, AppendFacts DEF NewInv
  <1>4. QueueInv'
      BY <1>0, AppendFacts DEF QueueInv, LocalPcs, PcInv, LockInv, NewInv,
             HeldInv, LiveInv
  <1>5. LiveInv'
      BY <1>0, AppendFacts DEF LiveInv, LocalPcs, PcInv, NewInv, HeldInv,
             QueueInv
  <1>6. UseInv'
      BY <1>0, AppendFacts DEF UseInv, LocalPcs, PcInv, HeldInv, QueueInv,
             LiveInv, NewInv
  <1>7. SomewhereInv'
    <2> SUFFICES ASSUME NEW u \in Threads, status'[u] = "live",
                        wchan[u] = no_wchan,
                        \A d \in Cpus : thread[d] # u /\ local[d] # u
                 PROVE  \E i \in 1..Len(waiting_threads') : waiting_threads'[i] = u
        BY SMTT(60) DEF SomewhereInv
    <2>1. CASE u = tobj[t]
        BY <1>0, <2>1, AppendFacts, SMTT(60)
    <2>2. CASE u # tobj[t]
      <3>1. PICK i \in 1..Len(waiting_threads) : waiting_threads[i] = u
          BY <2>2 DEF SomewhereInv
      <3> QED
          BY <1>0, <3>1, AppendFacts
    <2> QED
        BY <2>1, <2>2
  <1>8. PcInv' /\ HeldInv' /\ DirectoryInv' /\ NeverPanics'
      BY DEF PcInv, HeldInv, DirectoryInv, NeverPanics, LocalPcs
  <1> QED
      BY <1>1, <1>2, <1>3, <1>4, <1>5, <1>6, <1>7, <1>8

\* The thread that ends stays with its CPU, as `current`.
LEMMA TaskEndInd ==
    ASSUME IndInv, NEW c \in Cpus, TaskEnd(c), ~panicked
    PROVE  IndInv'
  <1> USE DisjointAssumption DEF IndInv, TaskEnd, Running, cpuVars,
             threadVars, lockVars, TypeOK
  <1>1. TypeOK'
      BY DEF CpuPcs, ThreadPcs, Statuses, Holders, PcInv, LocalPcs, NewInv
  <1>2. PcInv'
      BY DEF PcInv, LocalPcs
  <1>3. LockInv'
      BY DEF LockInv
  <1>4. HeldInv'
      BY DEF HeldInv, PcInv, QueueInv, LockInv, LocalPcs
  <1>5. QueueInv'
      BY DEF QueueInv, LocalPcs, PcInv, LockInv, NewInv, HeldInv, LiveInv
  <1>6. LiveInv'
      BY DEF LiveInv, LocalPcs, PcInv, NewInv, HeldInv, QueueInv
  <1>7. UseInv'
      BY DEF UseInv, LocalPcs, PcInv, HeldInv, QueueInv, LiveInv, NewInv
  <1>8. DirectoryInv'
      BY DEF DirectoryInv, PcInv, UseInv, LocalPcs
  <1>9. SomewhereInv'
    <2>1. local[c] = None /\ local'[c] = thread[c]
        BY DEF PcInv, LocalPcs
    <2>2. \A d \in Cpus, t \in Threads :
              thread[d] = t \/ local[d] = t => thread'[d] = t \/ local'[d] = t
        BY <2>1
    <2> QED
        BY <2>2 DEF SomewhereInv
  <1>10. NewInv' /\ NeverPanics'
      BY DEF NewInv, NeverPanics
  <1> QED
      BY <1>1, <1>2, <1>3, <1>4, <1>5, <1>6, <1>7, <1>8, <1>9, <1>10

\* Every step of the scheduler preserves the invariant.
LEMMA NextInd ==
    ASSUME "resume" \notin Calls, IndInv, [Next]_vars
    PROVE  IndInv'
  <1>1. CASE UNCHANGED vars
      BY <1>1 DEF IndInv, vars, cpuVars, threadVars, lockVars, TypeOK, PcInv,
             LockInv, NewInv, HeldInv, QueueInv, LiveInv, UseInv, DirectoryInv,
             SomewhereInv, NeverPanics
  <1>2. CASE Next
    <2>1. PICK c \in Cpus : KernelStep(c) \/ ThreadStep(c) \/ Timer(c)
        BY <1>2 DEF Next
    <2>2. ~panicked
        BY <1>2 DEF Next
    <2>3. CASE KernelStep(c)
        BY <2>2, <2>3, RequeueLockInd, RequeuePushInd, SchedLockInd,
           SchedEmptyInd, SchedBackInd, SchedPopInd, ClaimLockInd,
           ClaimCheckInd, ClaimSetInd, TaskEnterInd, EndLockInd, EndThreadInd
           DEF KernelStep
    <2>4. ~Resume(c) /\ ~ResumeCheck(c)
        BY DEF Resume, ResumeCheck, IndInv, NewInv
    <2>5. CASE ThreadStep(c)
        BY <2>2, <2>4, <2>5, TaskYieldInd, LockYieldInd, YieldSwitchInd,
           TaskWaitInd, NewThreadInd, ThreadLockInd, ConstructInd, PushLockInd,
           PushInd, TaskEndInd
           DEF ThreadStep
    <2>6. CASE Timer(c)
        BY <2>2, <2>6, TimerInd
    <2> QED
        BY <2>1, <2>3, <2>5, <2>6
  <1> QED
      BY <1>1, <1>2

\* IndInv is an invariant of the scheduler when nobody calls resume().
THEOREM Invariance ==
    ASSUME "resume" \notin Calls
    PROVE  Spec => []IndInv
  <1>1. Init => IndInv
      BY InitInd
  <1>2. IndInv /\ [Next]_vars => IndInv'
      BY NextInd
  <1> QED
      BY <1>1, <1>2, PTL DEF Spec

\* The pointwise conjuncts of IndInv give the properties as they are stated.
LEMMA IndInvImplies ==
    ASSUME IndInv
    PROVE  OnePlace /\ NotLost /\ DirectoryExclusive
  <1> USE DisjointAssumption DEF IndInv, TypeOK
  <1>1. OnePlace
    <2>1. ASSUME NEW c \in Cpus, NEW d \in Cpus, c # d
          PROVE  Custody(c) \cap Custody(d) = {}
        BY <2>1 DEF Custody, HeldInv
    <2>2. ASSUME NEW c \in Cpus, NEW i \in 1..Len(waiting_threads),
                 waiting_threads[i] \in Custody(c)
          PROVE  pc[c] = "sched_pop" /\ i = 1
        BY <2>2 DEF Custody, QueueInv
    <2> QED
        BY <2>1, <2>2 DEF OnePlace, QueueInv
  <1>2. NotLost
      BY DEF NotLost, SomewhereInv, Queued, Custody
  <1>3. DirectoryExclusive
      BY DEF DirectoryExclusive, DirectoryInv
  <1> QED
      BY <1>1, <1>2, <1>3

\* Type correctness.
THEOREM TypeCorrect ==
    ASSUME "resume" \notin Calls
    PROVE  Spec => []TypeOK
  <1>1. IndInv => TypeOK
      BY DEF IndInv
  <1> QED
      BY <1>1, Invariance, PTL

\* A thread is never on two CPUs, twice in waiting_threads, or in both places.
THEOREM ThreadsInOnePlace ==
    ASSUME "resume" \notin Calls
    PROVE  Spec => []OnePlace
  <1>1. IndInv => OnePlace
      BY IndInvImplies
  <1> QED
      BY <1>1, Invariance, PTL

\* task_yield_done, schedule, task_enter and new_thread lose no thread.
THEOREM NoThreadLost ==
    ASSUME "resume" \notin Calls
    PROVE  Spec => []NotLost
  <1>1. IndInv => NotLost
      BY IndInvImplies
  <1> QED
      BY <1>1, Invariance, PTL

\* The panics of schedule() and Map::enter are unreachable.
THEOREM PanicUnreachable ==
    ASSUME "resume" \notin Calls
    PROVE  Spec => []NeverPanics
  <1>1. IndInv => NeverPanics
      BY DEF IndInv
  <1> QED
      BY <1>1, Invariance, PTL

\* Two CPUs never have the same page directory loaded, and using_cpu is right.
THEOREM DirectoriesExclusive ==
    ASSUME "resume" \notin Calls
    PROVE  Spec => []DirectoryExclusive
  <1>1. IndInv => DirectoryExclusive
      BY IndInvImplies
  <1> QED
      BY <1>1, Invariance, PTL

-----------------------------------------------------------------------------
(* Refinement                                                              *)

\* A step that leaves the list, the holders and the life cycles alone is a
\* stuttering step of Scheduler.
LEMMA Stutter ==
    ASSUME waiting_threads' = waiting_threads,
           Uncreated' = Uncreated,
           \A t \in Threads : status'[t] = "live" <=> status[t] = "live",
           \A c \in Cpus : HolderOf(c)' = HolderOf(c)
    PROVE  UNCHANGED Abstract!absVars
  <1>1. Queued' = Queued
      BY DEF Queued
  <1>2. Asleep' = Asleep
      BY <1>1 DEF Asleep
  <1>3. [c \in Cpus |-> HolderOf(c)]' = [c \in Cpus |-> HolderOf(c)]
      OBVIOUS
  <1> QED
      BY <1>2, <1>3 DEF Abstract!absVars

\* pop_back() hands the oldest ready thread to the CPU.
LEMMA SchedPopRefines ==
    ASSUME IndInv, NEW c \in Cpus, SchedPop(c)
    PROVE  Abstract!Dispatch(c)
  <1> USE DisjointAssumption DEF IndInv, SchedPop, TypeOK, threadVars
  <1>1. /\ waiting_threads # <<>>
        /\ local[c] = Head(waiting_threads)
        /\ local[c] \in Threads
        /\ thread[c] = None
      BY DEF QueueInv, PcInv, LocalPcs
  <1>2. HolderOf(c) = None /\ HolderOf(c)' = Head(waiting_threads)
      BY <1>1 DEF HolderOf
  <1>3. \A d \in Cpus : d # c => HolderOf(d)' = HolderOf(d)
      BY DEF HolderOf
  <1>4. [d \in Cpus |-> HolderOf(d)]' =
            [[d \in Cpus |-> HolderOf(d)] EXCEPT ![c] = Head(waiting_threads)]
      BY <1>2, <1>3
  <1>5. Uncreated' = Uncreated
      BY DEF Uncreated
  <1>6. \A t \in Threads : t # Head(waiting_threads) => (t \in Queued' <=> t \in Queued)
    <2> SUFFICES ASSUME NEW t \in Threads, t # Head(waiting_threads)
                 PROVE  t \in Queued' <=> t \in Queued
        OBVIOUS
    <2>1. ASSUME t \in Queued
          PROVE  t \in Queued'
      <3>1. PICK i \in 1..Len(waiting_threads) : waiting_threads[i] = t
          BY <2>1 DEF Queued
      <3>2. i # 1
          BY <1>1, <3>1, TailFacts
      <3>3. /\ i - 1 \in 1..Len(Tail(waiting_threads))
            /\ Tail(waiting_threads)[i - 1] = t
          BY <1>1, <3>1, <3>2, TailFacts
      <3> QED
          BY <3>3 DEF Queued
    <2>2. ASSUME t \in Queued'
          PROVE  t \in Queued
      <3>1. PICK i \in 1..Len(Tail(waiting_threads)) : Tail(waiting_threads)[i] = t
          BY <2>2 DEF Queued
      <3>2. i + 1 \in 1..Len(waiting_threads) /\ waiting_threads[i + 1] = t
          BY <1>1, <3>1, TailFacts
      <3> QED
          BY <3>2 DEF Queued
    <2> QED
        BY <2>1, <2>2
  <1>7. Head(waiting_threads) \in Queued
      BY <1>1, TailFacts DEF Queued
  <1>8. Asleep' = Asleep
    <2>1. Head(waiting_threads) \notin Asleep /\ Head(waiting_threads) \notin Asleep'
        BY <1>2, <1>7 DEF Asleep
    <2>2. ASSUME NEW t \in Threads, t # Head(waiting_threads)
          PROVE  (\A d \in Cpus : HolderOf(d)' # t) <=> (\A d \in Cpus : HolderOf(d) # t)
        BY <1>2, <1>3, <2>2
    <2>3. ASSUME NEW t \in Threads, t # Head(waiting_threads)
          PROVE  t \in Asleep' <=> t \in Asleep
        BY <1>6, <2>2, <2>3 DEF Asleep
    <2>4. \A t \in Threads : t \in Asleep' <=> t \in Asleep
        BY <2>1, <2>3
    <2> QED
        BY <2>4 DEF Asleep
  <1> QED
      BY <1>1, <1>2, <1>4, <1>5, <1>8 DEF Abstract!Dispatch

\* task_yield_done queues the thread again or parks it.
LEMMA RequeuePushRefines ==
    ASSUME IndInv, NEW c \in Cpus, RequeuePush(c)
    PROVE  Abstract!Requeue(c) \/ Abstract!Park(c)
  <1> USE DisjointAssumption DEF IndInv, RequeuePush, PushFront, MayRun,
          TypeOK, threadVars
  <1>1. local[c] \in Threads /\ local[c] # None /\ thread[c] = None
      BY DEF PcInv, LocalPcs
  <1>2. HolderOf(c) = local[c] /\ HolderOf(c)' = None
      BY <1>1 DEF HolderOf
  <1>3. \A d \in Cpus : d # c => HolderOf(d)' = HolderOf(d)
      BY DEF HolderOf
  <1>4. [d \in Cpus |-> HolderOf(d)]' = [[d \in Cpus |-> HolderOf(d)] EXCEPT ![c] = None]
      BY <1>2, <1>3
  <1>5. Uncreated' = Uncreated
      BY DEF Uncreated
  <1>6. \A d \in Cpus : HolderOf(d)' # local[c]
      BY <1>1, <1>2, <1>3 DEF HolderOf, HeldInv, PcInv
  <1>7. status[local[c]] = "live"
      BY <1>1 DEF LiveInv
  <1>8. local[c] \notin Queued
      BY <1>1 DEF Queued, QueueInv
  <1>9. \A t \in Threads : t # local[c] =>
            ((\A d \in Cpus : HolderOf(d)' # t) <=> (\A d \in Cpus : HolderOf(d) # t))
      BY <1>1, <1>2, <1>3
  <1>10. Asleep \subseteq Threads /\ Asleep' \subseteq Threads /\ local[c] \notin Asleep
      BY <1>2 DEF Asleep
  <1>11. CASE wchan[local[c]] = no_wchan
    <2>1. Queued' = Queued \cup {local[c]}
      <3>1. waiting_threads' = Append(waiting_threads, local[c])
          BY <1>11
      <3> QED
          BY <1>1, <3>1, AppendFacts DEF Queued
    <2>2. \A t \in Threads : t \in Asleep' <=> t \in Asleep
        BY <1>2, <1>9, <2>1 DEF Asleep
    <2> QED
        BY <1>1, <1>2, <1>4, <1>5, <1>10, <1>11, <2>2 DEF Abstract!Requeue
  <1>12. CASE wchan[local[c]] # no_wchan
    <2>1. Queued' = Queued
        BY <1>12 DEF Queued
    <2>2. local[c] \in Asleep'
        BY <1>1, <1>6, <1>7, <1>8, <2>1 DEF Asleep
    <2>3. \A t \in Threads : t # local[c] => (t \in Asleep' <=> t \in Asleep)
        BY <1>9, <2>1 DEF Asleep
    <2>4. Asleep' = Asleep \cup {local[c]}
        BY <1>10, <2>2, <2>3
    <2> QED
        BY <1>1, <1>2, <1>4, <1>5, <1>12, <2>4 DEF Abstract!Park
  <1> QED
      BY <1>11, <1>12

\* Thread::end retires the thread.
LEMMA EndThreadRefines ==
    ASSUME IndInv, NEW c \in Cpus, EndThread(c)
    PROVE  Abstract!Retire(c)
  <1> USE DisjointAssumption DEF IndInv, EndThread, TypeOK
  <1>1. local[c] \in Threads /\ local[c] # None /\ thread[c] = None
      BY DEF PcInv, LocalPcs
  <1>2. HolderOf(c) = local[c] /\ HolderOf(c)' = None
      BY <1>1 DEF HolderOf
  <1>3. \A d \in Cpus : d # c => HolderOf(d)' = HolderOf(d)
      BY DEF HolderOf
  <1>4. [d \in Cpus |-> HolderOf(d)]' = [[d \in Cpus |-> HolderOf(d)] EXCEPT ![c] = None]
      BY <1>2, <1>3
  <1>5. /\ status[local[c]] = "live"
        /\ status'[local[c]] \in {"ended", "freed"}
        /\ \A t \in Threads : t # local[c] => status'[t] = status[t]
      BY <1>1 DEF LiveInv
  <1>6. Uncreated' = Uncreated
      BY <1>1, <1>5 DEF Uncreated
  <1>7. \A t \in Threads : t # local[c] =>
            ((\A d \in Cpus : HolderOf(d)' # t) <=> (\A d \in Cpus : HolderOf(d) # t))
      BY <1>1, <1>2, <1>3
  <1>8. Queued' = Queued
      BY DEF Queued
  <1>9. \A t \in Threads : t \in Asleep' <=> t \in Asleep
      BY <1>2, <1>5, <1>7, <1>8 DEF Asleep
  <1>10. Asleep' = Asleep
      BY <1>9 DEF Asleep
  <1> QED
      BY <1>1, <1>2, <1>4, <1>6, <1>10 DEF Abstract!Retire

\* new_thread puts a fresh thread at the end of the queue.
LEMMA PushRefines ==
    ASSUME IndInv, NEW c \in Cpus, Push(c)
    PROVE  Abstract!Create(c)
  <1> USE DisjointAssumption DEF IndInv, TypeOK
  <1> PICK t \in Threads : Push(c)!(t)
      BY DEF Push
  <1> USE DEF Running, cpuVars, PushFront
  <1>1. tobj[t] \in Threads /\ status[tobj[t]] = "new"
      BY DEF NewInv
  <1>2. \A d \in Cpus : HolderOf(d)' = HolderOf(d)
      BY DEF HolderOf
  <1>3. [d \in Cpus |-> HolderOf(d)]' = [d \in Cpus |-> HolderOf(d)]
      BY <1>2
  <1>4. HolderOf(c) # None
      BY DEF HolderOf
  <1>5. /\ status'[tobj[t]] = "live"
        /\ \A u \in Threads : u # tobj[t] => status'[u] = status[u]
      BY <1>1
  <1>6. tobj[t] \in Uncreated /\ Uncreated' = Uncreated \ {tobj[t]}
      BY <1>1, <1>5 DEF Uncreated
  <1>7. Queued' = Queued \cup {tobj[t]}
    <2>1. waiting_threads' = Append(waiting_threads, tobj[t])
        OBVIOUS
    <2> QED
        BY <1>1, <2>1, AppendFacts DEF Queued
  <1>8. \A u \in Threads : u \in Asleep' <=> u \in Asleep
      BY <1>1, <1>2, <1>5, <1>7 DEF Asleep
  <1>9. Asleep' = Asleep
      BY <1>8 DEF Asleep
  <1> QED
      BY <1>3, <1>4, <1>6, <1>9 DEF Abstract!Create

\* The other steps of kernel code, and all other steps of threads, stutter.
LEMMA KernelStutters ==
    ASSUME IndInv, NEW c \in Cpus,
           \/ RequeueLock(c) \/ SchedLock(c) \/ SchedEmpty(c) \/ SchedBack(c)
           \/ ClaimLock(c) \/ ClaimCheck(c) \/ ClaimSet(c) \/ TaskEnter(c)
           \/ EndLock(c) \/ Timer(c) \/ YieldSwitch(c) \/ TaskEnd(c)
    PROVE  UNCHANGED Abstract!absVars
  <1> USE DisjointAssumption DEF IndInv, TypeOK
  <1>1. waiting_threads' = waiting_threads /\ status' = status
      BY DEF RequeueLock, SchedLock, SchedEmpty, SchedBack, ClaimLock,
             ClaimCheck, ClaimSet, TaskEnter, EndLock, Timer, YieldSwitch,
             TaskEnd, threadVars
  <1>2. ASSUME NEW d \in Cpus
        PROVE  HolderOf(d)' = HolderOf(d)
    <2>1. CASE RequeueLock(c) \/ SchedLock(c) \/ SchedEmpty(c) \/ ClaimLock(c)
               \/ ClaimCheck(c) \/ ClaimSet(c) \/ EndLock(c)
        BY <2>1 DEF RequeueLock, SchedLock, SchedEmpty, ClaimLock, ClaimCheck,
                    ClaimSet, EndLock, HolderOf
    <2>2. CASE SchedBack(c)
        BY <2>2 DEF SchedBack, HolderOf, PcInv, LocalPcs
    <2>3. CASE TaskEnter(c)
        BY <2>3 DEF TaskEnter, VmEnter, HolderOf, PcInv, LocalPcs, cpuVars
    <2>4. CASE Timer(c) \/ YieldSwitch(c)
        BY <2>4 DEF Timer, YieldSwitch, YieldDone, VmExit, Release, HolderOf, PcInv, LocalPcs
    <2>5. CASE TaskEnd(c)
        BY <2>5 DEF TaskEnd, Running, HolderOf, PcInv, LocalPcs
    <2> QED
        BY <2>1, <2>2, <2>3, <2>4, <2>5
  <1> QED
      BY <1>1, <1>2, Stutter DEF Uncreated

LEMMA ServiceStutters ==
    ASSUME IndInv, NEW c \in Cpus,
           \/ TaskYield(c) \/ LockYield(c) \/ TaskWait(c) \/ NewThread(c)
           \/ ThreadLock(c) \/ Construct(c) \/ PushLock(c)
    PROVE  UNCHANGED Abstract!absVars
  <1> USE DisjointAssumption DEF IndInv, TypeOK
  <1>1. waiting_threads' = waiting_threads /\ UNCHANGED cpuVars
      BY DEF TaskYield, LockYield, TaskWait, NewThread, ThreadLock, Construct,
             PushLock, YieldRead
  <1>2. \A d \in Cpus : HolderOf(d)' = HolderOf(d)
      BY <1>1 DEF HolderOf, cpuVars
  <1>3. CASE NewThread(c)
    <2>1. PICK u \in Threads : status[u] = "none"
                               /\ status' = [status EXCEPT ![u] = "new"]
        BY <1>3 DEF NewThread
    <2>2. /\ Uncreated' = Uncreated
          /\ \A t \in Threads : status'[t] = "live" <=> status[t] = "live"
        BY <2>1 DEF Uncreated
    <2> QED
        BY <1>1, <1>2, <2>2, Stutter
  <1>4. CASE ~NewThread(c)
    <2>1. status' = status
        BY <1>4 DEF TaskYield, LockYield, TaskWait, ThreadLock, Construct,
                    PushLock, YieldRead
    <2> QED
        BY <1>1, <1>2, <2>1, Stutter DEF Uncreated
  <1> QED
      BY <1>3, <1>4

\* The initial states are initial states of Scheduler.
LEMMA InitRefines == Init => Abstract!Init
  <1> SUFFICES ASSUME Init PROVE Abstract!Init
      OBVIOUS
  <1> USE DEF Init
  <1>1. [c \in Cpus |-> HolderOf(c)] = [c \in Cpus |-> None]
      BY DEF HolderOf
  <1>2. Uncreated = Threads \ {BootQueue[i] : i \in 1..Len(BootQueue)}
      BY DEF Uncreated, BootThreads
  <1>3. Asleep = {}
      BY DEF Asleep, Queued, BootThreads
  <1> QED
      BY <1>1, <1>2, <1>3 DEF Abstract!Init

\* Every step is a step of Scheduler or leaves its variables unchanged.
LEMMA NextRefines ==
    ASSUME "resume" \notin Calls, IndInv, [Next]_vars
    PROVE  [Abstract!Next]_(Abstract!absVars)
  <1>1. CASE UNCHANGED vars
    <2>1. /\ waiting_threads' = waiting_threads
          /\ Uncreated' = Uncreated
          /\ status' = status
        BY <1>1 DEF vars, threadVars, Uncreated
    <2>2. \A c \in Cpus : HolderOf(c)' = HolderOf(c)
        BY <1>1 DEF vars, cpuVars, HolderOf
    <2> QED
        BY <2>1, <2>2, Stutter
  <1>2. CASE Next
    <2>1. PICK c \in Cpus : KernelStep(c) \/ ThreadStep(c) \/ Timer(c)
        BY <1>2 DEF Next
    <2>2. ~Resume(c) /\ ~ResumeCheck(c)
        BY DEF Resume, ResumeCheck, IndInv, NewInv
    <2>3. CASE SchedPop(c) \/ RequeuePush(c) \/ EndThread(c) \/ Push(c)
        BY <2>3, SchedPopRefines, RequeuePushRefines, EndThreadRefines,
           PushRefines DEF Abstract!Next
    <2>4. CASE ~(SchedPop(c) \/ RequeuePush(c) \/ EndThread(c) \/ Push(c))
        BY <2>1, <2>2, <2>4, KernelStutters, ServiceStutters
           DEF KernelStep, ThreadStep
    <2> QED
        BY <2>3, <2>4
  <1> QED
      BY <1>1, <1>2

\* The scheduler, with its locks, interrupts and page directories, implements
\* the queue discipline of module Scheduler.
THEOREM Refinement ==
    ASSUME "resume" \notin Calls
    PROVE  Spec => ImplementsScheduler
  <1>1. Init => Abstract!Init
      BY InitRefines
  <1>2. IndInv /\ [Next]_vars => [Abstract!Next]_(Abstract!absVars)
      BY NextRefines
  <1> QED
      BY <1>1, <1>2, Invariance, PTL DEF Spec, Abstract!Spec, ImplementsScheduler
=============================================================================
