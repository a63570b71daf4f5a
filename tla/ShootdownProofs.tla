-------------------------- MODULE ShootdownProofs --------------------------
(***************************************************************************)
(* What module Shootdown promises, for every set of CPUs and every choice  *)
(* of operations: no command is overwritten before it is handled, and a    *)
(* change of a page table entry that has returned is seen by every TLB.    *)
(*                                                                         *)
(* Neither is inductive by itself.  The invariant below adds which step a  *)
(* holder of each mutex can be in, that a sender holds exactly one of      *)
(* kmem::mutex and the mutex of maps, what a target's status says while    *)
(* its sender waits, and who is still going to tell a CPU whose TLB is     *)
(* wrong.                                                                  *)
(***************************************************************************)
EXTENDS Shootdown, WellFoundedInduction, TLAPS

Sending(c) == pc[c] \in {"send", "wait"}

\* The CPU that c waits for, or commands next.
Target(c) == Min(todo[c])

\* c waits for i, and i has already done what it was told.
Answered(c, i) == pc[c] = "wait" /\ i = Target(c) /\ finished[i]

\* c has still to make i forget a translation.
WillTell(c, i) == Sending(c) /\ i \in todo[c] /\ ~Answered(c, i)

\* Where the holders of the mutexes are.
HoldersInv ==
    \A c \in Cpus :
        /\ pc[c] \in {"heap_held", "create"} => kmem = c
        /\ kmem = c => pc[c] \in {"heap_held", "create", "heap", "send", "wait"}
        /\ vm = c => Sending(c)
        /\ Sending(c) => (kmem = c <=> vm # c)
        /\ cmd = c <=> pc[c] = "wait"
        /\ pc[c] = "exit" => using = c
        /\ c \notin todo[c]
        /\ pc[c] = "wait" => todo[c] # {}

\* What a CPU waits for either is outstanding, or has been done.
AwaitedInv ==
    \A c \in Cpus : pc[c] = "wait" => (finished[Target(c)] <=> Target(c) \notin pending)

KernelInv ==
    \A i \in Cpus : Kernel \in stale[i] => \E c \in Cpus : kmem = c /\ WillTell(c, i)

UserInv ==
    \A i \in Cpus : User \in stale[i] =>
        /\ using = i
        /\ \E c \in Cpus : pc[c] \in {"written", "invlpg"} \/ (vm = c /\ WillTell(c, i))

CommandsInv ==
    CommandsTypeOK /\ HoldersInv /\ CommandAwaited /\ AwaitedInv /\ KernelInv /\ UserInv

-----------------------------------------------------------------------------
(* Operators                                                               *)

\* Min of a set of CPUs is one of them.
LEMMA MinMember ==
    ASSUME NEW T \in SUBSET Nat, T # {}
    PROVE  Min(T) \in T
  <1> DEFINE R == OpToRel(<, Nat)
  <1>1. IsWellFoundedOn(R, Nat)
      BY NatLessThanWellFounded
  <1>2. \A x, y \in Nat : x < y => <<x, y>> \in R
      BY DEF OpToRel
  <1> HIDE DEF R
  <1>3. PICK x \in T : \A y \in T : ~(<<y, x>> \in R)
      BY <1>1, WFMin
  <1>4. ASSUME NEW y \in T PROVE x <= y
    <2>1. x \in Nat /\ y \in Nat
        OBVIOUS
    <2>2. ~(y < x)
        BY <1>2, <1>3, <2>1, Zenon
    <2> QED
        BY <2>1, <2>2
  <1> QED
      BY <1>4 DEF Min

\* A CPU commands another one.
LEMMA TargetMember ==
    ASSUME CommandsTypeOK, NEW c \in Cpus, todo[c] # {}
    PROVE  Target(c) \in todo[c] /\ Target(c) \in Cpus
  BY MinMember, CpusAssumption DEF CommandsTypeOK, Target

\* The steps of c that change none of its targets.
LEMMA TargetSame ==
    ASSUME NEW c, todo'[c] = todo[c]
    PROVE  Target(c)' = Target(c)
  BY DEF Target

-----------------------------------------------------------------------------
(* The invariant                                                           *)

LEMMA CommandsInitInv == CommandsInit => CommandsInv
  <1> SUFFICES ASSUME CommandsInit PROVE CommandsInv
      OBVIOUS
  <1> USE CpusAssumption DEF CommandsInit
  <1>1. CommandsTypeOK
      BY DEF CommandsTypeOK, Steps
  <1>2. HoldersInv
      BY DEF HoldersInv, Sending
  <1>3. CommandAwaited /\ AwaitedInv
      BY DEF CommandAwaited, AwaitedInv
  <1>4. KernelInv /\ UserInv
      BY DEF KernelInv, UserInv
  <1> QED
      BY <1>1, <1>2, <1>3, <1>4 DEF CommandsInv

\* The operations that only lock and unlock: nothing that is being sent changes.
Quiet(c) ==
    \/ Begin(c) \/ HeapLock(c) \/ HeapUnlock(c) \/ CreateLock(c) \/ CreateUnlock(c)
    \/ Preempt(c)

LEMMA QuietInv ==
    ASSUME CommandsInv, NEW c \in Cpus, Quiet(c)
    PROVE  CommandsInv'
  <1> USE CpusAssumption DEF CommandsInv
  <1>1. /\ UNCHANGED <<todo, vm, cmd, using, arg, finished, pending, stale>>
        /\ pc[c] \in {"thread", "heap", "heap_held", "create"}
        /\ \E s \in {"thread", "heap", "heap_held", "create", "uninstall", "insert", "enter", "exit"} :
              /\ pc' = [pc EXCEPT ![c] = s]
              /\ s \in {"heap_held", "create"} => kmem' = c
              /\ kmem' = c /\ kmem = c => s = "heap"
              /\ kmem' = c => s \in {"heap", "heap_held", "create"}
              /\ s = "exit" => using = c
        /\ \A d \in Cpus \ {c} : kmem' = d <=> kmem = d
        /\ kmem' \in Cpus \cup {NoCpu}
      BY DEF Quiet, Begin, HeapLock, HeapUnlock, CreateLock, CreateUnlock, Preempt,
             Goto, At, locks, commands, CommandsTypeOK, HoldersInv
  <1>2. CommandsTypeOK'
      BY <1>1 DEF CommandsTypeOK, Steps
  <1>3. \A d \in Cpus : pc[d] \in {"send", "wait", "written", "invlpg"} => pc'[d] = pc[d]
      BY <1>1 DEF CommandsTypeOK
  <1>4. \A d \in Cpus : Target(d)' = Target(d)
      BY <1>1 DEF Target
  <1>5. HoldersInv'
      BY <1>1 DEF HoldersInv, Sending, CommandsTypeOK
  <1>6. CommandAwaited'
      BY <1>1, <1>3, <1>4 DEF CommandAwaited, Page, CommandsTypeOK, Target
  <1>7. AwaitedInv'
      BY <1>1, <1>4 DEF AwaitedInv, CommandsTypeOK
  <1>8. \A d, i \in Cpus : WillTell(d, i) => WillTell(d, i)' /\ (kmem = d => kmem' = d)
      BY <1>1, <1>3, <1>4 DEF WillTell, Sending, Answered, CommandsTypeOK
  <1>9. KernelInv' /\ UserInv'
      BY <1>1, <1>3, <1>8 DEF KernelInv, UserInv
  <1> QED
      BY <1>2, <1>5, <1>6, <1>7, <1>9

LEMMA SwitchInv ==
    ASSUME CommandsInv, NEW c \in Cpus, Enter(c) \/ Exit(c)
    PROVE  CommandsInv'
  <1> USE CpusAssumption DEF CommandsInv
  <1>1. /\ UNCHANGED <<todo, kmem, vm, cmd, arg, finished, pending>>
        /\ pc[c] \in {"enter", "exit"}
        /\ pc' = [pc EXCEPT ![c] = "thread"]
        /\ stale' = [stale EXCEPT ![c] = @ \ {User}]
        /\ vm = NoCpu
        /\ using' \in {c, NoCpu}
        /\ using \in {c, NoCpu}
      BY DEF Enter, Exit, Goto, At, Forget, locks, commands, HoldersInv
  <1>2. CommandsTypeOK'
      BY <1>1 DEF CommandsTypeOK, Steps
  <1>3. \A d \in Cpus : Target(d)' = Target(d)
      BY <1>1 DEF Target
  <1>4. HoldersInv'
      BY <1>1 DEF HoldersInv, Sending, CommandsTypeOK
  <1>5. CommandAwaited'
      BY <1>1, <1>3 DEF CommandAwaited, Page, CommandsTypeOK, Target
  <1>6. AwaitedInv'
      BY <1>1, <1>3 DEF AwaitedInv, CommandsTypeOK
  <1>7. \A d, i \in Cpus : WillTell(d, i) => WillTell(d, i)'
      BY <1>1, <1>3 DEF WillTell, Sending, Answered, CommandsTypeOK
  <1>8. KernelInv'
      BY <1>1, <1>7 DEF KernelInv, CommandsTypeOK
  <1>9. UserInv'
      BY <1>1 DEF UserInv, CommandsTypeOK
  <1> QED
      BY <1>2, <1>4, <1>5, <1>6, <1>8, <1>9

\* Every other CPU's TLB is wrong now, and every other CPU is going to be told.
LEMMA UninstallInv ==
    ASSUME CommandsInv, NEW c \in Cpus, Uninstall(c)
    PROVE  CommandsInv'
  <1> USE CpusAssumption DEF CommandsInv, Uninstall, Goto, At, commands
  <1>1. CommandsTypeOK'
      BY DEF CommandsTypeOK, Steps, Others
  <1>2. \A d \in Cpus \ {c} : Target(d)' = Target(d) /\ pc'[d] = pc[d] /\ todo'[d] = todo[d]
      BY DEF Target, CommandsTypeOK
  <1>3. HoldersInv'
      BY DEF HoldersInv, Sending, CommandsTypeOK, Others
  <1>4. CommandAwaited'
      BY <1>2 DEF CommandAwaited, Page, CommandsTypeOK, Target
  <1>5. AwaitedInv'
      BY <1>2 DEF AwaitedInv, CommandsTypeOK
  <1>6. \A d, i \in Cpus : WillTell(d, i) => WillTell(d, i)'
      BY <1>2 DEF WillTell, Sending, Answered, CommandsTypeOK
  <1>7. KernelInv'
      BY DEF KernelInv, WillTell, Sending, Answered, CommandsTypeOK, Others
  <1>8. UserInv'
      BY <1>2, <1>6 DEF UserInv, CommandsTypeOK, Kernel, User
  <1> QED
      BY <1>1, <1>3, <1>4, <1>5, <1>7, <1>8

LEMMA InsertInv ==
    ASSUME CommandsInv, NEW c \in Cpus, Insert(c)
    PROVE  CommandsInv'
  <1> USE CpusAssumption DEF CommandsInv, Insert, Goto, At, commands, locks
  <1>1. CommandsTypeOK'
      BY DEF CommandsTypeOK, Steps
  <1>2. \A d \in Cpus : Target(d)' = Target(d)
      BY DEF Target
  <1>3. HoldersInv'
      BY DEF HoldersInv, Sending, CommandsTypeOK
  <1>4. CommandAwaited'
      BY <1>2 DEF CommandAwaited, Page, CommandsTypeOK, Target
  <1>5. AwaitedInv'
      BY <1>2 DEF AwaitedInv, CommandsTypeOK
  <1>6. \A d, i \in Cpus : WillTell(d, i) => WillTell(d, i)'
      BY <1>2 DEF WillTell, Sending, Answered, CommandsTypeOK
  <1>7. KernelInv'
      BY <1>6 DEF KernelInv, CommandsTypeOK, Kernel, User
  <1>8. UserInv'
      BY DEF UserInv, CommandsTypeOK
  <1> QED
      BY <1>1, <1>3, <1>4, <1>5, <1>7, <1>8

LEMMA InvlpgBeginInv ==
    ASSUME CommandsInv, NEW c \in Cpus, InvlpgBegin(c)
    PROVE  CommandsInv'
  <1> USE CpusAssumption DEF CommandsInv, InvlpgBegin, Goto, At, commands, locks
  <1>1. CommandsTypeOK'
      BY DEF CommandsTypeOK, Steps
  <1>2. \A d \in Cpus : Target(d)' = Target(d)
      BY DEF Target
  <1>3. HoldersInv'
      BY DEF HoldersInv, Sending, CommandsTypeOK
  <1>4. CommandAwaited'
      BY <1>2 DEF CommandAwaited, Page, CommandsTypeOK, Target
  <1>5. AwaitedInv'
      BY <1>2 DEF AwaitedInv, CommandsTypeOK
  <1>6. \A d, i \in Cpus : WillTell(d, i) => WillTell(d, i)'
      BY <1>2 DEF WillTell, Sending, Answered, CommandsTypeOK
  <1>7. KernelInv'
      BY <1>6 DEF KernelInv, CommandsTypeOK
  <1>8. UserInv'
      BY <1>6 DEF UserInv, CommandsTypeOK
  <1> QED
      BY <1>1, <1>3, <1>4, <1>5, <1>7, <1>8

\* The CPU that uses the map is c, and forgets, or it is going to be told.
LEMMA InvlpgInv ==
    ASSUME CommandsInv, NEW c \in Cpus, Invlpg(c)
    PROVE  CommandsInv'
  <1> USE CpusAssumption DEF CommandsInv, Invlpg, Goto, At, commands
  <1>0. stale' = IF using = c THEN [stale EXCEPT ![c] = @ \ {User}] ELSE stale
      BY DEF Forget
  <1>1. CommandsTypeOK'
      BY <1>0 DEF CommandsTypeOK, Steps, Users
  <1>2. \A d \in Cpus \ {c} : Target(d)' = Target(d) /\ pc'[d] = pc[d] /\ todo'[d] = todo[d]
      BY DEF Target, CommandsTypeOK
  <1>3. HoldersInv'
      BY DEF HoldersInv, Sending, CommandsTypeOK, Users
  <1>4. CommandAwaited'
      BY <1>2 DEF CommandAwaited, Page, CommandsTypeOK, Target
  <1>5. AwaitedInv'
      BY <1>2 DEF AwaitedInv, CommandsTypeOK
  <1>6. \A d, i \in Cpus : WillTell(d, i) => WillTell(d, i)'
      BY <1>2 DEF WillTell, Sending, Answered, CommandsTypeOK
  <1>7. KernelInv'
      BY <1>0, <1>6 DEF KernelInv, CommandsTypeOK
  <1>8. UserInv'
      BY <1>0 DEF UserInv, WillTell, Sending, Answered, CommandsTypeOK, Users
  <1> QED
      BY <1>1, <1>3, <1>4, <1>5, <1>7, <1>8

LEMMA SendInv ==
    ASSUME CommandsInv, NEW c \in Cpus, Send(c)
    PROVE  CommandsInv'
  <1> DEFINE i == Target(c)
  <1> USE CpusAssumption DEF CommandsInv
  <1>0. i \in Cpus /\ i \in todo[c]
      BY TargetMember DEF Send
  <1>1. /\ pc[c] = "send" /\ pc' = [pc EXCEPT ![c] = "wait"]
        /\ cmd = NoCpu /\ cmd' = c
        /\ finished' = [finished EXCEPT ![i] = FALSE]
        /\ arg' = [arg EXCEPT ![i] = Page(c)]
        /\ pending' = pending \cup {i}
        /\ UNCHANGED <<todo, kmem, vm, using, stale>>
      BY DEF Send, Goto, At, Target
  <1>2. \A d \in Cpus : Target(d)' = Target(d)
      BY <1>1 DEF Target
  <1> HIDE DEF i
  <1>3. CommandsTypeOK'
      BY <1>0, <1>1 DEF CommandsTypeOK, Steps, Page
  <1>4. HoldersInv'
      BY <1>0, <1>1 DEF HoldersInv, Sending, CommandsTypeOK
  <1>5. pending = {}
      BY <1>1 DEF CommandAwaited
  <1>6. CommandAwaited'
      BY <1>0, <1>1, <1>2, <1>5, ZenonT(60) DEF CommandAwaited, Page, CommandsTypeOK, Target, i
  <1>7. AwaitedInv'
      BY <1>0, <1>1, <1>2 DEF AwaitedInv, CommandsTypeOK, HoldersInv, i
  <1>8. \A d, j \in Cpus : WillTell(d, j) => WillTell(d, j)'
      BY <1>0, <1>1, <1>2 DEF WillTell, Sending, Answered, CommandsTypeOK, HoldersInv, i
  <1>9. KernelInv' /\ UserInv'
      BY <1>1, <1>8 DEF KernelInv, UserInv, CommandsTypeOK
  <1> QED
      BY <1>3, <1>4, <1>6, <1>7, <1>9

LEMMA FinishedInv ==
    ASSUME CommandsInv, NEW c \in Cpus, Finished(c)
    PROVE  CommandsInv'
  <1> DEFINE i == Target(c)
  <1> USE CpusAssumption DEF CommandsInv
  <1>0. i \in Cpus /\ i \in todo[c]
      BY TargetMember DEF Finished, HoldersInv, At
  <1>1. /\ pc[c] = "wait" /\ pc' = [pc EXCEPT ![c] = "send"]
        /\ finished[i]
        /\ cmd' = NoCpu
        /\ todo' = [todo EXCEPT ![c] = @ \ {i}]
        /\ UNCHANGED <<kmem, vm, using, arg, finished, pending, stale>>
      BY DEF Finished, Goto, At, Target, commands
  <1>2. \A d \in Cpus \ {c} : Target(d)' = Target(d) /\ pc'[d] = pc[d] /\ todo'[d] = todo[d]
      BY <1>1 DEF Target, CommandsTypeOK
  <1>3. CommandsTypeOK'
      BY <1>0, <1>1 DEF CommandsTypeOK, Steps
  <1>4. HoldersInv'
      BY <1>0, <1>1 DEF HoldersInv, Sending, CommandsTypeOK
  <1>5. pending = {}
      BY <1>1 DEF CommandAwaited, HoldersInv, Target
  <1>6. CommandAwaited'
      BY <1>1, <1>5 DEF CommandAwaited
  <1>7. AwaitedInv'
      BY <1>1, <1>2 DEF AwaitedInv, CommandsTypeOK
  <1>8. \A d, j \in Cpus : WillTell(d, j) => WillTell(d, j)'
      BY <1>0, <1>1, <1>2 DEF WillTell, Sending, Answered, CommandsTypeOK
  <1>9. KernelInv' /\ UserInv'
      BY <1>1, <1>2, <1>8 DEF KernelInv, UserInv, CommandsTypeOK
  <1> QED
      BY <1>3, <1>4, <1>6, <1>7, <1>9

LEMMA DoneInv ==
    ASSUME CommandsInv, NEW c \in Cpus, Done(c)
    PROVE  CommandsInv'
  <1> USE CpusAssumption DEF CommandsInv, Done, Goto, At, commands
  <1>1. CommandsTypeOK'
      BY DEF CommandsTypeOK, Steps
  <1>2. \A d \in Cpus : Target(d)' = Target(d)
      BY DEF Target
  <1>3. HoldersInv'
      BY DEF HoldersInv, Sending, CommandsTypeOK
  <1>4. CommandAwaited'
      BY <1>2 DEF CommandAwaited, Page, CommandsTypeOK, Target
  <1>5. AwaitedInv'
      BY <1>2 DEF AwaitedInv, CommandsTypeOK
  <1>6. \A d, i \in Cpus : WillTell(d, i) => d # c /\ WillTell(d, i)'
      BY <1>2 DEF WillTell, Sending, Answered, CommandsTypeOK
  <1>7. KernelInv' /\ UserInv'
      BY <1>6 DEF KernelInv, UserInv, CommandsTypeOK
  <1> QED
      BY <1>1, <1>3, <1>4, <1>5, <1>7

\* The target forgets what its sender told it to, and nobody else waits for it.
LEMMA HandleCommandInv ==
    ASSUME CommandsInv, NEW c \in Cpus, HandleCommand(c)
    PROVE  CommandsInv'
  <1> USE CpusAssumption DEF CommandsInv
  <1>1. /\ c \in pending
        /\ stale' = [stale EXCEPT ![c] = @ \ {arg[c]}]
        /\ finished' = [finished EXCEPT ![c] = TRUE]
        /\ pending' = pending \ {c}
        /\ UNCHANGED <<pc, todo, kmem, vm, cmd, using, arg>>
      BY DEF HandleCommand, Forget, locks
  <1>2. PICK d \in Cpus : /\ cmd = d /\ pc[d] = "wait"
                          /\ c = Target(d) /\ arg[c] = Page(d) /\ ~finished[c]
      BY <1>1 DEF CommandAwaited, Target
  <1>3. \A e \in Cpus : Target(e)' = Target(e)
      BY <1>1 DEF Target
  <1>4. CommandsTypeOK'
      BY <1>1 DEF CommandsTypeOK
  <1>5. HoldersInv'
      BY <1>1 DEF HoldersInv, Sending
  <1>6. CommandAwaited'
      BY <1>1, <1>2 DEF CommandAwaited, Page, CommandsTypeOK, Target
  <1>7. AwaitedInv'
      BY <1>1, <1>2, <1>3 DEF AwaitedInv, CommandsTypeOK, HoldersInv
  <1>8. \A e, i \in Cpus : WillTell(e, i) => WillTell(e, i)' \/ (e = d /\ i = c)
      BY <1>1, <1>2, <1>3 DEF WillTell, Sending, Answered, CommandsTypeOK, HoldersInv
  <1>9. KernelInv'
      BY <1>1, <1>2, <1>8 DEF KernelInv, CommandsTypeOK, Page
  <1>10. UserInv'
      BY <1>1, <1>2, <1>8 DEF UserInv, CommandsTypeOK, Page, HoldersInv, Sending
  <1> QED
      BY <1>4, <1>5, <1>6, <1>7, <1>9, <1>10

-----------------------------------------------------------------------------
(* Theorems                                                                *)

\* Whatever the CPUs do in which order, the invariant is kept.
THEOREM CommandsInvariant == CommandsSpec => []CommandsInv
  <1>1. CommandsInv /\ [CommandsNext]_commandVars => CommandsInv'
    <2> SUFFICES ASSUME CommandsInv, [CommandsNext]_commandVars PROVE CommandsInv'
        OBVIOUS
    <2>1. CASE UNCHANGED commandVars
        BY <2>1 DEF commandVars, locks, commands, CommandsInv, CommandsTypeOK, HoldersInv,
               CommandAwaited, AwaitedInv, KernelInv, UserInv, WillTell, Answered, Sending,
               Target, Page
    <2>2. CASE CommandsNext
      <3> PICK c \in Cpus :
             \/ Quiet(c) \/ Enter(c) \/ Exit(c) \/ Uninstall(c) \/ Insert(c)
             \/ InvlpgBegin(c) \/ Invlpg(c)
             \/ Send(c) \/ Finished(c) \/ Done(c) \/ HandleCommand(c)
          BY <2>2 DEF CommandsNext, Step, Quiet
      <3> QED
          BY QuietInv, SwitchInv, UninstallInv, InsertInv, InvlpgBeginInv, InvlpgInv,
             SendInv, FinishedInv, DoneInv, HandleCommandInv
    <2> QED
        BY <2>1, <2>2
  <1> QED
      BY <1>1, CommandsInitInv, PTL DEF CommandsSpec

\* No command is overwritten before it is handled: send_command fills in a CPU's only
\* slot and does not let another sender come before the answer (lapic.cpp:192-206).
THEOREM CommandsAwaited == CommandsSpec => [](CommandsTypeOK /\ CommandAwaited)
  <1>1. CommandsInv => CommandsTypeOK /\ CommandAwaited
      BY DEF CommandsInv
  <1> QED
      BY <1>1, CommandsInvariant, PTL

\* kuninstall and Map::insert return when every TLB is right, although commands,
\* preemptions and changes of page directory come between (page.cpp:369, vm.cpp:204).
THEOREM TranslationsFlushed == CommandsSpec => []Flushed
  <1>1. CommandsInv => Flushed
      BY DEF CommandsInv, Flushed, KernelFlushed, UserFlushed, KernelInv, UserInv, WillTell,
             Sending
  <1> QED
      BY <1>1, CommandsInvariant, PTL

=============================================================================
