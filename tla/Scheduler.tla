------------------------------ MODULE Scheduler ------------------------------
(***************************************************************************)
(* What the thread scheduler promises, without locks, stacks and page      *)
(* directories: ready threads form a queue; a CPU without a thread takes   *)
(* the oldest one; a CPU gives its thread back to the end of the queue,    *)
(* parks it or retires it; a thread is in one of these places at a time.   *)
(***************************************************************************)
EXTENDS Naturals, Sequences

CONSTANTS Cpus, Threads, BootQueue, None

VARIABLES ready,    \* the queue, oldest thread first
          holder,   \* the thread each CPU is responsible for, or None
          fresh,    \* threads that have not been created yet
          parked    \* threads that wait for an event

absVars == <<ready, holder, fresh, parked>>

Init ==
    /\ ready = BootQueue
    /\ holder = [c \in Cpus |-> None]
    /\ fresh = Threads \ {BootQueue[i] : i \in 1..Len(BootQueue)}
    /\ parked = {}

Dispatch(c) ==
    /\ holder[c] = None
    /\ ready # <<>>
    /\ holder' = [holder EXCEPT ![c] = Head(ready)]
    /\ ready' = Tail(ready)
    /\ UNCHANGED <<fresh, parked>>

Requeue(c) ==
    /\ holder[c] # None
    /\ ready' = Append(ready, holder[c])
    /\ holder' = [holder EXCEPT ![c] = None]
    /\ UNCHANGED <<fresh, parked>>

Park(c) ==
    /\ holder[c] # None
    /\ parked' = parked \cup {holder[c]}
    /\ holder' = [holder EXCEPT ![c] = None]
    /\ UNCHANGED <<ready, fresh>>

Retire(c) ==
    /\ holder[c] # None
    /\ holder' = [holder EXCEPT ![c] = None]
    /\ UNCHANGED <<ready, fresh, parked>>

\* Only a thread creates threads.
Create(c) ==
    \E t \in fresh :
        /\ holder[c] # None
        /\ ready' = Append(ready, t)
        /\ fresh' = fresh \ {t}
        /\ UNCHANGED <<holder, parked>>

Next == \E c \in Cpus :
    Dispatch(c) \/ Requeue(c) \/ Park(c) \/ Retire(c) \/ Create(c)

Spec == Init /\ [][Next]_absVars
=============================================================================
