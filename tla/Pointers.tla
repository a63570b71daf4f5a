------------------------------ MODULE Pointers ------------------------------
(***************************************************************************)
(* shared_ptr and unique_ptr (include/structures).  An operation on a      *)
(* shared_ptr goes through up to three parts: count the new reference,     *)
(* give up the old one, set the pointer.  The count is read and written    *)
(* back with no lock, so another CPU may come in between.  Callers let     *)
(* only one CPU at a time work on a pointer, but copies of it are theirs.  *)
(***************************************************************************)
EXTENDS Integers, FiniteSets

CONSTANTS Shared, Unique,   \* the pointers of each kind
          Objects, Cpus, Null

VARIABLES
    sref,    \* shared_ptr::ref; data goes with it
    uses,    \* Data::uses of each object's data
    alive,   \* the objects that exist
    op,      \* what each CPU does, or Null
    uref,    \* unique_ptr::ref
    loose    \* objects a caller got from release

shared == <<sref, uses, op>>
vars == <<shared, alive, uref, loose>>

Init ==
    /\ sref = [p \in Shared |-> Null] /\ uses = [o \in Objects |-> 0]
    /\ alive = {}
    /\ op = [c \in Cpus |-> Null]
    /\ uref = [u \in Unique |-> Null] /\ loose = {}

-----------------------------------------------------------------------------
(* shared_ptr                                                              *)

Busy == UNION {IF op[c] = Null THEN {} ELSE {op[c].p, op[c].r} : c \in Cpus}

\* A copy counts itself before it gives up what it had: they may be the same.
FirstPart(kind) == IF kind = "copy" THEN "inc" ELSE "dec"

\* operator= in its three forms; the constructors are the same for a null pointer, and
\* the destructor is "null".
Begin(c, kind, p, r) ==
    /\ op[c] = Null /\ {p, r} \cap Busy = {}
    /\ kind = "null" => p = r
    /\ op' = [op EXCEPT ![c] = [kind |-> kind, p |-> p, r |-> r, part |-> FirstPart(kind), reg |-> -1]]
    /\ UNCHANGED <<sref, uses, alive, uref, loose>>

Part(c, part) == op[c] # Null /\ op[c].part = part

Goto(c, part) == op' = [op EXCEPT ![c].part = part, ![c].reg = -1]

\* uses ++ of r, or uses -- of p: a read, then a write.
Counted(c) == IF op[c].part = "inc" THEN sref[op[c].r] ELSE sref[op[c].p]
AfterCount(c) == IF op[c].part = "dec" THEN "check"
                 ELSE IF FirstPart(op[c].kind) = "inc" THEN "dec" ELSE "set"
Change(c) == IF op[c].part = "inc" THEN 1 ELSE -1

CountNothing(c) ==
    /\ Part(c, "inc") \/ Part(c, "dec")
    /\ Counted(c) = Null
    /\ Goto(c, IF op[c].part = "inc" THEN "dec" ELSE "set")
    /\ UNCHANGED <<sref, uses, alive, uref, loose>>

CountRead(c) ==
    /\ Part(c, "inc") \/ Part(c, "dec")
    /\ Counted(c) # Null /\ op[c].reg = -1
    /\ op' = [op EXCEPT ![c].reg = uses[Counted(c)]]
    /\ UNCHANGED <<sref, uses, alive, uref, loose>>

CountWrite(c) ==
    /\ Part(c, "inc") \/ Part(c, "dec")
    /\ Counted(c) # Null /\ op[c].reg # -1
    /\ uses' = [uses EXCEPT ![Counted(c)] = op[c].reg + Change(c)]
    /\ Goto(c, AfterCount(c))
    /\ UNCHANGED <<sref, alive, uref, loose>>

\* decrement_usage, when the count is down.
Check(c) ==
    /\ Part(c, "check")
    /\ alive' = IF uses[sref[op[c].p]] = 0 THEN alive \ {sref[op[c].p]} ELSE alive
    /\ Goto(c, "set")
    /\ UNCHANGED <<sref, uses, uref, loose>>

\* mutant of SetRef: the pointer moved from keeps its reference
SetRefKept(c) ==
    sref' = [sref EXCEPT ![op[c].p] = IF op[c].kind = "null" THEN Null ELSE sref[op[c].r]]

SetRef(c) ==
    sref' = CASE op[c].kind = "null" -> [sref EXCEPT ![op[c].p] = Null]
              [] op[c].kind = "copy" -> [sref EXCEPT ![op[c].p] = sref[op[c].r]]
              [] op[c].kind = "move" -> [[sref EXCEPT ![op[c].p] = sref[op[c].r]]
                                            EXCEPT ![op[c].r] = Null]

Set(c) ==
    /\ Part(c, "set") /\ op[c].kind # "reset"
    /\ SetRef(c)
    /\ op' = [op EXCEPT ![c] = Null]
    /\ UNCHANGED <<uses, alive, uref, loose>>

\* reset and make_shared: a new object, with a new count.
Reset(c) ==
    /\ Part(c, "set") /\ op[c].kind = "reset"
    /\ \E o \in Objects \ alive :
          /\ sref' = [sref EXCEPT ![op[c].p] = o]
          /\ uses' = [uses EXCEPT ![o] = 1]
          /\ alive' = alive \cup {o}
    /\ op' = [op EXCEPT ![c] = Null]
    /\ UNCHANGED <<uref, loose>>

Swap(p, r) ==
    /\ {p, r} \cap Busy = {}
    /\ sref' = [sref EXCEPT ![p] = sref[r], ![r] = sref[p]]
    /\ UNCHANGED <<uses, alive, op, uref, loose>>

-----------------------------------------------------------------------------
(* unique_ptr                                                              *)

Delete(u) == alive \ {uref[u]}

make_unique(u) ==
    /\ \E o \in Objects \ alive :
          /\ alive' = Delete(u) \cup {o}
          /\ uref' = [uref EXCEPT ![u] = o]
    /\ UNCHANGED <<shared, loose>>

\* operator=(unique_ptr&&); no caller moves a pointer into itself.
Move(u, v) ==
    /\ u # v
    /\ uref' = [uref EXCEPT ![u] = uref[v], ![v] = Null]
    /\ alive' = Delete(u)
    /\ UNCHANGED <<shared, loose>>

\* operator=(nullptr) and the destructor.
Drop(u) ==
    /\ uref' = [uref EXCEPT ![u] = Null]
    /\ alive' = Delete(u)
    /\ UNCHANGED <<shared, loose>>

release(u) ==
    /\ uref[u] # Null
    /\ loose' = loose \cup {uref[u]}
    /\ uref' = [uref EXCEPT ![u] = Null]
    /\ UNCHANGED <<shared, alive>>

reset(u, o) ==
    /\ o \in loose
    /\ uref' = [uref EXCEPT ![u] = o]
    /\ loose' = loose \ {o}
    /\ alive' = Delete(u)
    /\ UNCHANGED shared

SwapUnique(u, v) ==
    /\ uref' = [uref EXCEPT ![u] = uref[v], ![v] = uref[u]]
    /\ UNCHANGED <<shared, alive, loose>>

Next ==
    \/ \E c \in Cpus :
          \/ \E kind \in {"copy", "move", "null", "reset"}, p, r \in Shared : Begin(c, kind, p, r)
          \/ CountNothing(c) \/ CountRead(c) \/ CountWrite(c) \/ Check(c) \/ Set(c) \/ Reset(c)
    \/ \E p, r \in Shared : Swap(p, r)
    \/ \E u \in Unique : make_unique(u) \/ Drop(u) \/ release(u)
    \/ \E u, v \in Unique : Move(u, v) \/ SwapUnique(u, v)
    \/ \E u \in Unique, o \in Objects : reset(u, o)

Spec == Init /\ [][Next]_vars

-----------------------------------------------------------------------------
Holders(o) == {p \in Shared : sref[p] = o}

\* Outside an operation an object's count is the number of its pointers
\* (shared_ptr.tpp:9-54).
UsesCounted ==
    Busy = {} => \A o \in Objects : Holders(o) # {} => uses[o] = Cardinality(Holders(o))

\* No pointer is left to a deleted object and no object without a pointer: nothing is
\* used after it is freed, freed twice or leaked (shared_ptr.tpp:12, unique_ptr.tpp:15).
OwnedAlive ==
    /\ Busy = {} =>
          alive = ({sref[p] : p \in Shared} \cup {uref[u] : u \in Unique} \cup loose) \ {Null}
    /\ \A u, v \in Unique : u # v /\ uref[u] # Null => uref[u] # uref[v]
=============================================================================
