----------------------------- MODULE Filesystem -----------------------------
(***************************************************************************)
(* Paths and inodes (src/fs/filesystem.cpp, src/fs/expanse_fs.cpp): a      *)
(* client, as main_thread is one (src/main/main.cpp:54-78), makes a file   *)
(* system and the entry of its root, parses paths, populates them, maps    *)
(* the file it finds, and leaves its scope.                                *)
(*                                                                         *)
(* An entry or an inode lives while a shared_ptr leads to it (module       *)
(* Pointers); FilePathEntry::ref, Inode::fs and the fs of the contents are *)
(* not shared_ptrs.  A path is the sequence of what stands between its     *)
(* slashes, which may be empty.                                            *)
(***************************************************************************)
EXTENDS Naturals, Sequences, FiniteSets, SequencesExt

CONSTANTS
    Volumes,     \* file systems besides ExpanseFs: what read_inode makes of each inode number
    Unreadable,  \* the inode numbers for which read_inode returns an error
    Paths,       \* the paths the client parses
    MaxParsed,   \* bound: paths the client parses
    Again,       \* whether the client populates an entry a second time
    None

VARIABLES
    volume,      \* the file system
    entry,       \* the FilePathEntry objects: records by id
    inode,       \* the Inode objects: the number each was read from, by id
    root, child, \* the entries the client holds
    error_loc,   \* its FilePathEntry that populate assigns to: a record
    result,      \* what populate returned last, for child
    contents,    \* the inodes whose contents the client has put in its vm::Map
    parsed,      \* the paths parsed so far
    dropped      \* the local variables of the client that are destroyed

vars == <<volume, entry, inode, root, child, error_loc, result, contents, parsed, dropped>>

ROOT == 1

Directory(no, children) == [no |-> no, type |-> "DIRECTORY", children |-> children]
File(no) == [no |-> no, type |-> "FILE", children |-> <<>>]

\* ExpanseFs::read_inode: the Inode it makes of each number it knows, the children
\* of a directory being pairs of a number and a name.
Expanse == <<Directory(1, <<<<1, ".">>, <<1, "..">>, <<2, "contents">>>>), File(3)>>

\* FilePathEntry::FilePathEntry
Entry(name, parent, i) == [name |-> name, parent |-> parent, ref |-> None, inode |-> i]

-----------------------------------------------------------------------------
(* What is alive                                                           *)

\* An entry and its parents, up to the root.
RECURSIVE Chain(_, _)
Chain(e, i) == IF i = None THEN <<>> ELSE Append(Chain(e, e[i].parent), i)

LiveEntries(e, held) == UNION {ToSet(Chain(e, i)) : i \in held}

\* Destroys the entries, and then the inodes, that no shared_ptr leads to.
Destroy(e, n, held, loc) ==
    LET live == LiveEntries(e, held)
        used == {e[i].inode : i \in live} \cup {loc.inode}
    IN  /\ entry' = [i \in live |-> e[i]]
        /\ inode' = [i \in used \ {None} |-> n[i]]

Fresh(f) == CHOOSE i \in 1..(Cardinality(DOMAIN f) + 1) : i \notin DOMAIN f

-----------------------------------------------------------------------------
(* populate                                                                *)

RECURSIVE get_inode(_, _)
get_inode(e, i) == IF e[i].ref # None THEN get_inode(e, e[i].ref) ELSE e[i].inode

RECURSIVE logical_parent(_, _)
logical_parent(e, i) ==
    IF e[i].ref # None THEN logical_parent(e, e[i].ref)
    ELSE IF e[i].parent = None THEN i ELSE e[i].parent

\* mutant of Up: the directory itself
UpNowhere(e, lp) == lp

\* The entry that ".." in the directory lp stands for.
Up(e, lp) == logical_parent(e, lp)

\* mutant of Copy: the reference to the parent is not copied
CopyLoose(x) == [x EXCEPT !.parent = None]

\* The implicit assignment error_loc = x.
Copy(x) == x

\* The entry to which ENOTDIR is due.
Blame(s, i) == s.entry[s.entry[i].parent]

\* The entries InodeEntry with the name of entry i.
Named(s, dir, i) == SelectSeq(volume[s.inode[dir]].children, LAMBDA c : c[2] = s.entry[i].name)

\* Looks entry i up in the directory of lp.  A state s of the call has the objects,
\* error_loc and err, which is "unset" until something has been assigned to it.
LookUp(s, i, lp) ==
    LET dir == get_inode(s.entry, lp)
        here == [s EXCEPT !.loc = Copy(s.entry[i])]
        found == Named(s, dir, i)
        new == Fresh(s.inode)
    IN  IF dir = None THEN {[s EXCEPT !.err = "fault"]}
        ELSE IF volume[s.inode[dir]].type # "DIRECTORY"
             THEN {[here EXCEPT !.loc = Copy(Blame(s, i)), !.err = "ENOTDIR"]}
        ELSE IF found = <<>> THEN {[here EXCEPT !.err = "ENOENT"]}
        ELSE IF found[1][1] \in Unreadable
             THEN {[here EXCEPT !.entry[i].inode = None, !.err = err] :
                      err \in IF s.err = "unset" THEN {"EOK", "garbage"} ELSE {s.err}}
        ELSE {[here EXCEPT !.entry[i].inode = new, !.err = "EOK",
                           !.inode = [j \in DOMAIN s.inode \cup {new} |->
                                         IF j = new THEN found[1][1] ELSE s.inode[j]]]}

\* FilePathEntry::populate of entry i: the states in which it may return.
RECURSIVE Populate(_, _)
Populate(s, i) ==
    LET lp == logical_parent(s.entry, i)
        above == IF get_inode(s.entry, lp) # None THEN {s}
                 ELSE IF s.entry[i].parent = None THEN {[s EXCEPT !.err = "fault"]}
                 ELSE Populate(s, s.entry[i].parent)
        Refer(r, j) == {[r EXCEPT !.entry[i].ref = j, !.err = "EOK"]}
    IN  UNION {IF r.err \notin {"unset", "EOK"} THEN {r}
               ELSE IF s.entry[i].name = "." THEN Refer(r, lp)
               ELSE IF s.entry[i].name = ".." THEN Refer(r, Up(r.entry, lp))
               ELSE LookUp(r, i, lp) : r \in above}

-----------------------------------------------------------------------------
(* The client                                                              *)

\* The file system, its storage and the entry of its root.
Init ==
    /\ volume \in Volumes \cup {Expanse}
    /\ entry = [i \in {1} |-> Entry("", None, IF ROOT \in Unreadable THEN None ELSE 1)]
    /\ inode = [i \in {1} \ Unreadable |-> ROOT]
    /\ root = 1 /\ child = None
    /\ error_loc = Entry("", None, None)
    /\ result = None /\ contents = {} /\ parsed = 0 /\ dropped = 0

\* parse_path: an entry for every name on the path, below the base.
Parse ==
    \E path \in Paths, base \in {root, child} \ {None} :
        LET add(s, name) ==
                LET new == Fresh(s.entry)
                IN  IF name = "" THEN s
                    ELSE [last |-> new,
                          entry |-> [i \in DOMAIN s.entry \cup {new} |->
                                        IF i = new THEN Entry(name, s.last, None)
                                        ELSE s.entry[i]]]
            made == FoldLeft(add, [last |-> base, entry |-> entry], path)
        IN  /\ dropped = 0 /\ parsed < MaxParsed /\ result # "fault"
            /\ parsed' = parsed + 1
            /\ child' = made.last
            /\ result' = IF made.last = child THEN result ELSE None
            /\ Destroy(made.entry, inode, {root, made.last, error_loc.parent}, error_loc)
            /\ UNCHANGED <<volume, root, error_loc, contents, dropped>>

populate ==
    /\ dropped = 0 /\ child # None
    /\ \/ result = None
       \/ Again /\ result = "EOK"
    /\ \E s \in Populate([entry |-> entry, inode |-> inode, loc |-> error_loc,
                          err |-> "unset"], child) :
          /\ error_loc' = s.loc
          /\ result' = s.err
          /\ Destroy(s.entry, s.inode, {root, child, s.loc.parent}, s.loc)
    /\ UNCHANGED <<volume, root, child, contents, parsed, dropped>>

\* Map::add_object of the contents of a file: a shared_ptr to them, not to the inode.
MapContents ==
    LET i == get_inode(entry, child)
    IN  /\ dropped = 0 /\ result = "EOK"
        /\ i # None /\ volume[inode[i]].type = "FILE"
        /\ contents' = contents \cup {inode[i]}
        /\ UNCHANGED <<volume, entry, inode, root, child, error_loc, result, parsed, dropped>>

\* The client's variables in the order in which they are destroyed, the last declared
\* first.
Locals == <<"error_loc", "child", "root", "fs">>

\* The destructors at the end of the scope; that of the file system panics while there
\* are inodes.
Leave ==
    /\ dropped < Len(Locals) /\ result \notin {"fault", "panic"}
    /\ LET v == Locals[dropped + 1]
           held == [l \in ToSet(Locals) |-> IF l = v THEN None
                      ELSE IF l = "root" THEN root ELSE IF l = "child" THEN child
                      ELSE error_loc.parent]
           loc == IF v = "error_loc" THEN Entry("", None, None) ELSE error_loc
       IN  /\ root' = held["root"] /\ child' = held["child"]
           /\ error_loc' = loc
           /\ result' = IF v = "fs" /\ inode # <<>> THEN "panic" ELSE None
           /\ Destroy(entry, inode, {root', child', loc.parent} \ {None}, loc)
    /\ dropped' = dropped + 1
    /\ UNCHANGED <<volume, contents, parsed>>

Next == Parse \/ populate \/ MapContents \/ Leave

Spec == Init /\ [][Next]_vars

-----------------------------------------------------------------------------
(* Properties                                                              *)

\* Every variable has its type.
TypeOK ==
    /\ volume \in Volumes \cup {Expanse} /\ parsed \in 0..MaxParsed /\ dropped \in 0..Len(Locals)
    /\ \A i \in DOMAIN entry : entry[i].inode \in DOMAIN inode \cup {None}
    /\ {root, child} \subseteq DOMAIN entry \cup {None}
    /\ result \in {None, "EOK", "ENOENT", "ENOTDIR", "garbage", "fault", "panic"}

\* The directories a walk over the names of the path passes, from the root: "." stays,
\* ".." goes back but not beyond the root.
Walked(names) ==
    LET visit(w, name) ==
            LET hit == SelectSeq(volume[Last(w)].children, LAMBDA c : c[2] = name)
            IN  IF name = "." THEN w
                ELSE IF name = ".." THEN IF Len(w) = 1 THEN w ELSE Front(w)
                ELSE Append(w, hit[1][1])
    IN  FoldLeft(visit, <<ROOT>>, names)

Names(i) == [k \in 1..(Len(Chain(entry, i)) - 1) |-> entry[Chain(entry, i)[k + 1]].name]

\* A path that has been populated leads to the inode that a walk over its names does,
\* whatever "." and ".." it holds and however much of it was populated before; a refusal
\* names an entry that is missing in its directory, or one that is no directory
\* (filesystem.cpp:25-71).  Not so with an inode that cannot be read: populate returns
\* the err it has not assigned, or the EOK of the parent (filesystem.cpp:65).  Nor when
\* an entry is populated again: what "." and ".." stand for moves up (filesystem.cpp:28).
Resolved ==
    /\ result = "EOK"
          => /\ get_inode(entry, child) # None
             /\ inode[get_inode(entry, child)] = Last(Walked(Names(child)))
    /\ result = "ENOENT"
          => LET dir == IF error_loc.parent = None THEN error_loc.inode
                        ELSE get_inode(entry, error_loc.parent)
             IN  \A c \in ToSet(volume[inode[dir]].children) : c[2] # error_loc.name
    /\ result = "ENOTDIR"
          => LET i == IF error_loc.ref = None THEN error_loc.inode
                      ELSE get_inode(entry, error_loc.ref)
             IN  volume[inode[i]].type # "DIRECTORY"

\* No entry, nor the copy in error_loc, refers to an entry that has been destroyed
\* (filesystem.cpp:39, 44: ref is a plain pointer), and the file system is destroyed
\* after its inodes (filesystem.cpp:103-107).
ScopeSafe ==
    /\ \A x \in {entry[i] : i \in DOMAIN entry} \cup {error_loc} :
          x.ref \in DOMAIN entry \cup {None}
    /\ result # "panic"

\* Not so: "." and ".." behind a file succeed (filesystem.hpp:179: "`error_loc`
\* appears in the middle of the path but is not actually a directory").
FilesAreLeaves ==
    result = "EOK"
       => \A k \in 1..(Len(Names(child)) - 1) :
             volume[Last(Walked(SubSeq(Names(child), 1, k)))].type = "DIRECTORY"

\* Not so for ExpanseFs, which makes inode 2 with the number 3 (expanse_fs.cpp:34).
NumberKept == \A i \in DOMAIN inode : volume[inode[i]].no = inode[i]
=============================================================================
