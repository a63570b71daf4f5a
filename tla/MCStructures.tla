---------------------------- MODULE MCStructures ----------------------------
(***************************************************************************)
(* The containers and smart pointers, strings and formatting, and the file *)
(* system, one of them in use at a time: they share no state, so each is   *)
(* checked on its own while the others stay as they were made.             *)
(***************************************************************************)
EXTENDS StaticList

CONSTANTS Entries, Alias, Vectors, Buffers, Counts, MaxItems, Shared, Unique, Objects, Null,
          Strings, Literals, MaxBytes, Formats, Numbers, IntBits, WideBits, NUM_BUFFER_SIZE,
          Volumes, Unreadable, Paths, MaxParsed, Again

VARIABLES
    used,
    l_next, l_object, l_live, l_head, l_tail, l_count, l_removing, l_panicked,
    v_buff, v_count, v_buff_size, v_memory, v_allocated, v_model, v_panicked,
    p_sref, p_uses, p_alive, p_op, p_uref, p_loose,
    t_string, t_string_ptr, t_byte_count, t_buffer, t_model, t_answer,
    f_volume, f_entry, f_inode, f_root, f_child, f_error_loc, f_result, f_contents,
    f_parsed, f_dropped

l_vars == <<l_next, l_object, l_live, l_head, l_tail, l_count, l_removing, l_panicked>>
v_vars == <<v_buff, v_count, v_buff_size, v_memory, v_allocated, v_model, v_panicked>>
p_vars == <<p_sref, p_uses, p_alive, p_op, p_uref, p_loose>>
t_vars == <<t_string, t_string_ptr, t_byte_count, t_buffer, t_model, t_answer>>
f_vars == <<f_volume, f_entry, f_inode, f_root, f_child, f_error_loc, f_result, f_contents,
            f_parsed, f_dropped>>

L == INSTANCE List WITH next <- l_next, object <- l_object, live <- l_live, head <- l_head,
                        tail <- l_tail, count <- l_count, removing <- l_removing,
                        panicked <- l_panicked

V == INSTANCE Vector WITH buff <- v_buff, count <- v_count, buff_size <- v_buff_size,
                          memory <- v_memory, allocated <- v_allocated, model <- v_model,
                          panicked <- v_panicked

P == INSTANCE Pointers WITH sref <- p_sref, uses <- p_uses, alive <- p_alive, op <- p_op,
                            uref <- p_uref, loose <- p_loose

T == INSTANCE Text WITH string <- t_string, string_ptr <- t_string_ptr,
                        byte_count <- t_byte_count, buffer <- t_buffer, model <- t_model,
                        answer <- t_answer, None <- Null

F == INSTANCE Filesystem WITH volume <- f_volume, entry <- f_entry, inode <- f_inode,
                              root <- f_root, child <- f_child, error_loc <- f_error_loc,
                              result <- f_result, contents <- f_contents, parsed <- f_parsed,
                              dropped <- f_dropped, None <- Null

everything == <<used, vars, l_vars, v_vars, p_vars, t_vars, f_vars>>

\* "/" and the first byte of a character of two.
SlashAndLead == {<<47>>, <<195>>}

Item(spec, length) == [spec |-> spec, length |-> length]

\* Each conversion alone, and one format of several with %n.
SomeFormats ==
    {<<Item(s, l)>> : s \in {"u", "d", "x", "o"}, l \in 0..2} \cup
    {<<Item("char", 0), Item("p", 0), Item("n", 0), Item("d", 1), Item("n", 0)>>}

\* Numbers at the edges of int and long long, of 8 and 16 bits, and of each count of digits.
Edges == {0, 1, 9, 10, 100, 127, 128, 129, 200, 255, 256, 999, 32767, 32768, 65535}

\* A directory in a directory, and a file beside it.
SomeVolumes ==
    {[i \in 1..4 |->
        [no |-> i,
         type |-> IF i = 3 THEN "FILE" ELSE "DIRECTORY",
         children |-> CASE i = 1 -> <<<<1, ".">>, <<1, "..">>, <<2, "a">>, <<3, "file">>>>
                        [] i = 2 -> <<<<2, ".">>, <<1, "..">>, <<4, "a">>>>
                        [] OTHER -> <<>>]]}

SomePaths ==
    UNION {[1..n -> {".", "..", "a", "file"}] : n \in 0..3} \cup
    {<<"", "contents">>, <<"a", "", "a", ".">>}

StructuresInit ==
    /\ used \in {"static_list", "list", "vector", "pointers", "strings", "formats", "files"}
    /\ used # "static_list" => objects = [i \in Slots |-> CHOOSE v \in Values : TRUE]
    /\ Init /\ L!Init /\ V!Init /\ P!Init /\ T!Init /\ F!Init
    /\ used # "files" => f_volume = F!Expanse

StructuresNext ==
    /\ UNCHANGED used
    /\ \/ used = "static_list" /\ Next /\ UNCHANGED <<l_vars, v_vars, p_vars, t_vars, f_vars>>
       \/ used = "list" /\ L!Next /\ UNCHANGED <<vars, v_vars, p_vars, t_vars, f_vars>>
       \/ used = "vector" /\ V!Next /\ UNCHANGED <<vars, l_vars, p_vars, t_vars, f_vars>>
       \/ used = "pointers" /\ P!Next /\ UNCHANGED <<vars, l_vars, v_vars, t_vars, f_vars>>
       \/ used = "strings" /\ T!StringsNext /\ UNCHANGED <<vars, l_vars, v_vars, p_vars, f_vars>>
       \/ used = "formats" /\ T!Converts /\ UNCHANGED <<vars, l_vars, v_vars, p_vars, f_vars>>
       \/ used = "files" /\ F!Next /\ UNCHANGED <<vars, l_vars, v_vars, p_vars, t_vars>>

StructuresSpec == StructuresInit /\ [][StructuresNext]_everything

\* list<T> keeps its entries linked, none leaks, and remove leaves no element with the
\* value (list.tpp:126-160).
ListLinked == L!Linked /\ L!RemovedAll

\* list<T> is a sequence to its callers (list.tpp:10-180).
LinkedListImplemented == L!ListImplemented

\* vector<T> keeps its elements when it grows, is copied or moved on to another vector, until
\* it is itself moved from; it writes none outside its buffer and shares no buffer
\* (vector.hpp:37-51, 96, 127, 219).
VectorSound == V!ContentsKept /\ V!InBuffer /\ V!BufferOwned

\* An object lives as long as a pointer to it, and the count of a shared_ptr is the number
\* of its copies (shared_ptr.tpp:9-54, unique_ptr.tpp:15).
PointersAlive == P!OwnedAlive /\ P!UsesCounted

\* A Utf8 has the bytes it should have, in a buffer it keeps alive (utf8.cpp:15-63).
TextKept == T!TextKept

\* Utf8 compares, finds and splits as sequences of bytes do (utf8.cpp:83-156); the sign of
\* compare is that of strcmp, the opposite of the documented one (CompareAsDocumented).
AnswersRight == T!AnswersRight

\* The digits that writef and Utf8::format make stand for the number (stream.cpp:45-132).
Converted == T!Converted

\* populate leads where the names of the path lead (filesystem.cpp:25-71).
Resolved == F!Resolved

\* No entry refers to a destroyed one, and inodes go before their file system
\* (filesystem.cpp:39, 103-107).
ScopeSafe == F!ScopeSafe
=============================================================================
