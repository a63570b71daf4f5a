-------------------------------- MODULE Text --------------------------------
(***************************************************************************)
(* Strings and formatting: Utf8 (src/structures/utf8.cpp), the splitting   *)
(* of a path with it (parse_path, src/fs/filesystem.cpp:109-130), and the  *)
(* conversions of Stream::writef (src/structures/stream.cpp) and of        *)
(* Utf8::format, which are two copies of one algorithm.                    *)
(*                                                                         *)
(* A Utf8 has a pointer to its bytes, which are a literal or a buffer, a   *)
(* shared_ptr to the buffer if it owns one, and a byte count.  Bytes are   *)
(* numbers.  int and long have IntBits, long long has WideBits.            *)
(***************************************************************************)
EXTENDS Integers, Sequences, FiniteSets, SequencesExt, FiniteSetsExt

CONSTANTS
    Strings,     \* the Utf8 objects
    Literals,    \* the string literals: sequences of bytes
    Buffers,     \* heap blocks for strings
    MaxBytes,    \* bound: the bytes of a string that operations are applied to
    Formats,     \* format strings: sequences of items
    Numbers,     \* the integers passed to them
    IntBits, WideBits,
    NUM_BUFFER_SIZE,
    None

VARIABLES
    string,      \* what each Utf8 points to: a literal or a buffer
    string_ptr,  \* the buffer it owns, or None
    byte_count,
    buffer,      \* the bytes in each buffer in use
    model,       \* history: the bytes each Utf8 should have
    answer       \* the last call that returned something else, with what it returned

vars == <<string, string_ptr, byte_count, buffer, model, answer>>

Slash == 47
npos == -1
beyond == -2    \* a position behind the terminator, or a fault on the way to one

Literal(bytes) == [literal |-> TRUE, at |-> bytes]
Buffer(b) == [literal |-> FALSE, at |-> b]
Empty == Literal(<<>>)

Init ==
    /\ string = [u \in Strings |-> Empty]
    /\ string_ptr = [u \in Strings |-> None]
    /\ byte_count = [u \in Strings |-> 0]
    /\ buffer = [b \in {} |-> <<>>]
    /\ model = [u \in Strings |-> <<>>]
    /\ answer = None

-----------------------------------------------------------------------------
(* Reading                                                                 *)

\* The bytes that u points to, and operator[]: behind them is the terminator.
Bytes(u) == IF string[u].literal THEN string[u].at ELSE buffer[string[u].at]
Byte(u, i) == IF i = Len(Bytes(u)) THEN 0 ELSE Bytes(u)[i + 1]

\* The type char is signed.
Char(b) == IF b > 127 THEN b - 256 ELSE b

\* mutant of find: the last byte is passed over
findShort(u, c, pos) ==
    LET hits == {i \in pos..(byte_count[u] - 2) : Byte(u, i) = c}
    IN  IF hits = {} THEN npos ELSE Min(hits)

\* Utf8::find of a character; the terminator is looked at too.
find(u, c, pos) ==
    LET hits == {i \in pos..byte_count[u] : Byte(u, i) = c}
    IN  IF hits = {} THEN npos ELSE Min(hits)

\* mutant of Taken: one byte too many
TakenByOne(u, pos, len) == IF len = npos \/ len > byte_count[u] - pos
                           THEN byte_count[u] - pos ELSE len + 1

\* The length of a substring: no more than is left, which npos always is.
Taken(u, pos, len) == IF len = npos \/ len > byte_count[u] - pos
                      THEN byte_count[u] - pos ELSE len

\* The bytes of Utf8::substr.
substr(u, pos, len) == [i \in 1..Taken(u, pos, len) |-> Byte(u, pos + i - 1)]

\* Utf8::compare of len bytes from pos with another string: its sign.
compare(u, pos, len, v) ==
    LET count == Min({len, byte_count[v]})
        differ == {i \in 0..(count - 1) : Byte(u, pos + i) # Byte(v, i)}
        Sign(n) == IF n < 0 THEN -1 ELSE IF n > 0 THEN 1 ELSE 0
    IN  IF string[u] = string[v] THEN 0
        ELSE IF differ # {}
             THEN Sign(Char(Byte(u, pos + Min(differ))) - Char(Byte(v, Min(differ))))
        ELSE Sign(len - byte_count[v])

\* Utf8::find of a string.  For a longer one the last position to try is computed below
\* zero, and as it is unsigned the search goes on in the memory behind the terminator.
find_string(u, v, pos) ==
    LET hits == {i \in pos..(byte_count[u] - byte_count[v]) :
                    compare(u, i, byte_count[v], v) = 0}
    IN  IF byte_count[v] > byte_count[u] THEN beyond
        ELSE IF hits = {} THEN npos ELSE Min(hits)

\* operator==
Equal(u, v) ==
    \/ string[u] = string[v]
    \/ /\ byte_count[u] = byte_count[v]
       /\ LET differ == {i \in 0..byte_count[u] : Byte(u, i) # Byte(v, i)}
              ends == {i \in 0..byte_count[u] : Byte(u, i) = 0}
          IN  differ = {} \/ Min(differ) > Min(ends)

\* What parse_path makes an entry of: the parts between slashes, the empty ones left out.
RECURSIVE Parts(_, _)
Parts(u, oldpos) ==
    LET pos == find(u, Slash, oldpos)
        fname == substr(u, oldpos, IF pos = npos THEN npos ELSE pos - oldpos)
        part == IF fname = <<>> THEN <<>> ELSE <<fname>>
    IN  IF pos = npos THEN part ELSE part \o Parts(u, pos + 1)

-----------------------------------------------------------------------------
(* Making strings                                                          *)

\* Gives u its pointer, what it owns and its size; a buffer that nothing owns is freed.
Set(to, ptr, count, heap) ==
    /\ string' = to /\ string_ptr' = ptr /\ byte_count' = count
    /\ buffer' = [b \in {ptr[u] : u \in Strings} \ {None} |-> heap[b]]
    /\ UNCHANGED answer

\* A Utf8 of a literal, assigned to u.
Construct(u) ==
    \E l \in Literals :
        /\ Set([string EXCEPT ![u] = Literal(l)], [string_ptr EXCEPT ![u] = None],
               [byte_count EXCEPT ![u] = Len(l)], buffer)
        /\ model' = [model EXCEPT ![u] = l]

\* What a copy of v owns.
Owner(v) == string_ptr[v]

\* u = v
Copy(u, v) ==
    /\ Set([string EXCEPT ![u] = string[v]], [string_ptr EXCEPT ![u] = Owner(v)],
           [byte_count EXCEPT ![u] = byte_count[v]], buffer)
    /\ model' = [model EXCEPT ![u] = model[v]]

\* u = move(v)
Move(u, v) ==
    /\ u # v
    /\ Set([string EXCEPT ![u] = string[v], ![v] = Empty],
           [string_ptr EXCEPT ![u] = string_ptr[v], ![v] = None],
           [byte_count EXCEPT ![u] = byte_count[v], ![v] = 0], buffer)
    /\ model' = [model EXCEPT ![u] = model[v], ![v] = <<>>]

\* Utf8::own of a new buffer, assigned to u.  It does not matter which block it is.
Own(u, bytes) ==
    LET b == CHOOSE x \in Buffers : x \notin DOMAIN buffer
    IN  /\ Buffers \ DOMAIN buffer # {}
        /\ Set([string EXCEPT ![u] = Buffer(b)], [string_ptr EXCEPT ![u] = b],
               [byte_count EXCEPT ![u] = Len(bytes)],
               [x \in DOMAIN buffer \cup {b} |-> IF x = b THEN bytes ELSE buffer[x]])

Substr(u, v) ==
    \E pos \in 0..byte_count[v], len \in 0..2 \cup {npos} :
        /\ byte_count[v] <= MaxBytes
        /\ Own(u, substr(v, pos, len))
        /\ model' = [model EXCEPT ![u] =
                        IF len = npos THEN SubSeq(model[v], pos + 1, Len(model[v]))
                        ELSE SubSeq(model[v], pos + 1, Min({pos + len, Len(model[v])}))]

\* operator+: the bytes that the counts say are copied.
Concat(u, v, w) ==
    /\ byte_count[v] + byte_count[w] <= MaxBytes
    /\ Own(u, [i \in 1..byte_count[v] |-> Byte(v, i - 1)]
                 \o [i \in 1..byte_count[w] |-> Byte(w, i - 1)])
    /\ model' = [model EXCEPT ![u] = model[v] \o model[w]]

-----------------------------------------------------------------------------
(* Formatting                                                              *)

Minus == 45
Digit(d) == IF d < 0 THEN 256 + d ELSE d     \* num_to_str, the digits left as numbers

\* The remainder and the quotient of C, which round towards zero.
Rem(a, b) == IF a < 0 THEN -((-a) % b) ELSE a % b
Quot(a, b) == IF a < 0 THEN -((-a) \div b) ELSE a \div b

\* mutant of LastZero: the last zero is dropped, too
LastZeroNot == NUM_BUFFER_SIZE + 1

\* The position of the buffer that is written whatever digit it holds.
LastZero == NUM_BUFFER_SIZE

\* The digits of val: the buffer is filled from behind, and the zeros in front are left
\* out but for the last one.
Digits(val, base) ==
    LET rest[i \in 0..NUM_BUFFER_SIZE] == IF i = 0 THEN val ELSE Quot(rest[i - 1], base)
        output == [i \in 1..NUM_BUFFER_SIZE |-> Digit(Rem(rest[NUM_BUFFER_SIZE - i], base))]
        start == Min({i \in 1..NUM_BUFFER_SIZE : output[i] # 0} \cup {LastZero})
    IN  SubSeq(output, start, NUM_BUFFER_SIZE)

Signed(v, bits) == IF v % 2^bits >= 2^(bits - 1) THEN (v % 2^bits) - 2^bits ELSE v % 2^bits

\* va_arg, as the unsigned type of the length; long is as wide as int.
Argument(item, v) == IF item.length = 2 THEN v % 2^WideBits ELSE v % 2^IntBits

Base(item) == IF item.spec \in {"x", "p"} THEN 16 ELSE IF item.spec = "o" THEN 8 ELSE 10

\* The conversion of Stream::writef, where val is an unsigned long long.
WritefInt(item, v) ==
    LET val == Argument(item, v)
        vals == Signed(val, IntBits)
        neg == item.spec = "d" /\ vals < 0
    IN  (IF neg THEN <<Minus>> ELSE <<>>)
           \o Digits(IF neg THEN Signed(-vals, IntBits) % 2^WideBits ELSE val, Base(item))

\* The conversion of Utf8::format, where val is an int.
FormatInt(item, v) ==
    LET val == Signed(Argument(item, v), IntBits)
        neg == item.spec = "d" /\ val < 0
    IN  (IF neg THEN <<Minus>> ELSE <<>>)
           \o Digits(IF neg THEN Signed(-val, IntBits) ELSE val, Base(item))

Prefix == <<0, 120>>     \* "0x"

\* The characters that an integer adds to written.
Counted(item, digits) == Len(digits) + IF item.spec = "p" THEN Len(Prefix) ELSE 0

\* writef over the items of a format, each with the argument v where it takes one: what
\* is output, and what %n stores.  An item is a character, "%n" or an integer.
writef(fmt, v) ==
    LET step(s, item) ==
            LET digits == WritefInt(item, v)
                prefix == IF item.spec = "p" THEN Prefix ELSE <<>>
            IN  IF item.spec = "n" THEN [s EXCEPT !.slot = s.written]
                ELSE IF item.spec = "char"
                     THEN [s EXCEPT !.out = Append(@, 1), !.written = @ + 1]
                ELSE [s EXCEPT !.out = @ \o prefix \o digits,
                               !.written = @ + Counted(item, digits)]
    IN  FoldLeft(step, [out |-> <<>>, written |-> 0, slot |-> 0], fmt)

-----------------------------------------------------------------------------

\* A call that changes no string, with its arguments and what it returns.  It ends the
\* behaviour: what could follow it could as well have followed what was before it.
Ask(call) == answer' = call /\ UNCHANGED <<string, string_ptr, byte_count, buffer, model>>

Queries(u, v) ==
    \/ Ask([op |-> "equal", u |-> u, v |-> v, is |-> Equal(u, v)])
    \/ Ask([op |-> "split", u |-> u, v |-> v, is |-> Parts(u, 0)])
    \/ \E pos \in 0..byte_count[u] :
          Ask([op |-> "find", u |-> u, v |-> v, pos |-> pos, is |-> find_string(u, v, pos)])
    \/ \E pos \in 0..byte_count[u] : \E len \in 0..(byte_count[u] - pos) :
          Ask([op |-> "compare", u |-> u, v |-> v, pos |-> pos, len |-> len,
               is |-> compare(u, pos, len, v)])

\* A format is converted by a stream, or by Utf8::format.
Converts ==
    /\ answer = None
    /\ \E v \in Numbers, fmt \in Formats :
          \/ Ask([op |-> "writef", fmt |-> fmt, v |-> v, is |-> writef(fmt, v)])
          \/ \E item \in {i \in ToSet(fmt) : i.spec \notin {"n", "char"}} :
                Ask([op |-> "format", item |-> item, v |-> v, is |-> FormatInt(item, v)])

\* The calls of Utf8, from which formatting is independent.
StringsNext ==
    /\ answer = None
    /\ \/ \E u \in Strings : Construct(u)
       \/ \E u, v \in Strings :
             \/ Copy(u, v) \/ Move(u, v) \/ Substr(u, v) \/ Queries(u, v)
             \/ \E w \in Strings : Concat(u, v, w)

Next == StringsNext \/ Converts

Spec == Init /\ [][Next]_vars

-----------------------------------------------------------------------------
(* Properties                                                              *)

\* Every variable has its type.
TypeOK ==
    /\ \A u \in Strings : string_ptr[u] \in DOMAIN buffer \cup {None}
    /\ DOMAIN buffer \subseteq Buffers

\* A Utf8 points to a literal or to a buffer that it keeps alive, and has the bytes and the
\* count that the calls that made it should give it (utf8.cpp:15-63, 180-237).
TextKept ==
    \A u \in Strings :
        /\ string[u].literal \/ string_ptr[u] = string[u].at
        /\ Bytes(u) = model[u]
        /\ byte_count[u] = Len(model[u])

\* The order of bytes that compare uses, on sequences.
Less(s, t) ==
    \/ \E i \in 1..Min({Len(s), Len(t)}) :
          /\ Char(s[i]) < Char(t[i])
          /\ \A j \in 1..(i - 1) : s[j] = t[j]
    \/ Len(s) < Len(t) /\ s = SubSeq(t, 1, Len(s))

\* Equality, order, search and the splitting of paths are those of sequences of bytes: a
\* path falls into its parts without a slash, none of them empty and nothing lost
\* (utf8.cpp:83-156, filesystem.cpp:109-130).  The sign of compare is the one of
\* strcmp, not the one utf8.hpp:111-114 gives it.  Left out: a part of a string compared
\* with the string itself or a copy, which is always equal (utf8.cpp:87), and the search
\* for a longer string, which does not end in the string (utf8.cpp:115).
AnswersRight ==
    answer # None /\ answer.op \notin {"writef", "format"}
       => LET s == model[answer.u]
              t == model[answer.v]
          IN  CASE answer.op = "equal" -> answer.is <=> s = t
                [] answer.op = "split" ->
                      /\ \A i \in DOMAIN answer.is :
                            answer.is[i] # <<>> /\ Slash \notin ToSet(answer.is[i])
                      /\ FlattenSeq(answer.is) = SelectSeq(s, LAMBDA b : b # Slash)
                      /\ Len(answer.is) = Cardinality({i \in DOMAIN s :
                            s[i] # Slash /\ (i = 1 \/ s[i - 1] = Slash)})
                [] answer.op = "find" /\ string[answer.u] # string[answer.v]
                                      /\ Len(t) <= Len(s) ->
                      LET hits == {i \in answer.pos..(Len(s) - Len(t)) :
                                      SubSeq(s, i + 1, i + Len(t)) = t}
                      IN  answer.is = IF hits = {} THEN npos ELSE Min(hits)
                [] answer.op = "compare" /\ string[answer.u] # string[answer.v] ->
                      LET part == SubSeq(s, answer.pos + 1, answer.pos + answer.len)
                      IN  /\ answer.is = 0 <=> part = t
                          /\ answer.is < 0 <=> Less(part, t)
                [] OTHER -> TRUE

\* "<0: The value of the first non-matching character is lower in str, or all characters
\* match but str is shorter." (utf8.hpp:111): compare has the other sign.
CompareAsDocumented ==
    answer # None /\ answer.op = "compare" /\ string[answer.u] # string[answer.v]
       => LET part == SubSeq(model[answer.u], answer.pos + 1, answer.pos + answer.len)
          IN  answer.is < 0 <=> Less(model[answer.v], part)

\* find of a string that does not occur returns npos (utf8.hpp:148).
FindEnds == answer # None /\ answer.op = "find" => answer.is # beyond

\* The number that digits are for.
ValueOf(digits, base) == FoldLeft(LAMBDA n, d : n * base + d, 0, digits)

\* The number that an item stands for, of the type that it names.
Meant(item, v) ==
    IF item.spec # "d" THEN Argument(item, v)
    ELSE Signed(v, IF item.length = 2 THEN WideBits ELSE IntBits)

Shows(out, item, v) ==
    LET neg == out # <<>> /\ out[1] = Minus
        digits == IF neg THEN Tail(out) ELSE out
        n == ValueOf(digits, Base(item))
    IN  /\ Meant(item, v) = IF neg THEN -n ELSE n
        /\ \A d \in ToSet(digits) : d < Base(item)
        /\ digits # <<>>
        /\ Len(digits) = 1 \/ digits[1] # 0

\* What the two conversions are right for: not "%lld", whose sign is taken from the low
\* half (stream.cpp:95); not the smallest int, whose negation overflows (stream.cpp:97);
\* not octal numbers longer than the buffer (stream.cpp:105); and Utf8::format not for
\* numbers beyond the largest int, which it holds in an int (utf8.cpp:301).
Supported(item, v) ==
    /\ item.spec = "d" => item.length < 2 /\ Signed(v, IntBits) # -(2^(IntBits - 1))
    /\ item.spec = "o" => Argument(item, v) < 8^NUM_BUFFER_SIZE

FormatSupported(item, v) ==
    Supported(item, v) /\ (item.spec # "d" => Argument(item, v) < 2^(IntBits - 1))

\* An integer is converted to digits that stand for it, without leading zeros, whatever
\* its size up to the length of the buffer, and %n stores the number of characters output
\* before it (stream.cpp:45-132, utf8.cpp:265-371).
Converted ==
    answer # None
       => /\ answer.op = "writef"
                => LET fmt == answer.fmt
                   IN  /\ Last(fmt).spec = "n" => answer.is.slot = Len(answer.is.out)
                       /\ Len(fmt) = 1 /\ fmt[1].spec \in {"x", "o", "u", "d"}
                             /\ Supported(fmt[1], answer.v)
                             => Shows(answer.is.out, fmt[1], answer.v)
          /\ answer.op = "format" /\ FormatSupported(answer.item, answer.v)
                => Shows(answer.is, answer.item, answer.v)
=============================================================================
