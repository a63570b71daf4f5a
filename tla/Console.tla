------------------------------ MODULE Console -------------------------------
(***************************************************************************)
(* The log: printk (src/main/printk.cpp) writes a message to the screen    *)
(* (src/main/vga.cpp) and then to every serial port (src/hw/serial.cpp),   *)
(* under a mutex that leaves interrupts on.  The keyboard's interrupt      *)
(* handler prints too (src/hw/ps2keyboard.cpp:141), and panic writes to    *)
(* the screen without the mutex (src/main/panic.cpp).                      *)
(*                                                                         *)
(* Each CPU has a stack of what it is in the middle of: a message of its   *)
(* thread, one of an interrupt handler on top, panics on top of that.      *)
(* CPU 0 boots and takes the interrupts of the keyboard.  A character is   *)
(* itself; colours are left out.  Between two characters, and before       *)
(* _maybe_wrap, another CPU may write.                                     *)
(***************************************************************************)
EXTENDS Naturals, Sequences, FiniteSets, SequencesExt, FiniteSetsExt

CONSTANTS
    Cpus,           \* a set of numbers with 0
    WIDTH, HEIGHT,
    Ports,          \* the serial ports: a sequence
    Present,        \* those of them that answer
    Messages,       \* what threads print: sequences of characters
    KeyMessage,     \* what the keyboard's handler prints
    PanicMessage,
    MaxPrinted,     \* bound: messages of threads
    MaxKeys,        \* bound: keys typed
    MaxPanics       \* bound: calls of panic

ASSUME ConsoleAssumption ==
    /\ 0 \in Cpus
    /\ WIDTH \in Nat \ {0} /\ HEIGHT \in Nat \ {0}

VARIABLES
    booted,           \* how far kernel_main is: "no", "serial", "vga"
    io_port,          \* the ports serial_init has found
    busy,             \* the ports whose transmitter is not empty
    line,             \* what each port has sent
    terminal_buffer,  \* the characters in the screen's memory, by address
    terminal_row, terminal_column,
    mutex,            \* the flag of printk's _mutex
    stack,            \* per CPU: what it is in the middle of, innermost first
    panicked,         \* calls of panic
    told,             \* the CPUs with an INT_LAPIC_PANIC to take
    halted,           \* the CPUs that stay in hlt
    log,              \* history: the messages, in the order the mutex was taken
    keys              \* keys typed so far

screen == <<terminal_buffer, terminal_row, terminal_column>>
serial == <<io_port, busy, line>>
vars == <<booted, serial, screen, mutex, stack, panicked, told, halted, log, keys>>

NL == "\n"
Blank == " "

\* The addresses behind the screen that a cursor below the last row reaches.
Memory == 0..((HEIGHT + Cardinality(Cpus) + MaxPanics) * WIDTH - 1)

Init ==
    /\ booted = "no"
    /\ io_port = {} /\ busy = {} /\ line = [p \in ToSet(Ports) |-> <<>>]
    /\ terminal_buffer = [a \in Memory |-> Blank]
    /\ terminal_row = 0 /\ terminal_column = 0
    /\ mutex = FALSE
    /\ stack = [c \in Cpus |-> <<>>]
    /\ panicked = 0 /\ told = {} /\ halted = {}
    /\ log = <<>> /\ keys = 0

-----------------------------------------------------------------------------
(* Starting up                                                             *)

\* serial_init: a port that gives the scratch byte back is there.
serial_init ==
    /\ booted = "no" /\ stack[0] = <<>> /\ 0 \notin halted
    /\ booted' = "serial"
    /\ io_port' = Present
    /\ UNCHANGED <<busy, line, screen, mutex, stack, panicked, told, halted, log, keys>>

vga_init ==
    /\ booted = "serial" /\ stack[0] = <<>> /\ 0 \notin halted
    /\ booted' = "vga"
    /\ terminal_row' = 0 /\ terminal_column' = 0
    /\ terminal_buffer' = [a \in Memory |-> Blank]
    /\ UNCHANGED <<serial, mutex, stack, panicked, told, halted, log, keys>>

-----------------------------------------------------------------------------
(* What a CPU is in the middle of                                          *)

\* A message, the next thing to do with it, the character it is at and the port.
Frame(kind, step, text) ==
    [kind |-> kind, step |-> step, text |-> text, at |-> 1, port |-> 1]

Top(c) == Head(stack[c])

At(c, step) == c \notin halted /\ stack[c] # <<>> /\ Top(c).step = step

Push(c, frame) == stack' = [stack EXCEPT ![c] = <<frame>> \o @]

SetTop(c, frame) == stack' = [stack EXCEPT ![c] = <<frame>> \o Tail(@)]

Written(c) == Top(c).at > Len(Top(c).text)

InterruptsOn(c) ==
    c \notin halted /\ (stack[c] # <<>> => Top(c).kind = "thread")

\* printk, kwarn or kerror, called by a thread.
printk(c) ==
    /\ booted = "vga" /\ c \notin halted /\ stack[c] = <<>>
    /\ Len(SelectSeq(log, LAMBDA m : m \in Messages)) < MaxPrinted
    /\ \E text \in Messages : Push(c, Frame("thread", "lock", text))
    /\ UNCHANGED <<booted, serial, screen, mutex, panicked, told, halted, log, keys>>

\* An interrupt of the keyboard for which handle_input prints.
Key ==
    /\ booted = "vga" /\ keys < MaxKeys /\ InterruptsOn(0)
    /\ keys' = keys + 1
    /\ Push(0, Frame("irq", "lock", KeyMessage))
    /\ UNCHANGED <<booted, serial, screen, mutex, panicked, told, halted, log>>

\* Mutex::lock, and the beginning of the message.
Lock(c) ==
    /\ At(c, "lock") /\ ~mutex
    /\ mutex' = TRUE
    /\ log' = Append(log, Top(c).text)
    /\ SetTop(c, [Top(c) EXCEPT !.step = "vga"])
    /\ UNCHANGED <<booted, serial, screen, panicked, told, halted, keys>>

-----------------------------------------------------------------------------
(* The screen                                                              *)

\* put_at and the movement of the cursor in _append, nothing before vga::init.
Put(c) ==
    LET ch == Top(c).text[Top(c).at]
    IN  /\ At(c, "vga") /\ ~Written(c)
        /\ SetTop(c, [Top(c) EXCEPT !.step = "wrap", !.at = @ + 1])
        /\ IF booted # "vga" THEN UNCHANGED screen
           ELSE IF ch = NL
           THEN /\ terminal_row' = terminal_row + 1
                /\ terminal_column' = 0
                /\ UNCHANGED terminal_buffer
           ELSE /\ terminal_buffer' = [terminal_buffer EXCEPT
                                          ![terminal_row * WIDTH + terminal_column] = ch]
                /\ terminal_column' = (terminal_column + 1) % WIDTH
                /\ terminal_row' = terminal_row + (terminal_column + 1) \div WIDTH
        /\ UNCHANGED <<booted, serial, mutex, panicked, told, halted, log, keys>>

\* mutant of Scrolled: the last row is not cleared
ScrolledDirty == [a \in Memory |->
                     IF a < (HEIGHT - 1) * WIDTH THEN terminal_buffer[a + WIDTH]
                     ELSE terminal_buffer[a]]

\* Every row moves up by one, and the last one is cleared.
Scrolled == [a \in Memory |->
                IF a < (HEIGHT - 1) * WIDTH THEN terminal_buffer[a + WIDTH]
                ELSE IF a < HEIGHT * WIDTH THEN Blank ELSE terminal_buffer[a]]

\* _maybe_wrap
Wrap(c) ==
    /\ At(c, "wrap")
    /\ SetTop(c, [Top(c) EXCEPT !.step = "vga"])
    /\ IF terminal_row < HEIGHT THEN UNCHANGED screen
       ELSE /\ terminal_buffer' = Scrolled
            /\ terminal_row' = HEIGHT - 1
            /\ UNCHANGED terminal_column
    /\ UNCHANGED <<booted, serial, mutex, panicked, told, halted, log, keys>>

\* The message is on the screen: next the serial ports, or the other CPUs.
Shown(c) ==
    /\ At(c, "vga") /\ Written(c)
    /\ SetTop(c, [Top(c) EXCEPT !.step = IF Top(c).kind = "panic" THEN "stop" ELSE "serial",
                                !.at = 1])
    /\ UNCHANGED <<booted, serial, screen, mutex, panicked, told, halted, log, keys>>

-----------------------------------------------------------------------------
(* The serial ports                                                        *)

\* AllSerialPorts::write of one character: port after port, each waited for.
Send(c) ==
    LET p == Ports[Top(c).port]
        last == Top(c).port = Len(Ports)
    IN  /\ At(c, "serial") /\ ~Written(c)
        /\ SetTop(c, [Top(c) EXCEPT !.port = IF last THEN 1 ELSE @ + 1,
                                    !.at = IF last THEN @ + 1 ELSE @])
        /\ \/ p \notin io_port /\ UNCHANGED <<busy, line>>
           \/ /\ p \in io_port /\ p \notin busy
              /\ busy' = busy \cup {p}
              /\ line' = [line EXCEPT ![p] = Append(@, Top(c).text[Top(c).at])]
        /\ UNCHANGED <<booted, io_port, screen, mutex, panicked, told, halted, log, keys>>

\* The transmitter has sent its byte.
Drain(p) ==
    /\ p \in busy
    /\ busy' = busy \ {p}
    /\ UNCHANGED <<booted, io_port, line, screen, mutex, stack, panicked, told, halted, log, keys>>

Unlock(c) ==
    /\ At(c, "serial") /\ Written(c)
    /\ mutex' = FALSE
    /\ stack' = [stack EXCEPT ![c] = Tail(@)]
    /\ UNCHANGED <<booted, serial, screen, panicked, told, halted, log, keys>>

-----------------------------------------------------------------------------
(* panic                                                                   *)

\* mutant of FirstStep: the message is written under the mutex
FirstStepLocked == "lock"

\* What vpanic_at does first: it writes to the screen.
FirstStep == "vga"

\* vpanic_at, from wherever an exception or a failed check happens, panic itself
\* included: only the first two calls say something.
Panic(c) ==
    /\ c \notin halted /\ panicked < MaxPanics
    /\ panicked' = panicked + 1
    /\ Push(c, Frame("panic", FirstStep, IF panicked < 2 THEN PanicMessage ELSE <<>>))
    /\ UNCHANGED <<booted, serial, screen, mutex, told, halted, log, keys>>

\* The others are told, and the CPU halts with interrupts off.
Stop(c) ==
    /\ At(c, "stop")
    /\ told' = told \cup (Cpus \ {c})
    /\ halted' = halted \cup {c}
    /\ UNCHANGED <<booted, serial, screen, mutex, stack, panicked, log, keys>>

\* A CPU with interrupts on is told to stop, and does.
handle_panic(c) ==
    /\ c \in told /\ InterruptsOn(c)
    /\ told' = told \ {c}
    /\ halted' = halted \cup {c}
    /\ UNCHANGED <<booted, serial, screen, mutex, stack, panicked, log, keys>>

-----------------------------------------------------------------------------

\* A step of the code a CPU is in.
Step(c) == Lock(c) \/ Put(c) \/ Wrap(c) \/ Shown(c) \/ Send(c) \/ Unlock(c) \/ Stop(c)

Next ==
    \/ serial_init \/ vga_init \/ Key
    \/ \E c \in Cpus : printk(c) \/ Step(c) \/ Panic(c) \/ handle_panic(c)
    \/ \E p \in Present : Drain(p)

\* A CPU runs, and a transmitter gets empty.
Fairness ==
    /\ \A c \in Cpus : WF_vars(Step(c)) /\ WF_vars(handle_panic(c))
    /\ \A p \in Present : WF_vars(Drain(p))

Spec == Init /\ [][Next]_vars /\ Fairness

-----------------------------------------------------------------------------
(* Properties                                                              *)

\* Every variable has its type.
TypeOK ==
    /\ booted \in {"no", "serial", "vga"}
    /\ io_port \subseteq Present /\ busy \subseteq io_port
    /\ terminal_column \in 0..(WIDTH - 1) /\ mutex \in BOOLEAN
    /\ terminal_row * WIDTH + terminal_column \in Memory
    /\ \A c \in Cpus : Len(stack[c]) <= 2 + MaxPanics
    /\ panicked \in 0..MaxPanics /\ told \cup halted \subseteq Cpus

\* The lines of a text that breaks at NL and after WIDTH characters.
Lines(text) ==
    LET add(ls, ch) ==
            IF ch = NL THEN Append(ls, <<>>)
            ELSE LET l == Append(Last(ls), ch)
                     all == Append(Front(ls), l)
                 IN  IF Len(l) = WIDTH THEN Append(all, <<>>) ELSE all
    IN  FoldLeft(add, <<<<>>>>, text)

\* The character of a text at a column and a row of a screen that shows its last lines.
Displayed(text, row, column) ==
    LET ls == Lines(text)
        first == IF Len(ls) > HEIGHT THEN Len(ls) - HEIGHT ELSE 0
        l == IF first + row + 1 > Len(ls) THEN <<>> ELSE ls[first + row + 1]
    IN  IF column < Len(l) THEN l[column + 1] ELSE Blank

\* Until something panics, whenever nobody prints, the messages stand whole and in one
\* order on every serial port, and the screen shows their last lines, whichever CPUs and
\* handlers have printed (printk.cpp:24-29, vga.cpp:61-94, serial.cpp:32-42).
LogShown ==
    panicked = 0 /\ ~mutex /\ booted = "vga"
       => /\ \A p \in Present : line[p] = FlattenSeq(log)
          /\ \A row \in 0..(HEIGHT - 1), column \in 0..(WIDTH - 1) :
                terminal_buffer[row * WIDTH + column]
                   = Displayed(FlattenSeq(log), row, column)

\* A CPU that panics gets its message out and halts, even when it, or another CPU, was in
\* the middle of printing (panic.cpp:34-103).
PanicEnds ==
    \A c \in Cpus :
        (\E i \in 1..Len(stack[c]) : stack[c][i].kind = "panic") ~> c \in halted

\* printk returns, unless something panics (printk.hpp:16: "If you want to halt the
\* kernel's execution, @ref panic should be called instead").  Not so: the keyboard's
\* handler waits, with interrupts off, for the mutex that the thread it interrupted holds.
PrintkReturns ==
    \A c \in Cpus : stack[c] # <<>> ~> stack[c] = <<>> \/ panicked > 0

\* What is written is on the screen.  Not so for panic, when another CPU has moved the
\* cursor below the last row and has not scrolled yet.
WrittenOnScreen == \A c \in Cpus : At(c, "vga") => terminal_row < HEIGHT
=============================================================================
