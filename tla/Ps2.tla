-------------------------------- MODULE Ps2 ---------------------------------
(***************************************************************************)
(* The PS/2 controller, its two ports (src/hw/ps2.cpp) and the keyboard    *)
(* driver (src/hw/ps2keyboard.cpp).  init polls the controller; from       *)
(* enable_func on, an interrupt handler reads the bytes, and configure     *)
(* spins on what the handler leaves in last_input and self_test_passed.    *)
(*                                                                         *)
(* The controller obeys a command at once.  A byte for a device stays in   *)
(* the input buffer until the device accepts it.  The code waits for that, *)
(* never for the output buffer to fill: from an empty one it reads the     *)
(* last byte again.                                                        *)
(***************************************************************************)
EXTENDS Integers, Sequences, SequencesExt, FiniteSets

CONSTANTS
    Attached,   \* what may be plugged into the two ports
    Prompt,     \* an answer is in the output buffer as soon as the input buffer is empty
    Early,      \* may the user type before init is over
    MaxKeys,    \* bound: key events
    MaxResend   \* bound: bytes a device did not understand

Ports == {0, 1}
Kinds == {"keyboard", "at", "mouse", "none", "failed", "absent"}

ASSUME Ps2Assumption ==
    /\ Attached \subseteq [Ports -> Kinds] /\ Prompt \in BOOLEAN /\ Early \in BOOLEAN
    /\ MaxKeys \in Nat /\ MaxResend \in Nat

ACK == \hfa
RESEND == \hfe
PASS == \haa
ECHO == \hee
Errors == {\h00, \hff}
SelfTestFailed == {\hfc, \hfd}
DEV_IDENTIFY == \hf2
DEV_DISABLE_SCAN == \hf5
CON_SYS == 4

\* bound: unread bytes beyond which no device accepts a byte
Unread == 1

VARIABLES
    attached,
    dev,        \* of each device: scanning, the scan code set, waiting for a set
    devq,       \* what each device has still to send
    clock,      \* the ports that are enabled
    irq,        \* the ports whose interrupt is enabled in the configuration byte
    inbuf,      \* the input buffer: a byte for a device, or nothing
    outq,       \* the output buffer
    lastout,    \* the byte last read from it
    pc, port,   \* where init is
    info,       \* the identification read so far
    enabled, driver,     \* the ports with Ps2Port::enabled, and with a driver
    dual, known_dual,
    kb,         \* the fields of each Ps2KeyboardDriver
    step,       \* how far configure is
    printed,    \* the keys printed, by port
    events, resends      \* history: the key events, and the RESENDs

hardware == <<dev, devq, clock, irq, inbuf, outq, lastout>>
driving == <<kb, step, printed>>
ports == <<info, enabled, driver, dual, known_dual>>
vars == <<attached, hardware, pc, port, ports, driving, events, resends>>

\* The keyboard's fields before configure: whatever the heap held.
Unset == [key |-> {}, double_code |-> FALSE, last_key |-> 0, last_input |-> 0,
          self_test_passed |-> FALSE]

Init ==
    /\ attached \in Attached
    /\ dev = [p \in Ports |-> [scan |-> attached[p] = "keyboard", set |-> 0, arg |-> FALSE]]
    /\ devq = [p \in Ports |-> <<>>]
    /\ clock = Ports /\ irq = {} /\ inbuf = <<>> /\ lastout = 0
    /\ outq \in {<<>>, <<[from |-> 0, byte |-> \h1c]>>}
    /\ pc = "start" /\ port = 0
    /\ info = <<>> /\ enabled = {} /\ driver = {}
    /\ dual = FALSE /\ known_dual = FALSE
    /\ kb = [p \in Ports |-> Unset] /\ step = 0
    /\ printed = [p \in Ports |-> <<>>] /\ events = [p \in Ports |-> <<>>] /\ resends = 0

-----------------------------------------------------------------------------
(* The buffers                                                             *)

\* _read_data.
TopOf(queue) == IF queue = <<>> THEN lastout ELSE Head(queue).byte
RestOf(queue) == IF queue = <<>> THEN queue ELSE Tail(queue)

ReadData == /\ outq' = RestOf(outq)
            /\ lastout' = TopOf(outq)

\* A command, and _wait_read_data for its reply; a port that is absent does not reply.
AfterReply(queue, reply) == queue \o [i \in DOMAIN reply |-> [from |-> 2, byte |-> reply[i]]]

\* Ps2Port::write, which does not look at the input buffer.
Write(p, byte) == inbuf' = <<[to |-> p, byte |-> byte]>>

\* Ps2Port::read: 0xffff turns are more than any device takes to accept a byte, and
\* less than the controller waits for one that is not there.
Vain == inbuf # <<>> /\ attached[inbuf[1].to] \in {"none", "absent"}

\* mutant of TimedOut: no time limit
TimedOutNever == FALSE

TimedOut == Vain

Ready == inbuf = <<>>

Config == CON_SYS + (IF 0 \in irq THEN 1 ELSE 0) + (IF 1 \in irq THEN 2 ELSE 0)
EnabledIn(config) == {p \in Ports : (config \div (p + 1)) % 2 = 1}

-----------------------------------------------------------------------------
(* ps2::init and Ps2Port::init                                             *)

\* mutant of Drain: what was in the output buffer stays there
DrainNot == outq

Drain == RestOf(outq)

\* Both ports are disabled, the output buffer emptied, the configuration set, the self
\* test passed.  CON_CLOCK2 reads as 1 for a second port that is disabled.  The second
\* test of it is made with the port enabled, and then leaves it so.
Controller ==
    /\ pc = "start"
    /\ LET second == attached[1] # "absent"
           lit == ~second   \* CON_CLOCK2 after COM_EN2
       IN /\ dual' = (second /\ lit)
          /\ clock' = IF second /\ ~lit THEN {1} ELSE {}
    /\ known_dual' = TRUE
    /\ outq' = Drain /\ lastout' = IF Drain = <<>> THEN CON_SYS ELSE Head(Drain).byte
    /\ irq' = {}
    /\ pc' = "test"
    /\ UNCHANGED <<attached, dev, devq, inbuf, port, info, enabled, driver, driving, events,
                   resends>>

\* A fault of the controller.
SelfTestFails ==
    /\ pc = "start"
    /\ pc' = "panicked"
    /\ UNCHANGED <<attached, hardware, port, ports, driving, events, resends>>

NextPort == IF port = 0 THEN port' = 1 /\ pc' = "test" ELSE port' = 0 /\ pc' = "enable"

\* COM_TEST1 or COM_TEST2; a port that fails is left alone.
TestReply(p) == CASE attached[p] = "absent" -> <<>>
                  [] attached[p] = "failed" -> <<1>>
                  [] OTHER -> <<0>>

Test ==
    /\ pc = "test"
    /\ Ready
    /\ LET queue == AfterReply(outq, TestReply(port))
       IN /\ outq' = RestOf(queue) /\ lastout' = TopOf(queue)
          /\ \/ /\ TopOf(queue) = 0
                /\ enabled' = enabled \cup {port}
                /\ clock' = clock \cup {port}
                /\ pc' = "scan" /\ UNCHANGED port
             \/ /\ TopOf(queue) # 0
                /\ NextPort
                /\ UNCHANGED <<enabled, clock>>
    /\ UNCHANGED <<attached, dev, devq, irq, inbuf, info, driver, dual, known_dual, driving,
                   events, resends>>

\* write_ack.
WriteAck(from, to, byte) ==
    /\ pc = from
    /\ Write(port, byte)
    /\ pc' = to
    /\ UNCHANGED <<attached, dev, devq, clock, irq, outq, lastout, port, ports, driving,
                   events, resends>>

\* mutant of Again: a byte that was not understood is not sent again
AgainNot(byte) == FALSE

Again(byte) == byte = RESEND

ReadAck(from, again, to) ==
    /\ pc = from
    /\ \/ /\ TimedOut
          /\ enabled' = enabled \ {port}
          /\ NextPort
          /\ UNCHANGED <<outq, lastout>>
       \/ /\ Ready
          /\ ReadData
          /\ pc' = IF Again(lastout') THEN again ELSE to
          /\ UNCHANGED <<enabled, port>>
    /\ info' = <<>>
    /\ UNCHANGED <<attached, dev, devq, clock, irq, inbuf, driver, dual, known_dual, driving,
                   events, resends>>

DisableScan == WriteAck("scan", "scan_ack", DEV_DISABLE_SCAN)
DisabledScan == ReadAck("scan_ack", "scan", "identify")
Identify == WriteAck("identify", "identify_ack", DEV_IDENTIFY)
Identified == ReadAck("identify_ack", "identify", "info")

\* The two bytes of the identification.  A byte that times out is not counted in
\* info_length; the second one is 0xff in info[1] all the same.
ReadInfo ==
    /\ pc = "info"
    /\ \/ /\ TimedOut
          /\ info' = IF info = <<>> THEN <<>> ELSE Append(info, \hff)
          /\ pc' = "type"
          /\ UNCHANGED <<outq, lastout>>
       \/ /\ Ready
          /\ ReadData
          /\ info' = Append(info, lastout')
          /\ pc' = IF Len(info) = 0 THEN "info" ELSE "type"
    /\ UNCHANGED <<attached, dev, devq, clock, irq, inbuf, port, enabled, driver, dual,
                   known_dual, driving, events, resends>>

\* The type, as far as the choice of a driver tells the types apart.
TypeOf(bytes) ==
    CASE bytes = <<>> -> "keyboard"   \* TYPE_TRANSLATION_KEYBOARD_AT
      [] bytes # <<>> /\ bytes[1] \in {\h00, \h03, \h04} -> "mouse"
      [] bytes # <<>> /\ bytes[1] = \hab /\ bytes[2] \in {\h41, \hc1, \h83} -> "keyboard"
      [] OTHER -> "unknown"

SetDriver == driver' = IF TypeOf(info) = "keyboard" THEN driver \cup {port} ELSE driver

\* The driver is chosen and the interrupt enabled in the configuration byte.
SetType ==
    /\ pc = "type"
    /\ \/ /\ TypeOf(info) = "unknown"
          /\ enabled' = enabled \ {port}
          /\ UNCHANGED <<driver, irq, outq, lastout>>
       \/ /\ TypeOf(info) # "unknown"
          /\ SetDriver
          /\ LET queue == AfterReply(outq, <<Config>>)
             IN /\ outq' = RestOf(queue) /\ lastout' = TopOf(queue)
                /\ irq' = EnabledIn(TopOf(queue)) \cup {port}
          /\ UNCHANGED enabled
    /\ NextPort
    /\ UNCHANGED <<attached, dev, devq, clock, inbuf, info, dual, known_dual, driving, events,
                   resends>>

-----------------------------------------------------------------------------
(* Ps2KeyboardDriver::configure                                            *)

Sent == <<\hff, \hf0, \h02>>

\* ioapic::enable_func for both ports.
EnableFunc ==
    /\ pc = "enable"
    /\ pc' = "configure"
    /\ UNCHANGED <<attached, hardware, port, ports, driving, events, resends>>

NextDriver == IF port = 0 THEN port' = 1 /\ pc' = "configure" ELSE pc' = "done" /\ UNCHANGED port

NoDriver ==
    /\ pc = "configure" /\ port \notin driver
    /\ NextDriver
    /\ UNCHANGED <<attached, hardware, ports, driving, events, resends>>

Configure ==
    /\ pc = "configure" /\ port \in driver
    /\ kb' = [kb EXCEPT ![port] = [Unset EXCEPT !.last_input = kb[port].last_input]]
    /\ step' = 1
    /\ pc' = "send"
    /\ UNCHANGED <<attached, hardware, port, ports, printed, events, resends>>

Ask == [kb EXCEPT ![port].last_input = -1]

\* send, up to the loop that waits.
Send ==
    /\ pc = "send"
    /\ kb' = Ask
    /\ Write(port, Sent[step])
    /\ pc' = "answer"
    /\ UNCHANGED <<attached, dev, devq, clock, irq, outq, lastout, port, ports, step, printed,
                   events, resends>>

\* A RESEND stays in last_input while the byte is written again.
SendAgain ==
    /\ pc = "answer" /\ kb[port].last_input = RESEND
    /\ Write(port, Sent[step])
    /\ UNCHANGED <<attached, dev, devq, clock, irq, outq, lastout, pc, port, ports, driving,
                   events, resends>>

MayGoOn == step = 1 => kb[port].self_test_passed

Answered ==
    /\ pc = "answer" /\ kb[port].last_input \notin {-1, RESEND}
    /\ MayGoOn
    /\ IF step < Len(Sent) THEN pc' = "send" /\ step' = step + 1 /\ UNCHANGED port
       ELSE NextDriver /\ UNCHANGED step
    /\ UNCHANGED <<attached, hardware, ports, kb, printed, events, resends>>

-----------------------------------------------------------------------------
(* Ps2KeyboardDriver::handle                                               *)

\* mutant of KeyOver: last_key is not cleared
KeyOverNot(k) == [k EXCEPT !.key = {}]

KeyOver(k) == [k EXCEPT !.key = {}, !.last_key = 0]

\* A byte below 0x80: half of an e1 pair, or a key.
Literal(k, input) ==
    IF k.double_code
    THEN [k |-> [k EXCEPT !.last_key = input, !.double_code = FALSE], out |-> <<>>]
    ELSE IF k.last_key # 0 /\ ~(k.last_key = \h14 /\ input = \h77)
    THEN [k |-> KeyOver(k), out |-> <<>>]
    ELSE [k |-> KeyOver(k),
          out |-> <<[flags |-> k.key, code |-> IF k.last_key = 0 THEN input ELSE \h0f]>>]

\* The fields after a byte, and what is printed.
Handled(k, read) ==
    LET input == IF read = \h83 THEN \h02 ELSE read
        to(next) == [k |-> next, out |-> <<>>]
    IN CASE read = PASS -> to([k EXCEPT !.self_test_passed = TRUE])
         [] read # PASS /\ k.last_input = -1 -> to([k EXCEPT !.last_input = read])
         [] OTHER ->
              CASE input \in Errors \cup {ECHO, ACK, RESEND} \cup SelfTestFailed -> to(k)
                [] input = \he0 -> to([k EXCEPT !.key = @ \cup {"extended"}])
                [] input = \he1 -> to([k EXCEPT !.double_code = TRUE])
                [] input = \hf0 -> to([k EXCEPT !.key = @ \cup {"release"}])
                [] input < \h80 /\ input # 0 -> Literal(k, input)
                [] OTHER -> to(k)

\* The fields and what is printed, after the byte the driver reads.
Decode(p, input) ==
    LET after == Handled(kb[p], input)
    IN /\ kb' = [kb EXCEPT ![p] = after.k]
       /\ printed' = [printed EXCEPT ![p] = @ \o after.out]

\* The interrupt: a port without a driver leaves its byte in the output buffer.  While a
\* byte waits in the input buffer for a device that is not there, read gives 0xff.
Handle(p) ==
    /\ pc \in {"configure", "send", "answer", "done"}
    /\ p \in irq /\ p \in enabled /\ p \in driver
    /\ outq # <<>> /\ Head(outq).from = p
    /\ \/ TimedOut /\ Decode(p, \hff) /\ UNCHANGED <<outq, lastout>>
       \/ Ready /\ ReadData /\ Decode(p, lastout')
    /\ UNCHANGED <<attached, dev, devq, clock, irq, inbuf, pc, port, ports, step, events,
                   resends>>

-----------------------------------------------------------------------------
(* The devices                                                             *)

Id(kind) == CASE kind = "keyboard" -> <<\hab, \h83>> [] kind = "mouse" -> <<\h00>> [] OTHER -> <<>>

Answer(p, bytes) ==
    LET out == [i \in DOMAIN bytes |-> [from |-> p, byte |-> bytes[i]]]
    IN IF Prompt THEN out ELSE <<>>

\* A device takes a byte and acknowledges it; a reset ends with PASS.
Accept ==
    /\ inbuf # <<>> /\ ~Vain /\ inbuf[1].to \in clock /\ Len(outq) <= Unread
    /\ inbuf' = <<>>
    /\ LET p == inbuf[1].to
           byte == inbuf[1].byte
           bytes == <<ACK>> \o (IF byte = DEV_IDENTIFY THEN Id(attached[p]) ELSE <<>>)
           kept == IF byte \in {DEV_DISABLE_SCAN, \hff} THEN <<>> ELSE devq[p]
           late == IF Prompt THEN kept ELSE kept \o bytes
       IN /\ outq' = outq \o Answer(p, bytes)
          /\ devq' = [devq EXCEPT ![p] = IF byte = \hff THEN Append(late, PASS) ELSE late]
          /\ dev' = [dev EXCEPT
                ![p] = CASE byte = DEV_DISABLE_SCAN -> [@ EXCEPT !.scan = FALSE]
                         [] byte = \hff -> [scan |-> TRUE, set |-> 0, arg |-> FALSE]
                         [] byte = \hf0 -> [@ EXCEPT !.arg = TRUE]
                         [] byte = \h02 /\ @.arg -> [@ EXCEPT !.set = 2, !.arg = FALSE]
                         [] OTHER -> @]
    /\ UNCHANGED <<attached, clock, irq, lastout, pc, port, ports, driving, events, resends>>

\* The byte came over the line badly.
AskAgain ==
    /\ inbuf # <<>> /\ ~Vain /\ inbuf[1].to \in clock /\ Len(outq) <= Unread
    /\ resends < MaxResend
    /\ resends' = resends + 1
    /\ inbuf' = <<>>
    /\ outq' = Append(outq, [from |-> inbuf[1].to, byte |-> RESEND])
    /\ UNCHANGED <<attached, dev, devq, clock, irq, lastout, pc, port, ports, driving, events>>

\* The controller gives up on a device that is not there, after the code did.
GiveUp ==
    /\ Vain /\ pc \notin {"scan_ack", "identify_ack"}
    /\ inbuf' = <<>>
    /\ UNCHANGED <<attached, dev, devq, clock, irq, outq, lastout, pc, port, ports, driving,
                   events, resends>>

\* A device sends a byte when the output buffer is free.
Emit(p) ==
    /\ devq[p] # <<>> /\ p \in clock /\ outq = <<>>
    /\ outq' = <<[from |-> p, byte |-> Head(devq[p])]>>
    /\ devq' = [devq EXCEPT ![p] = Tail(@)]
    /\ UNCHANGED <<attached, dev, clock, irq, inbuf, lastout, pc, port, ports, driving, events,
                   resends>>

Keys == {"a", "up", "f7", "pause"}

\* The bytes of set 2, and the number the driver has for the key.
Codes(key, release) ==
    LET f0 == IF release THEN <<\hf0>> ELSE <<>>
    IN CASE key = "a" -> f0 \o <<\h1c>>
         [] key = "up" -> <<\he0>> \o f0 \o <<\h75>>
         [] key = "f7" -> f0 \o <<\h83>>
         [] OTHER -> <<\he1>> \o f0 \o <<\h14>> \o f0 \o <<\h77>>

Event(key, release) ==
    [flags |-> (IF key = "up" THEN {"extended"} ELSE {}) \cup (IF release THEN {"release"} ELSE {}),
     code |-> CASE key = "a" -> \h1c [] key = "up" -> \h75 [] key = "f7" -> \h02 [] OTHER -> \h0f]

Type(p, key, release) ==
    /\ Len(events[0]) + Len(events[1]) < MaxKeys
    /\ attached[p] = "keyboard" /\ dev[p].scan /\ devq[p] = <<>>
    /\ Early \/ pc = "done"
    /\ devq' = [devq EXCEPT ![p] = @ \o Codes(key, release)]
    /\ events' = [events EXCEPT ![p] = Append(@, Event(key, release))]
    /\ UNCHANGED <<attached, dev, clock, irq, inbuf, outq, lastout, pc, port, ports, driving,
                   resends>>

-----------------------------------------------------------------------------
Driver ==
    \/ Controller \/ SelfTestFails \/ Test
    \/ DisableScan \/ DisabledScan \/ Identify \/ Identified \/ ReadInfo \/ SetType
    \/ EnableFunc \/ NoDriver \/ Configure \/ Send \/ SendAgain \/ Answered

Next ==
    \/ Driver \/ Accept \/ AskAgain \/ GiveUp
    \/ \E p \in Ports : \/ Handle(p) \/ Emit(p)
                        \/ \E key \in Keys, release \in BOOLEAN : Type(p, key, release)

\* The code runs on, devices take and send bytes, interrupts are delivered.
Fairness ==
    /\ WF_vars(Driver) /\ WF_vars(Accept) /\ WF_vars(GiveUp)
    /\ \A p \in Ports : WF_vars(Handle(p)) /\ WF_vars(Emit(p))

Spec == Init /\ [][Next]_vars /\ Fairness

-----------------------------------------------------------------------------
(* Properties                                                              *)

\* Types of the controller's, the ports' and the driver's state.
TypeOK ==
    /\ attached \in Attached
    /\ clock \subseteq Ports /\ irq \subseteq Ports
    /\ enabled \subseteq Ports /\ driver \subseteq Ports
    /\ port \in Ports /\ step \in 0..Len(Sent) /\ Len(info) <= 2
    /\ Len(inbuf) <= 1 /\ lastout \in 0..255
    /\ \A p \in Ports : kb[p].last_key \in 0..127 /\ kb[p].last_input \in -1..255

\* After init the ports are what is plugged into them: a keyboard has its driver, a
\* mouse none, and an absent or failed device is not enabled (ps2.cpp:139-235).  It
\* says nothing of an AT keyboard, which is not what the code says it is.
DriverFits ==
    pc \in {"enable", "configure", "send", "answer", "done"} =>
        \A p \in Ports : attached[p] # "at" =>
            /\ p \in driver <=> attached[p] = "keyboard"
            /\ p \in enabled <=> attached[p] \in {"keyboard", "mouse"}

\* An AT keyboard, which sends no identification, is a keyboard: it gets the driver
\* (ps2.cpp:178-179, 217).  It never does: the wait is for the input buffer, which is
\* empty by then, so the acknowledgement is read again and taken for an identification.
AtKeyboardDriven ==
    pc \in {"enable", "configure", "send", "answer", "done"} =>
        \A p \in Ports : attached[p] = "at" => p \in driver /\ p \in enabled

\* What init reads after a command is the reply to that command: nothing is left in the
\* output buffer when it is sent (ps2.cpp:47-53, 111, 120, 223).
RepliesMatch == pc \in {"test", "type"} => outq = <<>>

\* Once configured a keyboard uses scan code set 2, whatever it used before
\* (ps2keyboard.cpp:62-64).
SetTwo ==
    pc = "done" => \A p \in driver : kb[p].last_input # RESEND => dev[p].set = 2

Quiet == outq = <<>> /\ \A p \in Ports : devq[p] = <<>>

\* The keys printed are the keys pressed and released on each keyboard, in their order:
\* no prefix of one sequence is left for the next (ps2keyboard.cpp:67-149).
Decoded ==
    /\ \A p \in Ports : IsPrefix(printed[p], events[p])
    /\ pc = "done" /\ Quiet => printed = events

\* A keyboard is put in the scan code set that is decoded, and its keys are decoded
\* (ps2keyboard.cpp:62-149).
KeysDecoded == SetTwo /\ Decoded

\* configure waits in vain: the byte was not understood, and last_input still says so.
Stuck == pc = "answer" /\ kb[port].last_input = RESEND

\* init returns, whatever is plugged in, unless configure
\* meets a RESEND (ps2.cpp:63, ps2keyboard.cpp:28).
InitEnds == <>(pc \in {"done", "panicked"} \/ Stuck)

\* No answer to a command arrives when none is awaited (ps2keyboard.cpp:86).
AnswersHandled ==
    \A p \in driver : pc \in {"send", "answer", "done"} /\ outq # <<>> /\ Head(outq).from = p
                      /\ Head(outq).byte \in {ACK, RESEND} => kb[p].last_input = -1

\* Whether the controller has a second port is found out (ps2.cpp:95).
DualKnown == pc \notin {"start", "panicked"} => dual = (attached[1] # "absent")
=============================================================================
