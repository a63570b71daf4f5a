----------------------------- MODULE Ps2Proofs -----------------------------
(***************************************************************************)
(* Proofs about the PS/2 ports and keyboards, for any devices in the two   *)
(* ports, any number of RESENDs and of keys, when devices answer promptly  *)
(* and nobody types before init is over: what init reads is the reply to   *)
(* its command, it gives every port the driver that fits, and what a       *)
(* keyboard's driver prints is what was typed.                             *)
(*                                                                         *)
(* ProbeInv says for every step of init what is in the two buffers.        *)
(* KeyInv adds how far a keyboard is configured and, once it is, which     *)
(* keys the bytes between the keyboard and its driver belong to.           *)
(***************************************************************************)
EXTENDS Ps2, SequenceTheorems, TLAPS

Probing == {"test", "scan", "scan_ack", "identify", "identify_ack", "info", "type"}
Probed == {"enable", "configure", "send", "answer", "done"}

Msg(p, b) == [from |-> p, byte |-> b]
To(p, b) == [to |-> p, byte |-> b]

\* A device at port p takes the bytes that are written to it, or no device ever will.
Here(p) == attached[p] \in {"keyboard", "at", "mouse"}
Gone(p) == attached[p] \in {"none", "absent"}

\* No byte is on its way to a device that is there.
NoneSent == inbuf = <<>> \/ \E q \in Ports, b \in 0..255 : Gone(q) /\ inbuf = <<To(q, b)>>

Reply(p) ==
    CASE attached[p] = "keyboard" -> <<Msg(p, ACK), Msg(p, \hab), Msg(p, \h83)>>
      [] attached[p] = "mouse" -> <<Msg(p, ACK), Msg(p, \h00)>>
      [] OTHER -> <<Msg(p, ACK)>>

\* The first identification byte, what is left of the reply and the byte last read; and
\* both bytes.
FirstInfo ==
    CASE attached[port] = "keyboard" -> info = <<\hab>> /\ outq = <<Msg(port, \h83)>>
      [] attached[port] = "mouse" -> info = <<\h00>> /\ outq = <<>> /\ lastout = \h00
      [] OTHER -> info = <<ACK>> /\ outq = <<>> /\ lastout = ACK
BothInfo ==
    CASE attached[port] = "keyboard" -> info = <<\hab, \h83>>
      [] attached[port] = "mouse" -> info = <<\h00, \h00>>
      [] OTHER -> info = <<ACK, ACK>>

\* What is in the buffers at each step of init.
Buffers ==
    /\ pc = "start" => port = 0 /\ inbuf = <<>> /\ outq \in {<<>>, <<Msg(0, \h1c)>>}
    /\ pc \in {"test", "enable"} => outq = <<>> /\ NoneSent
    /\ pc = "scan" => outq = <<>> /\ NoneSent /\ (Here(port) \/ Gone(port))
    /\ pc = "scan_ack" =>
          \/ inbuf = <<To(port, DEV_DISABLE_SCAN)>> /\ outq = <<>> /\ (Here(port) \/ Gone(port))
          \/ inbuf = <<>> /\ Here(port) /\ outq \in {<<Msg(port, ACK)>>, <<Msg(port, RESEND)>>}
    /\ pc = "identify" => outq = <<>> /\ inbuf = <<>> /\ Here(port)
    /\ pc = "identify_ack" =>
          /\ Here(port)
          /\ \/ inbuf = <<To(port, DEV_IDENTIFY)>> /\ outq = <<>>
             \/ inbuf = <<>> /\ outq \in {Reply(port), <<Msg(port, RESEND)>>}
    /\ pc = "info" =>
          /\ Here(port) /\ inbuf = <<>>
          /\ \/ info = <<>> /\ outq = Tail(Reply(port)) /\ lastout = ACK
             \/ FirstInfo
    /\ pc = "type" => Here(port) /\ inbuf = <<>> /\ outq = <<>> /\ BothInfo
    /\ pc \in {"start", "enable"} \cup Probing => \A p \in Ports : devq[p] = <<>>

\* The ports that init is through with have what fits them.
Fitting ==
    \A p \in Ports :
        IF pc \in Probed \/ (pc \in Probing /\ p < port)
        THEN /\ p \in driver <=> attached[p] = "keyboard"
             /\ p \in enabled <=> attached[p] \in {"keyboard", "mouse"}
        ELSE pc # "panicked" =>
             p \notin driver /\ (p \in enabled <=> p = port /\ pc \in Probing \ {"test"})

ProbeTypes ==
    /\ attached \in [Ports -> Kinds] /\ port \in Ports
    /\ driver \subseteq Ports /\ enabled \subseteq Ports
    /\ DOMAIN devq = Ports
    /\ pc \in {"start", "panicked"} \cup Probing \cup Probed

ProbeInv == ProbeTypes /\ Buffers /\ Fitting

-----------------------------------------------------------------------------
(* configure                                                               *)

KbFields == [key : SUBSET {"extended", "release"}, double_code : BOOLEAN, last_key : Nat,
             last_input : Int, self_test_passed : BOOLEAN]
DevFields == [scan : BOOLEAN, set : Nat, arg : BOOLEAN]
EventSet == {Event(key, FALSE) : key \in Keys} \cup {Event(key, TRUE) : key \in Keys}

KeyTypes ==
    /\ kb \in [Ports -> KbFields] /\ dev \in [Ports -> DevFields]
    /\ devq \in [Ports -> Seq(0..255)]
    /\ printed \in [Ports -> Seq(EventSet)] /\ events \in [Ports -> Seq(EventSet)]

\* Between two keys.
NoKey(k) == k.key = {} /\ ~k.double_code /\ k.last_key = 0

\* Bytes that are no part of a key.
Control == {ACK, RESEND, PASS}

\* What the device does with the byte of this step of configure.
Obeyed == (step = 2 => dev[port].arg) /\ (step = 3 => dev[port].set = 2)

\* The byte is on its way to the device, the answer to it on its way back, or the answer
\* is there and with it, after a reset, the result of the self test.
Asked ==
    /\ inbuf = <<To(port, Sent[step])>> /\ outq = <<>> /\ devq[port] = <<>>
    /\ kb[port].last_input = -1
    /\ step = 1 => ~kb[port].self_test_passed
    /\ step = 3 => dev[port].arg
Replied ==
    /\ inbuf = <<>> /\ outq = <<Msg(port, ACK)>>
    /\ devq[port] = IF step = 1 THEN <<PASS>> ELSE <<>>
    /\ kb[port].last_input = -1 /\ Obeyed
    /\ step = 1 => ~kb[port].self_test_passed
Refused ==
    /\ inbuf = <<>> /\ outq = <<Msg(port, RESEND)>> /\ devq[port] = <<>>
    /\ kb[port].last_input = -1
Told ==
    /\ inbuf = <<>> /\ kb[port].last_input = ACK /\ Obeyed
    /\ \/ outq = <<>> /\ devq[port] = <<>>
       \/ /\ step = 1 /\ ~kb[port].self_test_passed
          /\ \/ outq = <<>> /\ devq[port] = <<PASS>>
             \/ outq = <<Msg(port, PASS)>> /\ devq[port] = <<>>

\* configure does not get out of its loop any more.
Lost ==
    /\ kb[port].last_input = RESEND
    /\ inbuf \in {<<>>, <<To(port, Sent[step])>>}
    /\ outq \in Seq([from : {port}, byte : Control]) /\ devq[port] \in Seq(Control)

Configured(p) == pc = "done" \/ (pc \in {"configure", "send", "answer"} /\ p < port)

Configuring ==
    /\ \A p \in Ports : p \in driver /\ Configured(p) =>
          kb[p].last_input = ACK /\ dev[p].set = 2
    /\ pc = "enable" => port = 0
    /\ pc # "done" => \A p \in Ports : NoKey(kb[p]) /\ printed[p] = <<>> /\ events[p] = <<>>
    /\ pc \in {"configure", "send"} =>
          outq = <<>> /\ NoneSent /\ \A p \in Ports : devq[p] = <<>>
    /\ pc \in {"send", "answer"} => port \in driver /\ step \in 1..3
    /\ pc = "send" => /\ step = 1 => ~kb[port].self_test_passed
                      /\ step = 3 => dev[port].arg
    /\ pc = "answer" =>
          /\ Asked \/ Replied \/ Refused \/ Told \/ Lost
          /\ \A p \in Ports : p # port => devq[p] = <<>>

-----------------------------------------------------------------------------
(* Keys                                                                    *)

\* The driver has seen flags, and the first half of an e1 pair or an e1.
Single(k, flags, last) == k.key = flags /\ ~k.double_code /\ k.last_key = last
Double(k, flags) == k.key = flags /\ k.double_code /\ k.last_key = 0

\* The bytes and the event of a key that is pressed, or released.
Down(key) == Codes(key, FALSE)
Up(key) == Codes(key, TRUE)
Pressed(key) == Event(key, FALSE)
Released(key) == Event(key, TRUE)
IsKey(codes, e) ==
    \E key \in Keys : \/ codes = Down(key) /\ e = Pressed(key)
                      \/ codes = Up(key) /\ e = Released(key)

\* From fields k, byte b and the bytes t behind it print event e and nothing else: they
\* are all the bytes of a key, or those that are left of it.
Begins(k, b, t, e) ==
    /\ NoKey(k)
    /\ \E key \in Keys :
          \/ e = Pressed(key) /\ b = Head(Down(key)) /\ t = Tail(Down(key))
          \/ e = Released(key) /\ b = Head(Up(key)) /\ t = Tail(Up(key))
GoesOn(k, b, t, e) ==
    \/ Single(k, {"release"}, 0) /\ b = \h1c /\ t = <<>> /\ e = Released("a")
    \/ Single(k, {"release"}, 0) /\ b = \h83 /\ t = <<>> /\ e = Released("f7")
    \/ Single(k, {"extended"}, 0) /\ b = \h75 /\ t = <<>> /\ e = Pressed("up")
    \/ Single(k, {"extended"}, 0) /\ b = \hf0 /\ t = <<\h75>> /\ e = Released("up")
    \/ Single(k, {"extended", "release"}, 0) /\ b = \h75 /\ t = <<>> /\ e = Released("up")
    \/ Double(k, {}) /\ b = \h14 /\ t = <<\h77>> /\ e = Pressed("pause")
    \/ Double(k, {}) /\ b = \hf0 /\ t = <<\h14, \hf0, \h77>> /\ e = Released("pause")
    \/ Double(k, {"release"}) /\ b = \h14 /\ t = <<\hf0, \h77>> /\ e = Released("pause")
    \/ Single(k, {}, \h14) /\ b = \h77 /\ t = <<>> /\ e = Pressed("pause")
    \/ Single(k, {"release"}, \h14) /\ b = \hf0 /\ t = <<\h77>> /\ e = Released("pause")
    \/ Single(k, {"release"}, \h14) /\ b = \h77 /\ t = <<>> /\ e = Released("pause")
Expects(k, b, t, e) == Begins(k, b, t, e) \/ GoesOn(k, b, t, e)

\* How far the events of the keyboard at port p have come: all are printed; the bytes of
\* the last are with the device; or one of them is in the output buffer, the others, or
\* those of the next key, with the device.
Printed(p) == NoKey(kb[p]) /\ devq[p] = <<>> /\ events[p] = printed[p]
Coming(p) ==
    \E e \in EventSet :
        /\ devq[p] # <<>> /\ Expects(kb[p], Head(devq[p]), Tail(devq[p]), e)
        /\ events[p] = Append(printed[p], e)
Arrived(p, b) ==
    \E e \in EventSet :
        /\ Expects(kb[p], b, devq[p], e)
        /\ events[p] = Append(printed[p], e)
LastArrived(p, b) ==
    \E e, f \in EventSet :
        /\ Expects(kb[p], b, <<>>, e)
        /\ IsKey(devq[p], f)
        /\ events[p] = Append(Append(printed[p], e), f)

Decoding ==
    pc = "done" =>
        /\ NoneSent
        /\ outq = <<>> \/ \E q \in driver, b \in 0..255 : outq = <<Msg(q, b)>>
        /\ \A p \in Ports \ driver : Printed(p)
        /\ \A p \in driver :
              IF outq # <<>> /\ Head(outq).from = p
              THEN Arrived(p, Head(outq).byte) \/ LastArrived(p, Head(outq).byte)
              ELSE Printed(p) \/ Coming(p)

\* What configure sent last was accepted, so no byte waits in vain for a device.
Clear ==
    pc \in {"configure", "done"} /\ (\E p \in driver : Configured(p)) => inbuf = <<>>

KeyInv == ProbeInv /\ KeyTypes /\ Configuring /\ Decoding /\ Clear

-----------------------------------------------------------------------------
(* Short sequences                                                         *)

LEMMA Joined ==
    ASSUME NEW a, NEW b, NEW c
    PROVE  /\ <<>> \o <<a>> = <<a>> /\ <<a>> \o <<>> = <<a>> /\ <<a>> \o <<b>> = <<a, b>>
           /\ <<a>> \o <<b, c>> = <<a, b, c>>
  <1> DEFINE S == {a, b, c}
  <1>1. <<>> \in Seq(S) /\ <<a>> \in Seq(S) /\ <<b>> \in Seq(S) /\ <<b, c>> \in Seq(S)
        /\ <<a, b>> \in Seq(S) /\ <<a, b, c>> \in Seq(S)
      OBVIOUS
  <1> HIDE DEF S
  <1>2. <<>> \o <<a>> = <<a>> /\ <<a>> \o <<>> = <<a>>
      BY <1>1, ConcatEmptySeq
  <1>3. <<a>> \o <<b>> = <<a, b>>
    <2> DEFINE s == <<a>> \o <<b>>
    <2>1. /\ s \in Seq(S) /\ Len(s) = 2
          /\ \A i \in 1..2 : s[i] = IF i <= 1 THEN <<a>>[i] ELSE <<b>>[i - 1]
        BY <1>1, ConcatProperties
    <2> HIDE DEF s
    <2>2. s[1] = a /\ s[2] = b
        BY <2>1
    <2>3. Len(<<a, b>>) = Len(s) /\ \A i \in 1..Len(s) : s[i] = <<a, b>>[i]
        BY <2>1, <2>2
    <2>4. s = <<a, b>>
        BY <1>1, <2>1, <2>3, SeqEqual
    <2> QED
        BY <2>4 DEF s
  <1>4. <<a>> \o <<b, c>> = <<a, b, c>>
    <2> DEFINE s == <<a>> \o <<b, c>>
    <2>1. /\ s \in Seq(S) /\ Len(s) = 3
          /\ \A i \in 1..3 : s[i] = IF i <= 1 THEN <<a>>[i] ELSE <<b, c>>[i - 1]
        BY <1>1, ConcatProperties
    <2> HIDE DEF s
    <2>2. s[1] = a /\ s[2] = b /\ s[3] = c
        BY <2>1
    <2>3. Len(<<a, b, c>>) = Len(s) /\ \A i \in 1..Len(s) : s[i] = <<a, b, c>>[i]
        BY <2>1, <2>2
    <2>4. s = <<a, b, c>>
        BY <1>1, <2>1, <2>3, SeqEqual
    <2> QED
        BY <2>4 DEF s
  <1> QED
      BY <1>2, <1>3, <1>4

LEMMA Appended ==
    ASSUME NEW a, NEW b
    PROVE  Append(<<>>, a) = <<a>> /\ Append(<<a>>, b) = <<a, b>>
  <1> DEFINE S == {a, b}
  <1>1. <<>> \in Seq(S) /\ <<a>> \in Seq(S) /\ <<a, b>> \in Seq(S) /\ a \in S /\ b \in S
      OBVIOUS
  <1> HIDE DEF S
  <1>2. Append(<<>>, a) = <<a>>
    <2>1. /\ Append(<<>>, a) \in Seq(S) /\ Len(Append(<<>>, a)) = 1
          /\ Append(<<>>, a)[1] = a
        BY <1>1
    <2> QED
        BY <1>1, <2>1, SeqEqual
  <1>3. Append(<<a>>, b) = <<a, b>>
    <2> DEFINE s == Append(<<a>>, b)
    <2>1. s \in Seq(S) /\ Len(s) = 2 /\ s[1] = a /\ s[2] = b
        BY <1>1
    <2> HIDE DEF s
    <2>2. Len(<<a, b>>) = Len(s) /\ \A i \in 1..Len(s) : s[i] = <<a, b>>[i]
        BY <2>1
    <2>3. s = <<a, b>>
        BY <1>1, <2>1, <2>2, SeqEqual
    <2> QED
        BY <2>3 DEF s
  <1> QED
      BY <1>2, <1>3

LEMMA Queues ==
    ASSUME NEW a, NEW b, NEW c
    PROVE  /\ <<a>> # <<>> /\ <<a, b>> # <<>> /\ <<a, b, c>> # <<>>
           /\ Head(<<a>>) = a /\ Head(<<a, b>>) = a /\ Head(<<a, b, c>>) = a
           /\ Tail(<<a>>) = <<>> /\ Tail(<<a, b>>) = <<b>> /\ Tail(<<a, b, c>>) = <<b, c>>
           /\ <<a>>[1] = a /\ Len(<<a>>) = 1 /\ Len(<<>>) = 0
  <1>1. <<a>> # <<>> /\ <<a, b>> # <<>> /\ <<a, b, c>> # <<>>
      OBVIOUS
  <1>2. Head(<<a>>) = a /\ Head(<<a, b>>) = a /\ Head(<<a, b, c>>) = a
      OBVIOUS
  <1>3. Tail(<<a>>) = <<>> /\ Tail(<<a, b>>) = <<b>> /\ Tail(<<a, b, c>>) = <<b, c>>
      OBVIOUS
  <1> QED
      BY <1>1, <1>2, <1>3

LEMMA Answers ==
    ASSUME Prompt, NEW p, NEW a, NEW b, NEW c
    PROVE  /\ Answer(p, <<a>>) = <<Msg(p, a)>>
           /\ Answer(p, <<a, b>>) = <<Msg(p, a), Msg(p, b)>>
           /\ Answer(p, <<a, b, c>>) = <<Msg(p, a), Msg(p, b), Msg(p, c)>>
  <1>1. Answer(p, <<a>>) = <<Msg(p, a)>>
      BY DEF Answer, Msg
  <1>2. Answer(p, <<a, b>>) = <<Msg(p, a), Msg(p, b)>>
      BY DEF Answer, Msg
  <1>3. Answer(p, <<a, b, c>>) = <<Msg(p, a), Msg(p, b), Msg(p, c)>>
      BY DEF Answer, Msg
  <1> QED
      BY <1>1, <1>2, <1>3

LEMMA Replies ==
    ASSUME NEW a
    PROVE  /\ AfterReply(<<>>, <<a>>) = <<Msg(2, a)>>
           /\ AfterReply(<<>>, <<>>) = <<>>
  BY DEF AfterReply, Msg

-----------------------------------------------------------------------------
(* What init does with the ports                                           *)

LEMMA ProbeInit == Init => ProbeInv
  <1> SUFFICES ASSUME Init PROVE ProbeInv
      OBVIOUS
  <1>1. ProbeTypes
      BY Ps2Assumption DEF Init, ProbeTypes, Ports
  <1>2. Buffers
      BY DEF Init, Buffers, Msg, Ports, Probing
  <1>3. Fitting
      BY DEF Init, Fitting, Probing, Probed
  <1> QED
      BY <1>1, <1>2, <1>3 DEF ProbeInv

\* From configure on init leaves the ports as they are.
LEMMA StaysProbed ==
    ASSUME ProbeInv, pc \in Probed, pc' \in Probed \ {"enable"}, port' \in Ports,
           DOMAIN devq' = Ports, UNCHANGED <<attached, driver, enabled>>
    PROVE  ProbeInv'
  <1>1. ProbeTypes'
      BY DEF ProbeInv, ProbeTypes
  <1>2. Buffers'
      BY DEF Buffers, Probing, Probed
  <1>3. Fitting'
      BY DEF ProbeInv, Fitting, Probed
  <1> QED
      BY <1>1, <1>2, <1>3 DEF ProbeInv

LEMMA ControllerProbe == ProbeInv /\ Controller => ProbeInv'
  <1> SUFFICES ASSUME ProbeInv, Controller PROVE ProbeInv'
      OBVIOUS
  <1> USE DEF Controller, driving
  <1>1. outq' = <<>>
      BY Queues DEF ProbeInv, Buffers, Drain, RestOf
  <1>2. ProbeTypes'
      BY DEF ProbeInv, ProbeTypes, Probing
  <1>3. NoneSent'
      BY DEF ProbeInv, Buffers, NoneSent
  <1>4. Buffers'
      BY <1>1, <1>3 DEF ProbeInv, Buffers, Probing, Probed
  <1>5. Fitting'
      BY DEF ProbeInv, Buffers, Fitting, Probing, Probed, Ports
  <1> QED
      BY <1>2, <1>4, <1>5 DEF ProbeInv

LEMMA SelfTestFailsProbe == ProbeInv /\ SelfTestFails => ProbeInv'
  <1> SUFFICES ASSUME ProbeInv, SelfTestFails PROVE ProbeInv'
      OBVIOUS
  <1> USE DEF SelfTestFails, hardware, ports, driving
  <1>1. ProbeTypes'
      BY DEF ProbeInv, ProbeTypes
  <1>2. Buffers' /\ Fitting'
      BY DEF Buffers, Fitting, Probing, Probed
  <1> QED
      BY <1>1, <1>2 DEF ProbeInv

\* A port is done with.
LEMMA NextPortProbe ==
    ASSUME ProbeInv, pc \in Probing, NextPort, outq' = <<>>, NoneSent',
           driver' \subseteq Ports, enabled' \subseteq Ports,
           UNCHANGED <<attached, devq>>,
           \A p \in Ports \ {port} : (p \in driver' <=> p \in driver) /\ (p \in enabled' <=> p \in enabled),
           port \in driver' <=> attached[port] = "keyboard",
           port \in enabled' <=> attached[port] \in {"keyboard", "mouse"}
    PROVE  ProbeInv'
  <1>1. pc' \in {"test", "enable"} /\ port' \in Ports
      BY DEF NextPort, Ports
  <1>2. ProbeTypes'
      BY <1>1 DEF ProbeInv, ProbeTypes, Probing, Probed
  <1>3. Buffers'
      BY <1>1 DEF ProbeInv, Buffers, Probing
  <1>4. Fitting'
    <2>1. port \in {0, 1}
        BY DEF ProbeInv, ProbeTypes, Ports
    <2>2. CASE port = 0
        BY <2>2 DEF NextPort, ProbeInv, Fitting, Probing, Probed, Ports
    <2>3. CASE port = 1
        BY <2>3 DEF NextPort, ProbeInv, Fitting, Probing, Probed, Ports
    <2> QED
        BY <2>1, <2>2, <2>3
  <1> QED
      BY <1>2, <1>3, <1>4 DEF ProbeInv

\* A port is found to work.
LEMMA StartsPort ==
    ASSUME ProbeInv, pc = "test", pc' = "scan", UNCHANGED <<attached, port, driver>>,
           enabled' = enabled \cup {port}
    PROVE  Fitting'
  <1> SUFFICES ASSUME NEW p \in Ports
               PROVE  (IF pc \in Probed \/ (pc \in Probing /\ p < port)
                       THEN /\ p \in driver <=> attached[p] = "keyboard"
                            /\ p \in enabled <=> attached[p] \in {"keyboard", "mouse"}
                       ELSE pc # "panicked" =>
                            p \notin driver /\ (p \in enabled <=> p = port /\ pc \in Probing \ {"test"}))'
      BY DEF Fitting
  <1>1. port \in {0, 1} /\ p \in {0, 1}
      BY DEF ProbeInv, ProbeTypes, Ports
  <1>2. IF p < port
        THEN /\ p \in driver <=> attached[p] = "keyboard"
             /\ p \in enabled <=> attached[p] \in {"keyboard", "mouse"}
        ELSE p \notin driver /\ p \notin enabled
      BY DEF ProbeInv, Fitting, Probing, Probed
  <1>3. pc' \notin Probed /\ pc' \in Probing /\ pc' \in Probing \ {"test"}
      BY DEF Probing, Probed
  <1>4. CASE p < port
      BY <1>1, <1>2, <1>3, <1>4
  <1>5. CASE ~(p < port)
      BY <1>1, <1>2, <1>3, <1>5
  <1> QED
      BY <1>4, <1>5

LEMMA TestProbe == ProbeInv /\ Test => ProbeInv'
  <1> SUFFICES ASSUME ProbeInv, Test PROVE ProbeInv'
      OBVIOUS
  <1> DEFINE queue == AfterReply(outq, TestReply(port))
  <1>1. /\ pc = "test" /\ outq = <<>> /\ NoneSent /\ port \in Ports /\ attached[port] \in Kinds
        /\ port \notin driver /\ port \notin enabled
      BY DEF Test, ProbeInv, Buffers, ProbeTypes, Fitting, Probing, Probed
  <1>2. /\ outq' = RestOf(queue)
        /\ UNCHANGED <<attached, devq, inbuf, driver>>
        /\ \/ /\ TopOf(queue) = 0
              /\ enabled' = enabled \cup {port}
              /\ pc' = "scan" /\ port' = port
           \/ TopOf(queue) # 0 /\ NextPort /\ enabled' = enabled
      BY DEF Test
  <1>3. NoneSent'
      BY <1>1, <1>2 DEF NoneSent, Gone
  <1>4. CASE attached[port] = "absent"
    <2>1. queue = <<>> /\ outq' = <<>>
        BY <1>1, <1>2, <1>4, Replies DEF TestReply, RestOf
    <2>2. CASE pc' = "scan"
      <3>0. enabled' = enabled \cup {port} /\ port' = port
          BY <1>2, <2>2 DEF NextPort
      <3>1. ProbeTypes'
          BY <1>1, <1>2, <2>2, <3>0 DEF ProbeInv, ProbeTypes, Probing
      <3>2. Buffers'
          BY <1>1, <1>2, <1>3, <1>4, <2>1, <2>2, <3>0 DEF ProbeInv, Buffers, Gone, Probing
      <3>3. Fitting'
          BY <1>1, <1>2, <2>2, <3>0, StartsPort
      <3> QED
          BY <3>1, <3>2, <3>3 DEF ProbeInv
    <2>3. CASE pc' # "scan"
      <3>1. NextPort /\ enabled' = enabled
          BY <1>2, <2>3
      <3> QED
          BY <1>1, <1>2, <1>3, <1>4, <2>1, <3>1, NextPortProbe DEF ProbeInv, ProbeTypes, Probing
    <2> QED
        BY <2>2, <2>3
  <1>5. CASE attached[port] = "failed"
    <2>1. queue = <<Msg(2, 1)>>
        BY <1>1, <1>5, Replies DEF TestReply
    <2>2. outq' = <<>> /\ TopOf(queue) = 1
        BY <1>2, <2>1, Queues DEF TopOf, RestOf, Msg
    <2>3. NextPort /\ enabled' = enabled
        BY <1>2, <2>2
    <2> QED
        BY <1>1, <1>2, <1>3, <1>5, <2>2, <2>3, NextPortProbe DEF ProbeInv, ProbeTypes, Probing
  <1>6. CASE attached[port] \notin {"absent", "failed"}
    <2>1. queue = <<Msg(2, 0)>>
        BY <1>1, <1>6, Replies DEF TestReply
    <2>2. outq' = <<>> /\ TopOf(queue) = 0
        BY <1>2, <2>1, Queues DEF TopOf, RestOf, Msg
    <2>3. enabled' = enabled \cup {port} /\ pc' = "scan" /\ port' = port
        BY <1>2, <2>2
    <2>4. Here(port) \/ Gone(port)
        BY <1>1, <1>6 DEF Here, Gone, Kinds
    <2>5. ProbeTypes'
        BY <1>1, <1>2, <2>3 DEF ProbeInv, ProbeTypes, Probing
    <2>6. Buffers'
        BY <1>1, <1>2, <1>3, <2>2, <2>3, <2>4 DEF ProbeInv, Buffers, Here, Gone, Probing
    <2>7. Fitting'
        BY <1>1, <1>2, <2>3, StartsPort
    <2> QED
        BY <2>5, <2>6, <2>7 DEF ProbeInv
  <1> QED
      BY <1>4, <1>5, <1>6

LEMMA WriteAckProbe ==
    ASSUME ProbeInv, DisableScan \/ Identify
    PROVE  ProbeInv'
  <1>1. CASE DisableScan
    <2> USE <1>1 DEF DisableScan, WriteAck, Write, ports, driving
    <2>1. pc = "scan" /\ pc' = "scan_ack" /\ inbuf' = <<To(port, DEV_DISABLE_SCAN)>>
        BY DEF To
    <2>2. ProbeTypes' /\ Fitting'
        BY <2>1 DEF ProbeInv, ProbeTypes, Fitting, Probing, Probed
    <2>3. Buffers'
        BY <2>1 DEF ProbeInv, Buffers, Probing, Here, Gone, To
    <2> QED
        BY <2>2, <2>3 DEF ProbeInv
  <1>2. CASE Identify
    <2> USE <1>2 DEF Identify, WriteAck, Write, ports, driving
    <2>1. pc = "identify" /\ pc' = "identify_ack" /\ inbuf' = <<To(port, DEV_IDENTIFY)>>
        BY DEF To
    <2>2. ProbeTypes' /\ Fitting'
        BY <2>1 DEF ProbeInv, ProbeTypes, Fitting, Probing, Probed
    <2>3. Buffers'
        BY <2>1 DEF ProbeInv, Buffers, Probing, Here, To
    <2> QED
        BY <2>2, <2>3 DEF ProbeInv
  <1> QED
      BY <1>1, <1>2

\* A step from one of the steps of a port to another.
LEMMA SamePort ==
    ASSUME ProbeInv, pc \in Probing \ {"test"}, pc' \in Probing \ {"test"},
           UNCHANGED <<attached, port, driver, enabled>>, DOMAIN devq' = Ports
    PROVE  ProbeTypes' /\ Fitting'
  BY DEF ProbeInv, ProbeTypes, Fitting, Probing, Probed

LEMMA DisabledScanProbe == ProbeInv /\ DisabledScan => ProbeInv'
  <1> SUFFICES ASSUME ProbeInv, DisabledScan PROVE ProbeInv'
      OBVIOUS
  <1>1. /\ pc = "scan_ack" /\ UNCHANGED <<attached, devq, inbuf, driver>>
        /\ \/ /\ TimedOut /\ enabled' = enabled \ {port} /\ NextPort /\ outq' = outq
           \/ /\ Ready /\ ReadData /\ pc' = (IF Again(lastout') THEN "scan" ELSE "identify")
              /\ enabled' = enabled /\ port' = port
      BY DEF DisabledScan, ReadAck
  <1>2. \/ inbuf = <<To(port, DEV_DISABLE_SCAN)>> /\ outq = <<>> /\ (Here(port) \/ Gone(port))
        \/ inbuf = <<>> /\ Here(port) /\ outq \in {<<Msg(port, ACK)>>, <<Msg(port, RESEND)>>}
      BY <1>1 DEF ProbeInv, Buffers
  <1>3. CASE TimedOut /\ enabled' = enabled \ {port} /\ NextPort /\ outq' = outq
    <2>1. inbuf # <<>> /\ attached[inbuf[1].to] \in {"none", "absent"}
        BY <1>3 DEF TimedOut, Vain
    <2>2. inbuf = <<To(port, DEV_DISABLE_SCAN)>> /\ outq = <<>>
        BY <1>2, <2>1
    <2>3. Gone(port) /\ port \in Ports
        BY <2>1, <2>2, Queues DEF To, Gone, ProbeInv, ProbeTypes
    <2>4. NoneSent'
        BY <1>1, <2>2, <2>3 DEF NoneSent, Gone, DEV_DISABLE_SCAN
    <2>5. port \notin driver
        BY <1>1, <2>3 DEF ProbeInv, Fitting, Probing, Probed, Ports
    <2>6. attached[port] \notin {"keyboard", "mouse"}
        BY <2>3 DEF Gone
    <2> QED
        BY <1>1, <1>3, <2>2, <2>3, <2>4, <2>5, <2>6, NextPortProbe
           DEF ProbeInv, ProbeTypes, Probing
  <1>4. CASE Ready /\ ReadData /\ pc' = (IF Again(lastout') THEN "scan" ELSE "identify")
             /\ enabled' = enabled /\ port' = port
    <2>1. inbuf = <<>> /\ Here(port) /\ outq \in {<<Msg(port, ACK)>>, <<Msg(port, RESEND)>>}
        BY <1>2, <1>4, Queues DEF Ready
    <2>2. outq' = <<>> /\ inbuf' = <<>>
        BY <1>1, <1>4, <2>1, Queues DEF ReadData, RestOf
    <2>3. pc' \in {"scan", "identify"}
        BY <1>4
    <2>4. ProbeTypes' /\ Fitting'
        BY <1>1, <1>4, <2>3, SamePort DEF ProbeInv, ProbeTypes, Probing
    <2>5. Buffers'
        BY <1>1, <1>4, <2>1, <2>2, <2>3 DEF ProbeInv, Buffers, NoneSent, Here, Probing
    <2> QED
        BY <2>4, <2>5 DEF ProbeInv
  <1> QED
      BY <1>1, <1>3, <1>4

LEMMA ReplyBytes ==
    ASSUME Here(port)
    PROVE  /\ Reply(port) # <<>> /\ Head(Reply(port)) = Msg(port, ACK)
           /\ Tail(Reply(port)) =
                 CASE attached[port] = "keyboard" -> <<Msg(port, \hab), Msg(port, \h83)>>
                   [] attached[port] = "mouse" -> <<Msg(port, \h00)>>
                   [] OTHER -> <<>>
  <1>1. CASE attached[port] = "keyboard"
      BY <1>1, Queues DEF Reply
  <1>2. CASE attached[port] = "mouse"
      BY <1>2, Queues DEF Reply
  <1>3. CASE attached[port] = "at"
      BY <1>3, Queues DEF Reply
  <1> QED
      BY <1>1, <1>2, <1>3 DEF Here

LEMMA IdentifiedProbe == ProbeInv /\ Identified => ProbeInv'
  <1> SUFFICES ASSUME ProbeInv, Identified PROVE ProbeInv'
      OBVIOUS
  <1>1. /\ pc = "identify_ack" /\ UNCHANGED <<attached, devq, inbuf, driver>> /\ info' = <<>>
        /\ \/ /\ TimedOut
           \/ /\ Ready /\ ReadData /\ pc' = (IF Again(lastout') THEN "identify" ELSE "info")
              /\ enabled' = enabled /\ port' = port
      BY DEF Identified, ReadAck
  <1>2. /\ Here(port)
        /\ \/ inbuf = <<To(port, DEV_IDENTIFY)>> /\ outq = <<>>
           \/ inbuf = <<>> /\ outq \in {Reply(port), <<Msg(port, RESEND)>>}
      BY <1>1 DEF ProbeInv, Buffers
  <1>3. ~TimedOut
      BY <1>2, Queues DEF TimedOut, Vain, To, Here
  <1>4. /\ inbuf = <<>> /\ outq \in {Reply(port), <<Msg(port, RESEND)>>}
        /\ outq' = RestOf(outq) /\ lastout' = TopOf(outq)
        /\ pc' = (IF Again(lastout') THEN "identify" ELSE "info")
        /\ enabled' = enabled /\ port' = port
      BY <1>1, <1>2, <1>3, Queues DEF Ready, ReadData
  <1>5. CASE outq = Reply(port)
    <2>1. lastout' = ACK /\ outq' = Tail(Reply(port))
        BY <1>2, <1>4, <1>5, ReplyBytes DEF RestOf, TopOf, Msg
    <2>2. pc' = "info"
        BY <1>4, <2>1 DEF Again, ACK, RESEND
    <2>3. ProbeTypes' /\ Fitting'
        BY <1>1, <1>4, <2>2, SamePort DEF ProbeInv, ProbeTypes, Probing
    <2>4. Reply(port)' = Reply(port) /\ Here(port)'
        BY <1>1, <1>2, <1>4 DEF Reply, Here
    <2>5. Buffers'
        BY <1>1, <1>4, <2>1, <2>2, <2>4 DEF ProbeInv, Buffers, Probing
    <2> QED
        BY <2>3, <2>5 DEF ProbeInv
  <1>6. CASE outq = <<Msg(port, RESEND)>>
    <2>1. lastout' = RESEND /\ outq' = <<>>
        BY <1>4, <1>6, Queues DEF RestOf, TopOf, Msg
    <2>2. pc' = "identify"
        BY <1>4, <2>1 DEF Again
    <2>3. ProbeTypes' /\ Fitting'
        BY <1>1, <1>4, <2>2, SamePort DEF ProbeInv, ProbeTypes, Probing
    <2>4. Buffers'
        BY <1>1, <1>2, <1>4, <2>1, <2>2 DEF ProbeInv, Buffers, Probing, Here
    <2> QED
        BY <2>3, <2>4 DEF ProbeInv
  <1> QED
      BY <1>4, <1>5, <1>6

LEMMA ReadInfoProbe == ProbeInv /\ ReadInfo => ProbeInv'
  <1> SUFFICES ASSUME ProbeInv, ReadInfo PROVE ProbeInv'
      OBVIOUS
  <1>1. /\ pc = "info" /\ UNCHANGED <<attached, devq, inbuf, driver, enabled, port>>
        /\ outq' = RestOf(outq) /\ lastout' = TopOf(outq)
        /\ info' = Append(info, lastout')
        /\ pc' = IF Len(info) = 0 THEN "info" ELSE "type"
    <2>1. pc = "info" /\ inbuf = <<>>
        BY DEF ReadInfo, ProbeInv, Buffers
    <2> QED
        BY <2>1 DEF ReadInfo, ReadData, TimedOut, Vain
  <1>2. /\ Here(port) /\ inbuf = <<>>
        /\ \/ info = <<>> /\ outq = Tail(Reply(port)) /\ lastout = ACK
           \/ FirstInfo
      BY <1>1 DEF ProbeInv, Buffers
  <1>3. pc' \in {"info", "type"}
      BY <1>1
  <1>4. ProbeTypes' /\ Fitting'
      BY <1>1, <1>3, SamePort DEF ProbeInv, ProbeTypes, Probing
  <1>5. \A p \in Ports : devq'[p] = <<>>
      BY <1>1 DEF ProbeInv, Buffers, Probing
  <1>6. Here(port)' /\ inbuf' = <<>>
      BY <1>1, <1>2 DEF Here
  <1>7. CASE info = <<>> /\ outq = Tail(Reply(port)) /\ lastout = ACK
    <2>1. pc' = "info" /\ info' = <<lastout'>>
        BY <1>1, <1>7, Queues, Appended
    <2>2. FirstInfo'
      <3>1. CASE attached[port] = "keyboard"
        <4>1. outq = <<Msg(port, \hab), Msg(port, \h83)>>
            BY <1>2, <1>7, <3>1, ReplyBytes
        <4>2. outq' = <<Msg(port, \h83)>> /\ lastout' = \hab
            BY <1>1, <4>1, Queues DEF RestOf, TopOf, Msg
        <4> QED
            BY <1>1, <2>1, <3>1, <4>2 DEF FirstInfo
      <3>2. CASE attached[port] = "mouse"
        <4>1. outq = <<Msg(port, \h00)>>
            BY <1>2, <1>7, <3>2, ReplyBytes
        <4>2. outq' = <<>> /\ lastout' = \h00
            BY <1>1, <4>1, Queues DEF RestOf, TopOf, Msg
        <4> QED
            BY <1>1, <2>1, <3>2, <4>2 DEF FirstInfo
      <3>3. CASE attached[port] = "at"
        <4>1. outq = <<>>
            BY <1>2, <1>7, <3>3, ReplyBytes
        <4>2. outq' = <<>> /\ lastout' = ACK
            BY <1>1, <1>7, <4>1 DEF RestOf, TopOf
        <4> QED
            BY <1>1, <2>1, <3>3, <4>2 DEF FirstInfo
      <3> QED
          BY <1>2, <3>1, <3>2, <3>3 DEF Here
    <2>3. Buffers'
        BY <1>5, <1>6, <2>1, <2>2 DEF Buffers
    <2> QED
        BY <1>4, <2>3 DEF ProbeInv
  <1>8. CASE FirstInfo
    <2>1. pc' = "type" /\ BothInfo' /\ outq' = <<>>
      <3>1. CASE attached[port] = "keyboard"
        <4>1. info = <<\hab>> /\ outq = <<Msg(port, \h83)>>
            BY <1>8, <3>1 DEF FirstInfo
        <4>2. outq' = <<>> /\ lastout' = \h83 /\ pc' = "type"
            BY <1>1, <4>1, Queues DEF RestOf, TopOf, Msg
        <4>3. info' = <<\hab, \h83>>
            BY <1>1, <4>1, <4>2, Appended
        <4> QED
            BY <1>1, <3>1, <4>2, <4>3 DEF BothInfo
      <3>2. CASE attached[port] = "mouse"
        <4>1. info = <<\h00>> /\ outq = <<>> /\ lastout = \h00
            BY <1>8, <3>2 DEF FirstInfo
        <4>2. outq' = <<>> /\ lastout' = \h00 /\ pc' = "type"
            BY <1>1, <4>1, Queues DEF RestOf, TopOf, Msg
        <4>3. info' = <<\h00, \h00>>
            BY <1>1, <4>1, <4>2, Appended
        <4> QED
            BY <1>1, <3>2, <4>2, <4>3 DEF BothInfo
      <3>3. CASE attached[port] = "at"
        <4>1. info = <<ACK>> /\ outq = <<>> /\ lastout = ACK
            BY <1>8, <3>3 DEF FirstInfo
        <4>2. outq' = <<>> /\ lastout' = ACK /\ pc' = "type"
            BY <1>1, <4>1, Queues DEF RestOf, TopOf
        <4>3. info' = <<ACK, ACK>>
            BY <1>1, <4>1, <4>2, Appended
        <4> QED
            BY <1>1, <3>3, <4>2, <4>3 DEF BothInfo
      <3> QED
          BY <1>2, <3>1, <3>2, <3>3 DEF Here
    <2>2. Buffers'
        BY <1>5, <1>6, <2>1 DEF Buffers
    <2> QED
        BY <1>4, <2>2 DEF ProbeInv
  <1> QED
      BY <1>2, <1>7, <1>8

LEMMA SetTypeProbe == ProbeInv /\ SetType => ProbeInv'
  <1> SUFFICES ASSUME ProbeInv, SetType PROVE ProbeInv'
      OBVIOUS
  <1>1. /\ pc = "type" /\ NextPort /\ UNCHANGED <<attached, devq, inbuf>>
        /\ \/ /\ TypeOf(info) = "unknown" /\ enabled' = enabled \ {port}
              /\ driver' = driver /\ outq' = outq
           \/ /\ TypeOf(info) # "unknown" /\ SetDriver /\ enabled' = enabled
              /\ outq' = RestOf(AfterReply(outq, <<Config>>))
      BY DEF SetType
  <1>2. Here(port) /\ inbuf = <<>> /\ outq = <<>> /\ BothInfo /\ port \in Ports
      BY <1>1 DEF ProbeInv, Buffers, ProbeTypes
  <1>3. outq' = <<>> /\ NoneSent'
    <2>1. AfterReply(outq, <<Config>>) = <<Msg(2, Config)>>
        BY <1>2, Replies
    <2>2. RestOf(<<Msg(2, Config)>>) = <<>>
        BY Queues DEF RestOf
    <2>3. outq' = <<>>
        BY <1>1, <1>2, <2>1, <2>2
    <2> QED
        BY <1>1, <1>2, <2>3 DEF NoneSent
  <1>4. port \notin driver /\ port \in enabled
      BY <1>1, <1>2 DEF ProbeInv, Fitting, Probing, Probed, Ports
  <1>5. TypeOf(info) = IF attached[port] \in {"keyboard", "mouse"} THEN attached[port] ELSE "unknown"
    <2>1. CASE attached[port] = "keyboard"
      <3>1. info = <<\hab, \h83>>
          BY <1>2, <2>1 DEF BothInfo
      <3>2. info[1] = \hab /\ info[2] = \h83 /\ info # <<>>
          BY <3>1
      <3> QED
          BY <2>1, <3>2 DEF TypeOf
    <2>2. CASE attached[port] = "mouse"
      <3>1. info = <<\h00, \h00>>
          BY <1>2, <2>2 DEF BothInfo
      <3>2. info[1] = \h00 /\ info # <<>>
          BY <3>1
      <3> QED
          BY <2>2, <3>2 DEF TypeOf
    <2>3. CASE attached[port] = "at"
      <3>1. info = <<ACK, ACK>>
          BY <1>2, <2>3 DEF BothInfo
      <3>2. info[1] = \hfa /\ info # <<>>
          BY <3>1 DEF ACK
      <3> QED
          BY <2>3, <3>2 DEF TypeOf
    <2> QED
        BY <1>2, <2>1, <2>2, <2>3 DEF Here
  <1>6. /\ port \in driver' <=> attached[port] = "keyboard"
        /\ port \in enabled' <=> attached[port] \in {"keyboard", "mouse"}
        /\ driver' \subseteq Ports /\ enabled' \subseteq Ports
        /\ \A p \in Ports \ {port} : (p \in driver' <=> p \in driver) /\ (p \in enabled' <=> p \in enabled)
      BY <1>1, <1>2, <1>4, <1>5 DEF SetDriver, ProbeInv, ProbeTypes
  <1> QED
      BY <1>1, <1>3, <1>6, NextPortProbe DEF Probing

LEMMA EnableFuncProbe == ProbeInv /\ EnableFunc => ProbeInv'
  BY StaysProbed DEF EnableFunc, ProbeInv, ProbeTypes, Probed, hardware, ports, driving

LEMMA ConfigureProbe ==
    ProbeInv /\ (NoDriver \/ Configure \/ Send \/ SendAgain \/ Answered) => ProbeInv'
  BY StaysProbed DEF NoDriver, Configure, Send, SendAgain, Answered, NextDriver, ProbeInv,
                     ProbeTypes, Probed, Ports, hardware, ports, driving

LEMMA HandleProbe ==
    ASSUME ProbeInv, NEW p \in Ports, Handle(p)
    PROVE  ProbeInv'
  BY StaysProbed DEF Handle, ProbeInv, ProbeTypes, Probed, ports

\* The device that a byte is on its way to.
LEMMA SentTo ==
    ASSUME ProbeInv, pc \in {"start", "enable"} \cup Probing, inbuf # <<>>, ~Vain
    PROVE  /\ pc \in {"scan_ack", "identify_ack"} /\ Here(port) /\ outq = <<>>
           /\ inbuf[1].to = port
           /\ inbuf[1].byte = IF pc = "scan_ack" THEN DEV_DISABLE_SCAN ELSE DEV_IDENTIFY
  <1>1. ~NoneSent
    <2> SUFFICES ASSUME NEW q \in Ports, NEW b \in 0..255, Gone(q), inbuf = <<To(q, b)>>
                 PROVE  FALSE
        BY DEF NoneSent
    <2>1. inbuf[1].to = q
        BY Queues DEF To
    <2> QED
        BY <2>1 DEF Vain, Gone
  <1>2. pc \in {"scan_ack", "identify_ack"}
      BY <1>1 DEF ProbeInv, Buffers, Probing
  <1>3. outq = <<>> /\ inbuf = <<To(port, IF pc = "scan_ack" THEN DEV_DISABLE_SCAN ELSE DEV_IDENTIFY)>>
      BY <1>2 DEF ProbeInv, Buffers
  <1>4. /\ inbuf[1].to = port
        /\ inbuf[1].byte = IF pc = "scan_ack" THEN DEV_DISABLE_SCAN ELSE DEV_IDENTIFY
      BY <1>3, Queues DEF To
  <1>5. Here(port)
      BY <1>2, <1>3, <1>4 DEF ProbeInv, Buffers, Vain, Gone
  <1> QED
      BY <1>2, <1>3, <1>4, <1>5

LEMMA AcceptProbe == ASSUME Prompt, ProbeInv, Accept PROVE ProbeInv'
  <1> DEFINE p == inbuf[1].to
             byte == inbuf[1].byte
             bytes == <<ACK>> \o (IF byte = DEV_IDENTIFY THEN Id(attached[p]) ELSE <<>>)
             kept == IF byte \in {DEV_DISABLE_SCAN, \hff} THEN <<>> ELSE devq[p]
  <1>1. /\ inbuf # <<>> /\ ~Vain /\ inbuf' = <<>>
        /\ outq' = outq \o Answer(p, bytes)
        /\ devq' = [devq EXCEPT ![p] = IF byte = \hff THEN Append(kept, PASS) ELSE kept]
        /\ UNCHANGED <<attached, pc, port, driver, enabled, info, lastout>>
      BY DEF Accept, ports
  <1> HIDE DEF p, byte, bytes, kept
  <1>2. DOMAIN devq' = Ports
      BY <1>1 DEF ProbeInv, ProbeTypes
  <1>3. CASE pc \in {"configure", "send", "answer", "done"}
      BY <1>1, <1>2, <1>3, StaysProbed DEF ProbeInv, ProbeTypes, Probed
  <1>4. CASE pc \in {"start", "enable"} \cup Probing
    <2>1. /\ pc \in {"scan_ack", "identify_ack"} /\ Here(port) /\ outq = <<>> /\ p = port
          /\ byte = IF pc = "scan_ack" THEN DEV_DISABLE_SCAN ELSE DEV_IDENTIFY
        BY <1>1, <1>4, SentTo DEF p, byte
    <2>2. \A q \in Ports : devq[q] = <<>>
        BY <1>4 DEF ProbeInv, Buffers
    <2>3. kept = <<>> /\ byte # \hff
        BY <2>1, <2>2 DEF kept, ProbeInv, ProbeTypes, DEV_DISABLE_SCAN, DEV_IDENTIFY
    <2>4. \A q \in Ports : devq'[q] = <<>>
        BY <1>1, <2>2, <2>3 DEF ProbeInv, ProbeTypes
    <2>5. ProbeTypes' /\ Fitting'
        BY <1>1, <1>2, <2>1, SamePort DEF Probing
    <2>6. Here(port)' /\ Reply(port)' = Reply(port)
        BY <1>1, <2>1 DEF Here, Reply
    <2>7. CASE pc = "scan_ack"
      <3>1. bytes = <<ACK>>
          BY <2>1, <2>7, Joined DEF bytes, DEV_DISABLE_SCAN, DEV_IDENTIFY
      <3>2. outq' = <<Msg(port, ACK)>>
          BY <1>1, <2>1, <3>1, Answers, Joined
      <3>3. Buffers'
          BY <1>1, <2>4, <2>6, <2>7, <3>2 DEF Buffers
      <3> QED
          BY <2>5, <3>3 DEF ProbeInv
    <2>8. CASE pc = "identify_ack"
      <3>1. outq' = Reply(port)
        <4>1. bytes = <<ACK>> \o Id(attached[port]) /\ outq' = <<>> \o Answer(port, bytes)
            BY <1>1, <2>1, <2>8 DEF bytes
        <4>2. Answer(port, bytes) = Reply(port)
          <5>1. CASE attached[port] = "keyboard"
            <6>1. PICK a, b : a = \hab /\ b = \h83
                OBVIOUS
            <6>2. Id(attached[port]) = <<a, b>>
                BY <5>1, <6>1 DEF Id
            <6>3. Reply(port) = <<Msg(port, ACK), Msg(port, a), Msg(port, b)>>
                BY <5>1, <6>1 DEF Reply
            <6>4. bytes = <<ACK, a, b>>
                BY <4>1, <6>2, Joined
            <6>5. Answer(port, <<ACK, a, b>>) = <<Msg(port, ACK), Msg(port, a), Msg(port, b)>>
                BY Prompt DEF Answer, Msg
            <6> QED
                BY <6>3, <6>4, <6>5
          <5>2. CASE attached[port] = "mouse"
            <6>1. bytes = <<ACK, \h00>>
                BY <4>1, <5>2, Joined DEF Id
            <6> QED
                BY <5>2, <6>1, Answers DEF Reply
          <5>3. CASE attached[port] = "at"
            <6>1. bytes = <<ACK>>
                BY <4>1, <5>3, Joined DEF Id
            <6> QED
                BY <5>3, <6>1, Answers DEF Reply
          <5> QED
              BY <2>1, <5>1, <5>2, <5>3 DEF Here
        <4>3. \E S : Reply(port) \in Seq(S)
          <5> WITNESS [from : {port}, byte : 0..255]
          <5>1. CASE attached[port] = "keyboard"
              BY <5>1 DEF Reply, Msg, ACK
          <5>2. CASE attached[port] = "mouse"
              BY <5>2 DEF Reply, Msg, ACK
          <5>3. CASE attached[port] \notin {"keyboard", "mouse"}
            <6>1. Reply(port) = <<Msg(port, ACK)>>
                BY <5>3 DEF Reply
            <6> QED
                BY <6>1 DEF Msg, ACK
          <5> QED
              BY <5>1, <5>2, <5>3
        <4> QED
            BY <4>1, <4>2, <4>3, ConcatEmptySeq
      <3>2. Buffers'
          BY <1>1, <2>4, <2>6, <2>8, <3>1 DEF Buffers
      <3> QED
          BY <2>5, <3>2 DEF ProbeInv
    <2> QED
        BY <2>1, <2>7, <2>8
  <1>5. CASE pc = "panicked"
    <2>1. ProbeTypes'
        BY <1>1, <1>2 DEF ProbeInv, ProbeTypes
    <2>2. Buffers' /\ Fitting'
        BY <1>1, <1>5 DEF Buffers, Fitting, Probing, Probed
    <2> QED
        BY <2>1, <2>2 DEF ProbeInv
  <1> QED
      BY <1>3, <1>4, <1>5 DEF ProbeInv, ProbeTypes, Probing, Probed

LEMMA AskAgainProbe == ASSUME ProbeInv, AskAgain PROVE ProbeInv'
  <1> DEFINE p == inbuf[1].to
  <1>1. /\ inbuf # <<>> /\ ~Vain /\ inbuf' = <<>>
        /\ outq' = Append(outq, Msg(p, RESEND))
        /\ UNCHANGED <<attached, pc, port, driver, enabled, info, lastout, devq>>
      BY DEF AskAgain, ports, Msg
  <1> HIDE DEF p
  <1>2. CASE pc \in {"configure", "send", "answer", "done"}
      BY <1>1, <1>2, StaysProbed DEF ProbeInv, ProbeTypes, Probed
  <1>3. CASE pc \in {"start", "enable"} \cup Probing
    <2>1. pc \in {"scan_ack", "identify_ack"} /\ Here(port) /\ outq = <<>> /\ p = port
        BY <1>1, <1>3, SentTo DEF p
    <2>2. outq' = <<Msg(port, RESEND)>>
        BY <1>1, <2>1, Appended
    <2>3. ProbeTypes' /\ Fitting'
        BY <1>1, <2>1, SamePort DEF Probing, ProbeInv, ProbeTypes
    <2>4. Here(port)' /\ \A q \in Ports : devq'[q] = <<>>
        BY <1>1, <1>3, <2>1 DEF Here, ProbeInv, Buffers
    <2>5. Buffers'
        BY <1>1, <2>1, <2>2, <2>4 DEF Buffers
    <2> QED
        BY <2>3, <2>5 DEF ProbeInv
  <1>4. CASE pc = "panicked"
    <2>1. ProbeTypes'
        BY <1>1 DEF ProbeInv, ProbeTypes
    <2>2. Buffers' /\ Fitting'
        BY <1>1, <1>4 DEF Buffers, Fitting, Probing, Probed
    <2> QED
        BY <2>1, <2>2 DEF ProbeInv
  <1> QED
      BY <1>2, <1>3, <1>4 DEF ProbeInv, ProbeTypes, Probing, Probed

LEMMA GiveUpProbe == ASSUME ProbeInv, GiveUp PROVE ProbeInv'
  <1>1. /\ inbuf # <<>> /\ pc \notin {"scan_ack", "identify_ack"} /\ inbuf' = <<>>
        /\ UNCHANGED <<attached, pc, port, driver, enabled, info, lastout, devq, outq>>
      BY DEF GiveUp, ports, Vain
  <1>2. ProbeTypes' /\ Fitting'
      BY <1>1 DEF ProbeInv, ProbeTypes, Fitting
  <1>3. NoneSent'
      BY <1>1 DEF NoneSent
  <1>4. Buffers'
      BY <1>1, <1>3 DEF ProbeInv, Buffers, Here, Gone, FirstInfo, BothInfo, Reply
  <1> QED
      BY <1>2, <1>4 DEF ProbeInv

LEMMA EmitProbe == ASSUME ProbeInv, NEW p \in Ports, Emit(p) PROVE ProbeInv'
  <1>1. /\ devq[p] # <<>> /\ devq' = [devq EXCEPT ![p] = Tail(@)]
        /\ UNCHANGED <<attached, pc, port, driver, enabled>>
      BY DEF Emit, ports
  <1>2. pc \notin {"start", "enable"} \cup Probing
      BY <1>1 DEF ProbeInv, Buffers
  <1>3. DOMAIN devq' = Ports
      BY <1>1 DEF ProbeInv, ProbeTypes
  <1>4. CASE pc = "panicked"
    <2>1. ProbeTypes'
        BY <1>1, <1>3 DEF ProbeInv, ProbeTypes
    <2>2. Buffers' /\ Fitting'
        BY <1>1, <1>4 DEF Buffers, Fitting, Probing, Probed
    <2> QED
        BY <2>1, <2>2 DEF ProbeInv
  <1>5. CASE pc # "panicked"
      BY <1>1, <1>2, <1>3, <1>5, StaysProbed DEF ProbeInv, ProbeTypes, Probed
  <1> QED
      BY <1>4, <1>5

LEMMA TypeProbe ==
    ASSUME ~Early, ProbeInv, NEW p \in Ports, NEW key, NEW release, Type(p, key, release)
    PROVE  ProbeInv'
  <1>1. /\ pc = "done" /\ devq' = [devq EXCEPT ![p] = @ \o Codes(key, release)]
        /\ UNCHANGED <<attached, pc, port, driver, enabled>>
      BY DEF Type, ports
  <1>2. DOMAIN devq' = Ports
      BY <1>1 DEF ProbeInv, ProbeTypes
  <1> QED
      BY <1>1, <1>2, StaysProbed DEF ProbeInv, ProbeTypes, Probed

LEMMA ProbeStep == ASSUME Prompt, ~Early PROVE ProbeInv /\ [Next]_vars => ProbeInv'
  <1> SUFFICES ASSUME ProbeInv, [Next]_vars PROVE ProbeInv'
      OBVIOUS
  <1>1. CASE UNCHANGED vars
      BY <1>1, SMTT(60) DEF vars, hardware, ports, driving, ProbeInv, ProbeTypes, Buffers, Fitting,
                            NoneSent, Here, Gone, FirstInfo, BothInfo, Reply
  <1>2. CASE Driver
      BY <1>2, ControllerProbe, SelfTestFailsProbe, TestProbe, WriteAckProbe, DisabledScanProbe,
         IdentifiedProbe, ReadInfoProbe, SetTypeProbe, EnableFuncProbe, ConfigureProbe DEF Driver
  <1>3. CASE Next /\ ~Driver
      BY <1>3, AcceptProbe, AskAgainProbe, GiveUpProbe, HandleProbe, EmitProbe, TypeProbe DEF Next
  <1> QED
      BY <1>1, <1>2, <1>3 DEF Next

-----------------------------------------------------------------------------
(* Theorems about init                                                     *)

LEMMA ProbeInvariant == ASSUME Prompt, ~Early PROVE Spec => []ProbeInv
  <1>1. Init => ProbeInv
      BY ProbeInit
  <1>2. ProbeInv /\ [Next]_vars => ProbeInv'
      BY ProbeStep
  <1> QED
      BY <1>1, <1>2, PTL DEF Spec

\* What init reads after a command is the reply to it, whatever is plugged in and
\* however often a device asks for a byte again.
THEOREM RepliesAlwaysMatch == ASSUME Prompt, ~Early PROVE Spec => []RepliesMatch
  <1>1. ProbeInv => RepliesMatch
      BY DEF ProbeInv, Buffers, RepliesMatch
  <1> QED
      BY <1>1, ProbeInvariant, PTL

\* init gives a keyboard its driver, enables keyboards and mice and no device that is
\* absent or failed.
THEOREM DriverAlwaysFits == ASSUME Prompt, ~Early PROVE Spec => []DriverFits
  <1>1. ProbeInv => DriverFits
    <2> SUFFICES ASSUME ProbeInv, pc \in Probed
                 PROVE  \A p \in Ports :
                            /\ p \in driver <=> attached[p] = "keyboard"
                            /\ p \in enabled <=> attached[p] \in {"keyboard", "mouse"}
        BY DEF DriverFits, Probed
    <2> QED
        BY DEF ProbeInv, ProbeTypes, Fitting
  <1> QED
      BY <1>1, ProbeInvariant, PTL

\* No byte of the identification ever times out, so init never takes a device for an AT
\* keyboard: a port that holds one ends up disabled and without a driver.
AtLeftOut ==
    /\ pc = "type" => info # <<>>
    /\ pc \in Probed => \A p \in Ports : attached[p] = "at" => p \notin driver \cup enabled

\* The branch of init for an AT keyboard is dead (ps2.cpp:178-179).
THEOREM AtNeverDriven == ASSUME Prompt, ~Early PROVE Spec => []AtLeftOut
  <1>1. ASSUME ProbeInv, pc = "type" PROVE info # <<>>
    <2>1. BothInfo /\ Here(port)
        BY <1>1 DEF ProbeInv, Buffers
    <2>2. info \in {<<\hab, \h83>>, <<\h00, \h00>>, <<ACK, ACK>>}
        BY <2>1 DEF BothInfo
    <2> QED
        BY <2>2
  <1>2. ProbeInv => AtLeftOut
      BY <1>1 DEF ProbeInv, ProbeTypes, Fitting, AtLeftOut
  <1> QED
      BY <1>2, ProbeInvariant, PTL

-----------------------------------------------------------------------------
(* What the driver makes of the bytes of a key                             *)

LEMMA Lengthened ==
    ASSUME NEW a, NEW b, NEW c, NEW d, NEW e
    PROVE  /\ <<a, b>> \o <<>> = <<a, b>>
           /\ <<a, b>> \o <<c>> = <<a, b, c>>
           /\ <<a, b, c>> \o <<d>> = <<a, b, c, d>>
           /\ <<a, b, c, d>> \o <<e>> = <<a, b, c, d, e>>
  <1> DEFINE S == {a, b, c, d, e}
  <1>1. /\ <<a, b>> \in Seq(S) /\ <<a, b, c>> \in Seq(S) /\ <<a, b, c, d>> \in Seq(S)
        /\ <<a, b, c, d, e>> \in Seq(S) /\ c \in S /\ d \in S /\ e \in S
        /\ <<c>> \in Seq(S) /\ <<d>> \in Seq(S) /\ <<e>> \in Seq(S)
      OBVIOUS
  <1> HIDE DEF S
  <1>2. <<a, b>> \o <<>> = <<a, b>>
      BY <1>1, ConcatEmptySeq
  <1>3. <<a, b>> \o <<c>> = <<a, b, c>>
    <2> DEFINE s == <<a, b>> \o <<c>>
    <2>1. /\ s \in Seq(S) /\ Len(s) = 3
          /\ \A i \in 1..3 : s[i] = IF i <= 2 THEN <<a, b>>[i] ELSE <<c>>[i - 2]
        BY <1>1, ConcatProperties
    <2> HIDE DEF s
    <2>2. s[1] = a /\ s[2] = b /\ s[3] = c
        BY <2>1
    <2>3. Len(<<a, b, c>>) = Len(s) /\ \A i \in 1..Len(s) : s[i] = <<a, b, c>>[i]
        BY <2>1, <2>2
    <2>4. s = <<a, b, c>>
        BY <1>1, <2>1, <2>3, SeqEqual
    <2> QED
        BY <2>4 DEF s
  <1>4. <<a, b, c>> \o <<d>> = <<a, b, c, d>>
    <2> DEFINE s == <<a, b, c>> \o <<d>>
    <2>1. /\ s \in Seq(S) /\ Len(s) = 4
          /\ \A i \in 1..4 : s[i] = IF i <= 3 THEN <<a, b, c>>[i] ELSE <<d>>[i - 3]
        BY <1>1, ConcatProperties
    <2> HIDE DEF s
    <2>2. s[1] = a /\ s[2] = b /\ s[3] = c /\ s[4] = d
        BY <2>1
    <2>3. Len(<<a, b, c, d>>) = Len(s) /\ \A i \in 1..Len(s) : s[i] = <<a, b, c, d>>[i]
        BY <2>1, <2>2
    <2>4. s = <<a, b, c, d>>
        BY <1>1, <2>1, <2>3, SeqEqual
    <2> QED
        BY <2>4 DEF s
  <1>5. <<a, b, c, d>> \o <<e>> = <<a, b, c, d, e>>
    <2> DEFINE s == <<a, b, c, d>> \o <<e>>
    <2>1. /\ s \in Seq(S) /\ Len(s) = 5
          /\ \A i \in 1..5 : s[i] = IF i <= 4 THEN <<a, b, c, d>>[i] ELSE <<e>>[i - 4]
        BY <1>1, ConcatProperties
    <2> HIDE DEF s
    <2>2. s[1] = a /\ s[2] = b /\ s[3] = c /\ s[4] = d /\ s[5] = e
        BY <2>1
    <2>3. Len(<<a, b, c, d, e>>) = Len(s) /\ \A i \in 1..Len(s) : s[i] = <<a, b, c, d, e>>[i]
        BY <2>1, <2>2
    <2>4. s = <<a, b, c, d, e>>
        BY <1>1, <2>1, <2>3, SeqEqual
    <2> QED
        BY <2>4 DEF s
  <1> QED
      BY <1>2, <1>3, <1>4, <1>5

\* The bytes are named: the provers take numerals in a sequence for another type.
Bytes(e0, e1, f0, h14, h1c, h75, h77, h83) ==
    /\ e0 = \he0 /\ e1 = \he1 /\ f0 = \hf0 /\ h14 = \h14
    /\ h1c = \h1c /\ h75 = \h75 /\ h77 = \h77 /\ h83 = \h83

LEMMA CodesAre ==
    ASSUME NEW e0, NEW e1, NEW f0, NEW h14, NEW h1c, NEW h75, NEW h77, NEW h83,
           Bytes(e0, e1, f0, h14, h1c, h75, h77, h83)
    PROVE  /\ Down("a") = <<h1c>> /\ Up("a") = <<f0, h1c>>
           /\ Down("f7") = <<h83>> /\ Up("f7") = <<f0, h83>>
           /\ Down("up") = <<e0, h75>> /\ Up("up") = <<e0, f0, h75>>
           /\ Down("pause") = <<e1, h14, h77>>
           /\ Up("pause") = <<e1, f0, h14, f0, h77>>
  <1>1. Down("a") = <<>> \o <<h1c>> /\ Up("a") = <<f0>> \o <<h1c>>
      BY DEF Codes, Bytes, Down, Up
  <1>2. Down("f7") = <<>> \o <<h83>> /\ Up("f7") = <<f0>> \o <<h83>>
      BY DEF Codes, Bytes, Down, Up
  <1>3. /\ Down("up") = <<e0>> \o <<>> \o <<h75>>
        /\ Up("up") = <<e0>> \o <<f0>> \o <<h75>>
      BY DEF Codes, Bytes, Down, Up
  <1>4. /\ Down("pause") = <<e1>> \o <<>> \o <<h14>> \o <<>> \o <<h77>>
        /\ Up("pause") = <<e1>> \o <<f0>> \o <<h14>> \o <<f0>> \o <<h77>>
      BY DEF Codes, Bytes, Down, Up
  <1>5. /\ <<>> \o <<h1c>> = <<h1c>> /\ <<f0>> \o <<h1c>> = <<f0, h1c>>
        /\ <<>> \o <<h83>> = <<h83>> /\ <<f0>> \o <<h83>> = <<f0, h83>>
      BY Joined
  <1>6. /\ <<e0>> \o <<>> = <<e0>> /\ <<e0>> \o <<h75>> = <<e0, h75>>
        /\ <<e0>> \o <<f0>> = <<e0, f0>>
      BY Joined
  <1>7. <<e0, f0>> \o <<h75>> = <<e0, f0, h75>>
      BY Lengthened
  <1>8. /\ <<e1>> \o <<>> = <<e1>> /\ <<e1>> \o <<h14>> = <<e1, h14>>
        /\ <<e1>> \o <<f0>> = <<e1, f0>>
      BY Joined
  <1>9. <<e1, h14>> \o <<>> = <<e1, h14>> /\ <<e1, h14>> \o <<h77>> = <<e1, h14, h77>>
      BY Lengthened
  <1>10. /\ <<e1, f0>> \o <<h14>> = <<e1, f0, h14>>
         /\ <<e1, f0, h14>> \o <<f0>> = <<e1, f0, h14, f0>>
         /\ <<e1, f0, h14, f0>> \o <<h77>> = <<e1, f0, h14, f0, h77>>
      BY Lengthened
  <1>11. Down("a") = <<h1c>> /\ Up("a") = <<f0, h1c>>
      BY <1>1, <1>5
  <1>12. Down("f7") = <<h83>> /\ Up("f7") = <<f0, h83>>
      BY <1>2, <1>5
  <1>13. Down("up") = <<e0, h75>> /\ Up("up") = <<e0, f0, h75>>
      BY <1>3, <1>6, <1>7
  <1>14. Down("pause") = <<e1, h14, h77>>
      BY <1>4, <1>8, <1>9
  <1>15. Up("pause") = <<e1, f0, h14, f0, h77>>
      BY <1>4, <1>8, <1>10
  <1> QED
      BY <1>11, <1>12, <1>13, <1>14, <1>15

After(k, b) == Handled(k, b).k
Output(k, b) == Handled(k, b).out
Flags == {\he0, \he1, \hf0}
KeyCodes == {\h14, \h1c, \h75, \h77, \h83}
InputOf(b) == IF b = \h83 THEN \h02 ELSE b

Doubled(k) == [k EXCEPT !.double_code = TRUE]
Halved(k, l) == [k EXCEPT !.last_key = l, !.double_code = FALSE]

LEMMA FieldsSet ==
    ASSUME NEW k \in KbFields, NEW l \in Nat
    PROVE  /\ Doubled(k) \in KbFields /\ Halved(k, l) \in KbFields
           /\ Doubled(k).last_input = k.last_input /\ Halved(k, l).last_input = k.last_input
           /\ (k.last_key = 0 => Double(Doubled(k), k.key)) /\ Single(Halved(k, l), k.key, l)
  <1>1. TRUE \in BOOLEAN /\ FALSE \in BOOLEAN
      BY Zenon
  <1>2. Doubled(k) \in KbFields
      BY <1>1, Zenon DEF KbFields, Doubled
  <1>3. Halved(k, l) \in KbFields
      BY <1>1, Zenon DEF KbFields, Halved
  <1>4. Doubled(k).last_input = k.last_input
      BY Zenon DEF KbFields, Doubled
  <1>5. Halved(k, l).last_input = k.last_input
      BY Zenon DEF KbFields, Halved
  <1>6. (k.last_key = 0 => Double(Doubled(k), k.key))
      BY Zenon DEF KbFields, Doubled, Double
  <1>7. Single(Halved(k, l), k.key, l)
      BY Zenon DEF KbFields, Halved, Single
  <1> QED
      BY <1>2, <1>3, <1>4, <1>5, <1>6, <1>7

LEMMA AfterPrefix ==
    ASSUME NEW k \in KbFields, k.last_input = ACK, NEW b \in Flags
    PROVE  /\ After(k, b) \in KbFields /\ After(k, b).last_input = ACK /\ Output(k, b) = <<>>
           /\ b = \he0 /\ ~k.double_code => Single(After(k, b), k.key \cup {"extended"}, k.last_key)
           /\ b = \he1 /\ k.last_key = 0 => Double(After(k, b), k.key)
           /\ b = \hf0 /\ ~k.double_code => Single(After(k, b), k.key \cup {"release"}, k.last_key)
           /\ b = \hf0 /\ k.double_code /\ k.last_key = 0 => Double(After(k, b), k.key \cup {"release"})
  <1>1. CASE b = \he0
    <2>1. Handled(k, b) = [k |-> [k EXCEPT !.key = @ \cup {"extended"}], out |-> <<>>]
        BY <1>1 DEF Handled, ACK, PASS, ECHO, RESEND, Errors, SelfTestFailed
    <2> QED
        BY <1>1, <2>1 DEF After, Output, Single, Double, KbFields
  <1>2. CASE b = \he1
    <2>1. Handled(k, b) = [k |-> [k EXCEPT !.double_code = TRUE], out |-> <<>>]
        BY <1>2 DEF Handled, ACK, PASS, ECHO, RESEND, Errors, SelfTestFailed
    <2>2. After(k, b) = Doubled(k) /\ Output(k, b) = <<>>
        BY <2>1 DEF After, Output, Doubled
    <2>3. k.last_key \in Nat
        BY DEF KbFields
    <2>4. /\ After(k, b) \in KbFields /\ After(k, b).last_input = ACK
          /\ (k.last_key = 0 => Double(After(k, b), k.key))
      <3>1. Doubled(k) \in KbFields /\ Doubled(k).last_input = k.last_input
          BY <2>3, FieldsSet
      <3>2. (k.last_key = 0 => Double(Doubled(k), k.key))
          BY <2>3, FieldsSet, Zenon
      <3> QED
          BY <2>2, <3>1, <3>2, Zenon
    <2>5. b # \he0 /\ b # \hf0
        BY <1>2
    <2> QED
        BY <2>2, <2>4, <2>5, Zenon
  <1>3. CASE b = \hf0
    <2>1. Handled(k, b) = [k |-> [k EXCEPT !.key = @ \cup {"release"}], out |-> <<>>]
        BY <1>3 DEF Handled, ACK, PASS, ECHO, RESEND, Errors, SelfTestFailed
    <2> QED
        BY <1>3, <2>1 DEF After, Output, Single, Double, KbFields
  <1> QED
      BY <1>1, <1>2, <1>3 DEF Flags

LEMMA AfterLiteral ==
    ASSUME NEW k \in KbFields, k.last_input = ACK, NEW b \in KeyCodes
    PROVE  /\ After(k, b) \in KbFields /\ After(k, b).last_input = ACK
           /\ k.double_code =>
                 Output(k, b) = <<>> /\ Single(After(k, b), k.key, InputOf(b))
           /\ ~k.double_code => NoKey(After(k, b))
           /\ ~k.double_code /\ k.last_key = 0 =>
                 Output(k, b) = <<[flags |-> k.key, code |-> InputOf(b)]>>
           /\ ~k.double_code /\ k.last_key = \h14 /\ b = \h77 =>
                 Output(k, b) = <<[flags |-> k.key, code |-> \h0f]>>
  <1> DEFINE i == InputOf(b)
  <1>1. i \in Nat /\ i < \h80 /\ i # 0 /\ b # PASS /\ b \in Nat /\ (b = \h77 => i = \h77)
      BY DEF InputOf, PASS, KeyCodes
  <1>2. Handled(k, b) = Literal(k, i)
      BY DEF KeyCodes, Handled, InputOf, ACK, PASS, ECHO, RESEND, Errors, SelfTestFailed
  <1> HIDE DEF i
  <1>3. CASE k.double_code
    <2>1. Handled(k, b) = [k |-> [k EXCEPT !.last_key = i, !.double_code = FALSE], out |-> <<>>]
        BY <1>2, <1>3 DEF Literal
    <2>2. After(k, b) = Halved(k, i) /\ Output(k, b) = <<>>
        BY <2>1 DEF After, Output, Halved
    <2>3. /\ After(k, b) \in KbFields /\ After(k, b).last_input = ACK
          /\ Single(After(k, b), k.key, i)
      <3>1. Halved(k, i) \in KbFields
          BY <1>1, FieldsSet, Zenon
      <3>2. Single(Halved(k, i), k.key, i)
          BY <1>1, FieldsSet, Zenon
      <3>3. Halved(k, i).last_input = k.last_input
          BY Zenon DEF KbFields, Halved
      <3> QED
          BY <2>2, <3>1, <3>2, <3>3, Zenon
    <2> QED
        BY <1>3, <2>2, <2>3, Zenon DEF i
  <1>4. CASE ~k.double_code
    <2>1. Handled(k, b).k = KeyOver(k)
        BY <1>2, <1>4 DEF Literal
    <2>2. /\ KeyOver(k) \in KbFields /\ KeyOver(k).last_input = ACK /\ NoKey(KeyOver(k))
        BY <1>4 DEF KeyOver, KbFields, NoKey
    <2>3. k.last_key = 0 => Handled(k, b).out = <<[flags |-> k.key, code |-> i]>>
        BY <1>2, <1>4 DEF Literal
    <2>4. k.last_key = \h14 /\ b = \h77 => Handled(k, b).out = <<[flags |-> k.key, code |-> \h0f]>>
        BY <1>1, <1>2, <1>4 DEF Literal
    <2> QED
        BY <1>4, <2>1, <2>2, <2>3, <2>4 DEF After, Output, i
  <1> QED
      BY <1>3, <1>4 DEF KbFields

LEMMA EventsAre ==
    /\ Pressed("a") = [flags |-> {}, code |-> \h1c]
    /\ Released("a") = [flags |-> {"release"}, code |-> \h1c]
    /\ Pressed("f7") = [flags |-> {}, code |-> \h02]
    /\ Released("f7") = [flags |-> {"release"}, code |-> \h02]
    /\ Pressed("up") = [flags |-> {"extended"}, code |-> \h75]
    /\ Released("up") = [flags |-> {"extended", "release"}, code |-> \h75]
    /\ Pressed("pause") = [flags |-> {}, code |-> \h0f]
    /\ Released("pause") = [flags |-> {"release"}, code |-> \h0f]
  BY DEF Event, Pressed, Released

\* What is to become of a byte that leaves the bytes t of event e.
GoesRight(k, b, t, e) ==
    /\ After(k, b) \in KbFields /\ After(k, b).last_input = ACK
    /\ t = <<>> => NoKey(After(k, b)) /\ Output(k, b) = <<e>>
    /\ t # <<>> => Expects(After(k, b), Head(t), Tail(t), e) /\ Output(k, b) = <<>>

\* The last byte of a key.
LEMMA KeyEnds ==
    ASSUME NEW k, k \in KbFields, k.last_input = ACK, ~k.double_code,
           NEW b, b \in KeyCodes, NEW e,
           \/ k.last_key = 0 /\ e = [flags |-> k.key, code |-> InputOf(b)]
           \/ k.last_key = \h14 /\ b = \h77 /\ e = [flags |-> k.key, code |-> \h0f]
    PROVE  GoesRight(k, b, <<>>, e)
  <1>1. After(k, b) \in KbFields /\ After(k, b).last_input = ACK /\ NoKey(After(k, b))
      BY AfterLiteral, Zenon
  <1>2. Output(k, b) = <<e>>
      BY AfterLiteral, Zenon
  <1> QED
      BY <1>1, <1>2, Zenon DEF GoesRight

\* Any other byte.
LEMMA KeyGoesOn ==
    ASSUME NEW k, NEW b, NEW t, NEW e, t # <<>>,
           After(k, b) \in KbFields, After(k, b).last_input = ACK, Output(k, b) = <<>>,
           GoesOn(After(k, b), Head(t), Tail(t), e)
    PROVE  GoesRight(k, b, t, e)
  BY Zenon DEF GoesRight, Expects

LEMMA Begun ==
    ASSUME NEW k, k \in KbFields, k.last_input = ACK, NEW b, NEW t, NEW e, Begins(k, b, t, e)
    PROVE  GoesRight(k, b, t, e)

  <1>1. k.key = {} /\ ~k.double_code /\ k.last_key = 0
      BY DEF Begins, NoKey
  <1>2. PICK e0, e1, f0, h14, h1c, h75, h77, h83 : Bytes(e0, e1, f0, h14, h1c, h75, h77, h83)
      BY DEF Bytes
  <1>3. CASE e = Pressed("a") /\ b = Head(Down("a")) /\ t = Tail(Down("a"))
    <2>1. Down("a") = <<h1c>>
        BY <1>2, CodesAre
    <2>2. b = h1c /\ t = <<>>
      <3>1. Head(<<h1c>>) = h1c /\ Tail(<<h1c>>) = <<>>
          OBVIOUS
      <3> QED
          BY <1>3, <2>1, <3>1, Zenon
    <2>3. b \in KeyCodes /\ InputOf(b) = \h1c
        BY <1>2, <2>2 DEF InputOf, Bytes, KeyCodes
    <2>4. e = [flags |-> k.key, code |-> InputOf(b)]
        BY <1>1, <1>3, <2>3, EventsAre
    <2>5. GoesRight(k, b, <<>>, e)
        BY <1>1, <2>3, <2>4, KeyEnds
    <2> QED
        BY <2>2, <2>5
  <1>4. CASE e = Released("a") /\ b = Head(Up("a")) /\ t = Tail(Up("a"))
    <2>1. Up("a") = <<f0, h1c>>
        BY <1>2, CodesAre
    <2>2. b = f0 /\ t = <<h1c>>
      <3>1. Head(<<f0, h1c>>) = f0 /\ Tail(<<f0, h1c>>) = <<h1c>>
          OBVIOUS
      <3> QED
          BY <1>4, <2>1, <3>1, Zenon
    <2>3. b = \hf0 /\ b \in Flags
        BY <1>2, <2>2 DEF Bytes, Flags
    <2>4. After(k, b) \in KbFields /\ After(k, b).last_input = ACK /\ Output(k, b) = <<>>
      <3>1. b \in Flags
          BY <2>3
      <3> QED
          BY <3>1, AfterPrefix, Zenon
    <2>5. Single(After(k, b), {"release"}, 0)
        BY <1>1, <2>3, AfterPrefix DEF Single, Double
    <2>6. t # <<>> /\ Head(t) = \h1c /\ Tail(t) = <<>>
        BY <1>2, <2>2 DEF Bytes
    <2>7. GoesOn(After(k, b), Head(t), Tail(t), e)
        BY <1>4, <2>5, <2>6, Zenon DEF GoesOn
    <2> QED
        BY <2>4, <2>6, <2>7, KeyGoesOn
  <1>5. CASE e = Pressed("f7") /\ b = Head(Down("f7")) /\ t = Tail(Down("f7"))
    <2>1. Down("f7") = <<h83>>
        BY <1>2, CodesAre
    <2>2. b = h83 /\ t = <<>>
      <3>1. Head(<<h83>>) = h83 /\ Tail(<<h83>>) = <<>>
          OBVIOUS
      <3> QED
          BY <1>5, <2>1, <3>1, Zenon
    <2>3. b \in KeyCodes /\ InputOf(b) = \h02
        BY <1>2, <2>2 DEF InputOf, Bytes, KeyCodes
    <2>4. e = [flags |-> k.key, code |-> InputOf(b)]
        BY <1>1, <1>5, <2>3, EventsAre
    <2>5. GoesRight(k, b, <<>>, e)
        BY <1>1, <2>3, <2>4, KeyEnds
    <2> QED
        BY <2>2, <2>5
  <1>6. CASE e = Released("f7") /\ b = Head(Up("f7")) /\ t = Tail(Up("f7"))
    <2>1. Up("f7") = <<f0, h83>>
        BY <1>2, CodesAre
    <2>2. b = f0 /\ t = <<h83>>
      <3>1. Head(<<f0, h83>>) = f0 /\ Tail(<<f0, h83>>) = <<h83>>
          OBVIOUS
      <3> QED
          BY <1>6, <2>1, <3>1, Zenon
    <2>3. b = \hf0 /\ b \in Flags
        BY <1>2, <2>2 DEF Bytes, Flags
    <2>4. After(k, b) \in KbFields /\ After(k, b).last_input = ACK /\ Output(k, b) = <<>>
      <3>1. b \in Flags
          BY <2>3
      <3> QED
          BY <3>1, AfterPrefix, Zenon
    <2>5. Single(After(k, b), {"release"}, 0)
        BY <1>1, <2>3, AfterPrefix DEF Single, Double
    <2>6. t # <<>> /\ Head(t) = \h83 /\ Tail(t) = <<>>
        BY <1>2, <2>2 DEF Bytes
    <2>7. GoesOn(After(k, b), Head(t), Tail(t), e)
        BY <1>6, <2>5, <2>6, Zenon DEF GoesOn
    <2> QED
        BY <2>4, <2>6, <2>7, KeyGoesOn
  <1>7. CASE e = Pressed("up") /\ b = Head(Down("up")) /\ t = Tail(Down("up"))
    <2>1. Down("up") = <<e0, h75>>
        BY <1>2, CodesAre
    <2>2. b = e0 /\ t = <<h75>>
      <3>1. Head(<<e0, h75>>) = e0 /\ Tail(<<e0, h75>>) = <<h75>>
          OBVIOUS
      <3> QED
          BY <1>7, <2>1, <3>1, Zenon
    <2>3. b = \he0 /\ b \in Flags
        BY <1>2, <2>2 DEF Bytes, Flags
    <2>4. After(k, b) \in KbFields /\ After(k, b).last_input = ACK /\ Output(k, b) = <<>>
      <3>1. b \in Flags
          BY <2>3
      <3> QED
          BY <3>1, AfterPrefix, Zenon
    <2>5. Single(After(k, b), {"extended"}, 0)
        BY <1>1, <2>3, AfterPrefix DEF Single, Double
    <2>6. t # <<>> /\ Head(t) = \h75 /\ Tail(t) = <<>>
        BY <1>2, <2>2 DEF Bytes
    <2>7. GoesOn(After(k, b), Head(t), Tail(t), e)
        BY <1>7, <2>5, <2>6, Zenon DEF GoesOn
    <2> QED
        BY <2>4, <2>6, <2>7, KeyGoesOn
  <1>8. CASE e = Released("up") /\ b = Head(Up("up")) /\ t = Tail(Up("up"))
    <2>1. Up("up") = <<e0, f0, h75>>
        BY <1>2, CodesAre
    <2>2. b = e0 /\ t = <<f0, h75>>
      <3>1. Head(<<e0, f0, h75>>) = e0 /\ Tail(<<e0, f0, h75>>) = <<f0, h75>>
          OBVIOUS
      <3> QED
          BY <1>8, <2>1, <3>1, Zenon
    <2>3. b = \he0 /\ b \in Flags
        BY <1>2, <2>2 DEF Bytes, Flags
    <2>4. After(k, b) \in KbFields /\ After(k, b).last_input = ACK /\ Output(k, b) = <<>>
      <3>1. b \in Flags
          BY <2>3
      <3> QED
          BY <3>1, AfterPrefix, Zenon
    <2>5. Single(After(k, b), {"extended"}, 0)
        BY <1>1, <2>3, AfterPrefix DEF Single, Double
    <2>6. t # <<>> /\ Head(t) = \hf0 /\ Tail(t) = <<\h75>>
        BY <1>2, <2>2 DEF Bytes
    <2>7. GoesOn(After(k, b), Head(t), Tail(t), e)
        BY <1>8, <2>5, <2>6, Zenon DEF GoesOn
    <2> QED
        BY <2>4, <2>6, <2>7, KeyGoesOn
  <1>9. CASE e = Pressed("pause") /\ b = Head(Down("pause")) /\ t = Tail(Down("pause"))
    <2>1. Down("pause") = <<e1, h14, h77>>
        BY <1>2, CodesAre
    <2>2. b = e1 /\ t = <<h14, h77>>
      <3>1. Head(<<e1, h14, h77>>) = e1 /\ Tail(<<e1, h14, h77>>) = <<h14, h77>>
          OBVIOUS
      <3> QED
          BY <1>9, <2>1, <3>1, Zenon
    <2>3. b = \he1 /\ b \in Flags
        BY <1>2, <2>2 DEF Bytes, Flags
    <2>4. After(k, b) \in KbFields /\ After(k, b).last_input = ACK /\ Output(k, b) = <<>>
      <3>1. b \in Flags
          BY <2>3
      <3> QED
          BY <3>1, AfterPrefix, Zenon
    <2>5. Double(After(k, b), {})
        BY <1>1, <2>3, AfterPrefix DEF Single, Double
    <2>6. t # <<>> /\ Head(t) = \h14 /\ Tail(t) = <<\h77>>
        BY <1>2, <2>2 DEF Bytes
    <2>7. GoesOn(After(k, b), Head(t), Tail(t), e)
        BY <1>9, <2>5, <2>6, Zenon DEF GoesOn
    <2> QED
        BY <2>4, <2>6, <2>7, KeyGoesOn
  <1>10. CASE e = Released("pause") /\ b = Head(Up("pause")) /\ t = Tail(Up("pause"))
    <2>1. Up("pause") = <<e1, f0, h14, f0, h77>>
        BY <1>2, CodesAre
    <2>2. b = e1 /\ t = <<f0, h14, f0, h77>>
      <3>1. Head(<<e1, f0, h14, f0, h77>>) = e1 /\ Tail(<<e1, f0, h14, f0, h77>>) = <<f0, h14, f0, h77>>
          OBVIOUS
      <3> QED
          BY <1>10, <2>1, <3>1, Zenon
    <2>3. b = \he1 /\ b \in Flags
        BY <1>2, <2>2 DEF Bytes, Flags
    <2>4. After(k, b) \in KbFields /\ After(k, b).last_input = ACK /\ Output(k, b) = <<>>
      <3>1. b \in Flags
          BY <2>3
      <3> QED
          BY <3>1, AfterPrefix, Zenon
    <2>5. Double(After(k, b), {})
        BY <1>1, <2>3, AfterPrefix DEF Single, Double
    <2>6. t # <<>> /\ Head(t) = \hf0 /\ Tail(t) = <<\h14, \hf0, \h77>>
        BY <1>2, <2>2 DEF Bytes
    <2>7. GoesOn(After(k, b), Head(t), Tail(t), e)
        BY <1>10, <2>5, <2>6, Zenon DEF GoesOn
    <2> QED
        BY <2>4, <2>6, <2>7, KeyGoesOn
  <1> QED
      BY <1>3, <1>4, <1>5, <1>6, <1>7, <1>8, <1>9, <1>10, Zenon DEF Begins, Keys

LEMMA WentOn ==
    ASSUME NEW k, k \in KbFields, k.last_input = ACK, NEW b, NEW t, NEW e, GoesOn(k, b, t, e)
    PROVE  GoesRight(k, b, t, e)
  <1>1. CASE Single(k, {"release"}, 0) /\ b = \h1c /\ t = <<>> /\ e = Released("a")
    <2>1. b \in KeyCodes /\ ~k.double_code /\ k.last_key = 0 /\ InputOf(b) = \h1c
        BY <1>1 DEF KeyCodes, Single, InputOf
    <2>2. e = [flags |-> k.key, code |-> InputOf(b)]
        BY <1>1, <2>1, EventsAre DEF Single
    <2>3. GoesRight(k, b, <<>>, e)
        BY <2>1, <2>2, KeyEnds
    <2> QED
        BY <1>1, <2>3
  <1>2. CASE Single(k, {"release"}, 0) /\ b = \h83 /\ t = <<>> /\ e = Released("f7")
    <2>1. b \in KeyCodes /\ ~k.double_code /\ k.last_key = 0 /\ InputOf(b) = \h02
        BY <1>2 DEF KeyCodes, Single, InputOf
    <2>2. e = [flags |-> k.key, code |-> InputOf(b)]
        BY <1>2, <2>1, EventsAre DEF Single
    <2>3. GoesRight(k, b, <<>>, e)
        BY <2>1, <2>2, KeyEnds
    <2> QED
        BY <1>2, <2>3
  <1>3. CASE Single(k, {"extended"}, 0) /\ b = \h75 /\ t = <<>> /\ e = Pressed("up")
    <2>1. b \in KeyCodes /\ ~k.double_code /\ k.last_key = 0 /\ InputOf(b) = \h75
        BY <1>3 DEF KeyCodes, Single, InputOf
    <2>2. e = [flags |-> k.key, code |-> InputOf(b)]
        BY <1>3, <2>1, EventsAre DEF Single
    <2>3. GoesRight(k, b, <<>>, e)
        BY <2>1, <2>2, KeyEnds
    <2> QED
        BY <1>3, <2>3
  <1>4. CASE Single(k, {"extended"}, 0) /\ b = \hf0 /\ t = <<\h75>> /\ e = Released("up")
    <2>1. b \in Flags
        BY <1>4 DEF Flags
    <2>2. ~k.double_code
        BY <1>4 DEF Single
    <2>3. After(k, b) \in KbFields /\ After(k, b).last_input = ACK /\ Output(k, b) = <<>>
        BY <2>1, <2>2, AfterPrefix, Zenon
    <2>4. Single(After(k, b), {"extended", "release"}, 0)
        BY <1>4, <2>1, <2>2, AfterPrefix DEF Single, Double
    <2>5. t # <<>> /\ Head(t) = \h75 /\ Tail(t) = <<>>
        BY <1>4
    <2>6. GoesOn(After(k, b), Head(t), Tail(t), e)
        BY <1>4, <2>4, <2>5, Zenon DEF GoesOn
    <2> QED
        BY <2>3, <2>5, <2>6, KeyGoesOn
  <1>5. CASE Single(k, {"extended", "release"}, 0) /\ b = \h75 /\ t = <<>> /\ e = Released("up")
    <2>1. b \in KeyCodes /\ ~k.double_code /\ k.last_key = 0 /\ InputOf(b) = \h75
        BY <1>5 DEF KeyCodes, Single, InputOf
    <2>2. e = [flags |-> k.key, code |-> InputOf(b)]
        BY <1>5, <2>1, EventsAre DEF Single
    <2>3. GoesRight(k, b, <<>>, e)
        BY <2>1, <2>2, KeyEnds
    <2> QED
        BY <1>5, <2>3
  <1>6. CASE Double(k, {}) /\ b = \h14 /\ t = <<\h77>> /\ e = Pressed("pause")
    <2>1. b \in KeyCodes
        BY <1>6 DEF KeyCodes
    <2>2. k.double_code /\ InputOf(b) = \h14
        BY <1>6 DEF Double, InputOf
    <2>3. After(k, b) \in KbFields /\ After(k, b).last_input = ACK /\ Output(k, b) = <<>>
        BY <2>1, <2>2, AfterLiteral, Zenon
    <2>4. Single(After(k, b), {}, \h14)
        BY <1>6, <2>1, <2>2, AfterLiteral DEF Single, Double
    <2>5. t # <<>> /\ Head(t) = \h77 /\ Tail(t) = <<>>
        BY <1>6
    <2>6. GoesOn(After(k, b), Head(t), Tail(t), e)
        BY <1>6, <2>4, <2>5, Zenon DEF GoesOn
    <2> QED
        BY <2>3, <2>5, <2>6, KeyGoesOn
  <1>7. CASE Double(k, {}) /\ b = \hf0 /\ t = <<\h14, \hf0, \h77>> /\ e = Released("pause")
    <2>1. b \in Flags
        BY <1>7 DEF Flags
    <2>2. k.double_code /\ k.last_key = 0
        BY <1>7 DEF Double
    <2>3. After(k, b) \in KbFields /\ After(k, b).last_input = ACK /\ Output(k, b) = <<>>
        BY <2>1, <2>2, AfterPrefix, Zenon
    <2>4. Double(After(k, b), {"release"})
        BY <1>7, <2>1, <2>2, AfterPrefix DEF Single, Double
    <2>5. t # <<>> /\ Head(t) = \h14 /\ Tail(t) = <<\hf0, \h77>>
        BY <1>7
    <2>6. GoesOn(After(k, b), Head(t), Tail(t), e)
        BY <1>7, <2>4, <2>5, Zenon DEF GoesOn
    <2> QED
        BY <2>3, <2>5, <2>6, KeyGoesOn
  <1>8. CASE Double(k, {"release"}) /\ b = \h14 /\ t = <<\hf0, \h77>> /\ e = Released("pause")
    <2>1. b \in KeyCodes
        BY <1>8 DEF KeyCodes
    <2>2. k.double_code /\ InputOf(b) = \h14
        BY <1>8 DEF Double, InputOf
    <2>3. After(k, b) \in KbFields /\ After(k, b).last_input = ACK /\ Output(k, b) = <<>>
        BY <2>1, <2>2, AfterLiteral, Zenon
    <2>4. Single(After(k, b), {"release"}, \h14)
        BY <1>8, <2>1, <2>2, AfterLiteral DEF Single, Double
    <2>5. t # <<>> /\ Head(t) = \hf0 /\ Tail(t) = <<\h77>>
        BY <1>8
    <2>6. GoesOn(After(k, b), Head(t), Tail(t), e)
        BY <1>8, <2>4, <2>5, Zenon DEF GoesOn
    <2> QED
        BY <2>3, <2>5, <2>6, KeyGoesOn
  <1>9. CASE Single(k, {}, \h14) /\ b = \h77 /\ t = <<>> /\ e = Pressed("pause")
    <2>1. b \in KeyCodes /\ ~k.double_code /\ k.last_key = \h14 /\ b = \h77
        BY <1>9 DEF KeyCodes, Single
    <2>2. e = [flags |-> k.key, code |-> \h0f]
        BY <1>9, EventsAre DEF Single
    <2>3. GoesRight(k, b, <<>>, e)
        BY <2>1, <2>2, KeyEnds
    <2> QED
        BY <1>9, <2>3
  <1>10. CASE Single(k, {"release"}, \h14) /\ b = \hf0 /\ t = <<\h77>> /\ e = Released("pause")
    <2>1. b \in Flags
        BY <1>10 DEF Flags
    <2>2. ~k.double_code
        BY <1>10 DEF Single
    <2>3. After(k, b) \in KbFields /\ After(k, b).last_input = ACK /\ Output(k, b) = <<>>
        BY <2>1, <2>2, AfterPrefix, Zenon
    <2>4. Single(After(k, b), {"release"}, \h14)
        BY <1>10, <2>1, <2>2, AfterPrefix DEF Single, Double
    <2>5. t # <<>> /\ Head(t) = \h77 /\ Tail(t) = <<>>
        BY <1>10
    <2>6. GoesOn(After(k, b), Head(t), Tail(t), e)
        BY <1>10, <2>4, <2>5, Zenon DEF GoesOn
    <2> QED
        BY <2>3, <2>5, <2>6, KeyGoesOn
  <1>11. CASE Single(k, {"release"}, \h14) /\ b = \h77 /\ t = <<>> /\ e = Released("pause")
    <2>1. b \in KeyCodes /\ ~k.double_code /\ k.last_key = \h14 /\ b = \h77
        BY <1>11 DEF KeyCodes, Single
    <2>2. e = [flags |-> k.key, code |-> \h0f]
        BY <1>11, EventsAre DEF Single
    <2>3. GoesRight(k, b, <<>>, e)
        BY <2>1, <2>2, KeyEnds
    <2> QED
        BY <1>11, <2>3
  <1> QED
      BY <1>1, <1>2, <1>3, <1>4, <1>5, <1>6, <1>7, <1>8, <1>9, <1>10, <1>11, Zenon DEF GoesOn

LEMMA Expected ==
    ASSUME NEW k, k \in KbFields, k.last_input = ACK, NEW b, NEW t, NEW e, Expects(k, b, t, e)
    PROVE  GoesRight(k, b, t, e)
  BY Begun, WentOn, Zenon DEF Expects

-----------------------------------------------------------------------------
(* Steps of init                                                           *)

LEMMA KeyInit == Init => KeyInv
  <1> SUFFICES ASSUME Init PROVE KeyInv
      OBVIOUS
  <1>1. Unset \in KbFields /\ NoKey(Unset)
      BY DEF Unset, KbFields, NoKey
  <1>2. kb \in [Ports -> KbFields] /\ \A p \in Ports : NoKey(kb[p])
      BY <1>1 DEF Init
  <1>3. dev \in [Ports -> DevFields]
      BY Zenon DEF Init, DevFields
  <1>4. /\ devq \in [Ports -> Seq(0..255)]
        /\ printed \in [Ports -> Seq(EventSet)] /\ events \in [Ports -> Seq(EventSet)]
        /\ \A p \in Ports : printed[p] = <<>> /\ events[p] = <<>>
      BY DEF Init
  <1>5. KeyTypes
      BY <1>2, <1>3, <1>4 DEF KeyTypes
  <1>6. Configuring
      BY <1>2, <1>4 DEF Init, Configuring, Configured
  <1>7. Decoding /\ Clear
      BY DEF Init, Decoding, Clear
  <1> QED
      BY <1>5, <1>6, <1>7, ProbeInit DEF KeyInv

LEMMA SameTypes ==
    ASSUME KeyTypes, UNCHANGED <<kb, dev, devq, printed, events>>
    PROVE  KeyTypes'
  BY DEF KeyTypes

LEMMA SameSent == ASSUME NoneSent, UNCHANGED <<attached, inbuf>> PROVE NoneSent'
  <1>1. CASE inbuf = <<>>
      BY <1>1 DEF NoneSent
  <1>2. ASSUME NEW q \in Ports, NEW b \in 0..255, Gone(q), inbuf = <<To(q, b)>>
        PROVE  NoneSent'
    <2>1. Gone(q)' /\ inbuf' = <<To(q, b)>>
        BY <1>2 DEF Gone
    <2> QED
        BY <2>1, Zenon DEF NoneSent
  <1>3. inbuf = <<>> \/ \E q \in Ports, b \in 0..255 : Gone(q) /\ inbuf = <<To(q, b)>>
      BY DEF NoneSent
  <1> QED
      BY <1>1, <1>2, <1>3

\* Before configure nothing happens to the drivers.
LEMMA BeforeKeys ==
    ASSUME KeyInv, pc \notin {"configure", "send", "answer", "done"},
           pc' \notin {"configure", "send", "answer", "done"}, pc' = "enable" => port' = 0,
           UNCHANGED <<kb, printed, events>>
    PROVE  Configuring' /\ Decoding'
  <1>1. \A p \in Ports : NoKey(kb[p]) /\ printed[p] = <<>> /\ events[p] = <<>>
      BY DEF KeyInv, Configuring
  <1>2. Configuring'
      BY <1>1 DEF Configuring, Configured
  <1>3. Decoding'
      BY DEF Decoding
  <1> QED
      BY <1>2, <1>3

LEMMA ProbingKeys ==
    ASSUME KeyInv,
           \/ Controller \/ SelfTestFails \/ Test \/ DisableScan \/ DisabledScan
           \/ Identify \/ Identified \/ ReadInfo \/ SetType
    PROVE  KeyTypes' /\ Configuring' /\ Decoding'
  <1> DEFINE Goal == /\ UNCHANGED <<kb, dev, devq, printed, events>>
                     /\ pc \in {"start"} \cup Probing /\ pc' \in {"panicked", "enable"} \cup Probing
                     /\ pc' = "enable" => port' = 0
  <1>1. Goal
    <2>1. CASE Controller
        BY <2>1 DEF Controller, driving, Probing
    <2>2. CASE SelfTestFails
        BY <2>2 DEF SelfTestFails, driving, hardware, Probing
    <2>3. CASE Test
        BY <2>3 DEF Test, NextPort, driving, Probing
    <2>4. CASE DisableScan \/ Identify
        BY <2>4 DEF DisableScan, Identify, WriteAck, driving, Probing
    <2>5. CASE DisabledScan \/ Identified
        BY <2>5 DEF DisabledScan, Identified, ReadAck, NextPort, driving, Probing
    <2>6. CASE ReadInfo
        BY <2>6 DEF ReadInfo, driving, Probing
    <2>7. CASE SetType
        BY <2>7 DEF SetType, NextPort, driving, Probing
    <2> QED
        BY <2>1, <2>2, <2>3, <2>4, <2>5, <2>6, <2>7
  <1>2. KeyTypes'
      BY <1>1, SameTypes DEF KeyInv
  <1>3. pc \notin {"configure", "send", "answer", "done"} /\ pc' \notin {"configure", "send", "answer", "done"}
      BY <1>1 DEF Probing
  <1> QED
      BY <1>1, <1>2, <1>3, BeforeKeys

LEMMA EnableFuncKeys ==
    ASSUME KeyInv, EnableFunc
    PROVE  KeyTypes' /\ Configuring' /\ Decoding'
  <1>1. /\ pc = "enable" /\ pc' = "configure"
        /\ UNCHANGED <<attached, kb, dev, devq, printed, events, inbuf, outq, port, driver>>
      BY DEF EnableFunc, driving, hardware, ports
  <1>2. KeyTypes'
      BY <1>1, SameTypes DEF KeyInv
  <1>3. port = 0 /\ \A p \in Ports : NoKey(kb[p]) /\ printed[p] = <<>> /\ events[p] = <<>>
      BY <1>1 DEF KeyInv, Configuring
  <1>4. outq = <<>> /\ NoneSent /\ \A p \in Ports : devq[p] = <<>>
      BY <1>1 DEF KeyInv, ProbeInv, Buffers
  <1>5. NoneSent'
      BY <1>1, <1>4, SameSent
  <1>6. Configuring'
      BY <1>1, <1>3, <1>4, <1>5 DEF Configuring, Configured, Ports
  <1>7. Decoding'
      BY <1>1 DEF Decoding
  <1> QED
      BY <1>2, <1>6, <1>7

\* The next port is configured, or init is over.
LEMMA NextDriverKeys ==
    ASSUME KeyInv, pc \in {"configure", "answer"}, NextDriver, outq = <<>>, NoneSent,
           \A p \in Ports : devq[p] = <<>>,
           port \in driver => kb[port].last_input = ACK /\ dev[port].set = 2,
           UNCHANGED <<attached, kb, dev, devq, printed, events, inbuf, outq, driver>>
    PROVE  KeyTypes' /\ Configuring' /\ Decoding'
  <1>1. KeyTypes'
      BY SameTypes DEF KeyInv
  <1>2. NoneSent'
      BY SameSent
  <1>3. \A p \in Ports : NoKey(kb[p]) /\ printed[p] = <<>> /\ events[p] = <<>>
      BY DEF KeyInv, Configuring
  <1>4. \A p \in Ports : p \in driver /\ p < port => kb[p].last_input = ACK /\ dev[p].set = 2
      BY DEF KeyInv, Configuring, Configured
  <1>5. port \in {0, 1} /\ driver \subseteq Ports
      BY DEF KeyInv, ProbeInv, ProbeTypes, Ports
  <1>6. CASE port = 0
    <2>1. port' = 1 /\ pc' = "configure"
        BY <1>6 DEF NextDriver
    <2>2. Configuring'
        BY <1>2, <1>3, <1>6, <2>1 DEF Configuring, Configured, Ports
    <2>3. Decoding'
        BY <2>1 DEF Decoding
    <2> QED
        BY <1>1, <2>2, <2>3
  <1>7. CASE port = 1
    <2>1. pc' = "done"
        BY <1>7 DEF NextDriver
    <2>2. \A p \in Ports : p \in driver => kb[p].last_input = ACK /\ dev[p].set = 2
        BY <1>4, <1>7 DEF Ports
    <2>3. Configuring'
        BY <2>1, <2>2 DEF Configuring, Configured
    <2>4. \A p \in Ports : Printed(p)'
        BY <1>3 DEF Printed
    <2>5. Decoding'
        BY <1>2, <1>5, <2>1, <2>4 DEF Decoding
    <2> QED
        BY <1>1, <2>3, <2>5
  <1> QED
      BY <1>5, <1>6, <1>7

LEMMA NoDriverKeys ==
    ASSUME KeyInv, NoDriver
    PROVE  KeyTypes' /\ Configuring' /\ Decoding'
  <1>1. /\ pc = "configure" /\ port \notin driver /\ NextDriver
        /\ UNCHANGED <<attached, kb, dev, devq, printed, events, inbuf, outq, driver>>
      BY DEF NoDriver, driving, hardware, ports
  <1>2. outq = <<>> /\ NoneSent /\ \A p \in Ports : devq[p] = <<>>
      BY <1>1 DEF KeyInv, Configuring
  <1> QED
      BY <1>1, <1>2, NextDriverKeys

LEMMA ConfigureKeys ==
    ASSUME KeyInv, Configure
    PROVE  KeyTypes' /\ Configuring' /\ Decoding'
  <1> DEFINE k == [Unset EXCEPT !.last_input = kb[port].last_input]
  <1>1. /\ pc = "configure" /\ port \in driver /\ step' = 1 /\ pc' = "send"
        /\ kb' = [kb EXCEPT ![port] = k]
        /\ UNCHANGED <<attached, dev, devq, printed, events, inbuf, outq, port, driver>>
      BY DEF Configure, hardware, ports
  <1>2. port \in Ports /\ kb \in [Ports -> KbFields] /\ driver \subseteq Ports
      BY DEF KeyInv, KeyTypes, ProbeInv, ProbeTypes
  <1>3. kb[port].last_input \in Int
      BY <1>2 DEF KbFields
  <1>4. k \in KbFields /\ NoKey(k) /\ ~k.self_test_passed
      BY <1>3 DEF Unset, KbFields, NoKey
  <1> HIDE DEF k
  <1>5. kb'[port] = k /\ \A q \in Ports : q # port => kb'[q] = kb[q]
      BY <1>1, <1>2
  <1>6. KeyTypes'
    <2>1. kb' \in [Ports -> KbFields]
        BY <1>1, <1>2, <1>4
    <2> QED
        BY <1>1, <2>1 DEF KeyInv, KeyTypes
  <1>7. NoneSent'
      BY <1>1, SameSent DEF KeyInv, Configuring
  <1>8. Configuring'
    <2>1. \A q \in Ports : q \in driver /\ q < port => kb'[q].last_input = ACK /\ dev[q].set = 2
        BY <1>1, <1>2, <1>5 DEF KeyInv, Configuring, Configured, Ports
    <2>2. \A q \in Ports : NoKey(kb'[q]) /\ printed[q] = <<>> /\ events[q] = <<>>
        BY <1>1, <1>4, <1>5 DEF KeyInv, Configuring
    <2>3. outq = <<>> /\ \A q \in Ports : devq[q] = <<>>
        BY <1>1 DEF KeyInv, Configuring
    <2> QED
        BY <1>1, <1>4, <1>5, <1>7, <2>1, <2>2, <2>3 DEF Configuring, Configured
  <1>9. Decoding'
      BY <1>1 DEF Decoding
  <1> QED
      BY <1>6, <1>8, <1>9

\* While configure waits for an answer.
LEMMA AnswerKeys ==
    ASSUME KeyInv, pc \in {"send", "answer"}, pc' = "answer",
           UNCHANGED <<port, step, driver, printed, events>>,
           \A q \in Ports : q # port => kb'[q] = kb[q] /\ dev'[q] = dev[q] /\ devq'[q] = <<>>,
           NoKey(kb'[port]), (Asked \/ Replied \/ Refused \/ Told \/ Lost)'
    PROVE  Configuring' /\ Decoding'
  <1>1. port \in Ports /\ port \in driver /\ step \in 1..3
      BY DEF KeyInv, Configuring, ProbeInv, ProbeTypes
  <1>2. \A q \in Ports : q \in driver /\ q < port => kb'[q].last_input = ACK /\ dev'[q].set = 2
      BY <1>1 DEF KeyInv, Configuring, Configured, Ports
  <1>3. \A q \in Ports : NoKey(kb'[q]) /\ printed[q] = <<>> /\ events[q] = <<>>
      BY DEF KeyInv, Configuring
  <1>4. Configuring'
      BY <1>1, <1>2, <1>3 DEF Configuring, Configured
  <1>5. Decoding'
      BY DEF Decoding
  <1> QED
      BY <1>4, <1>5

LEMMA SendKeys ==
    ASSUME KeyInv, Send
    PROVE  KeyTypes' /\ Configuring' /\ Decoding'
  <1> DEFINE k == [kb[port] EXCEPT !.last_input = -1]
  <1>1. /\ pc = "send" /\ pc' = "answer" /\ kb' = [kb EXCEPT ![port] = k]
        /\ inbuf' = <<To(port, Sent[step])>>
        /\ UNCHANGED <<attached, dev, devq, printed, events, outq, port, step, driver>>
      BY DEF Send, Ask, Write, To, ports
  <1>2. port \in Ports /\ kb \in [Ports -> KbFields]
      BY DEF KeyInv, KeyTypes, ProbeInv, ProbeTypes
  <1>3. kb[port] \in KbFields
      BY <1>2
  <1>4. /\ k \in KbFields /\ k.last_input = -1
        /\ k.self_test_passed = kb[port].self_test_passed
        /\ NoKey(kb[port]) => NoKey(k)
      BY <1>3 DEF KbFields, NoKey
  <1> HIDE DEF k
  <1>5. kb'[port] = k /\ \A q \in Ports : q # port => kb'[q] = kb[q]
      BY <1>1, <1>2
  <1>6. KeyTypes'
    <2>1. kb' \in [Ports -> KbFields]
        BY <1>1, <1>2, <1>4
    <2> QED
        BY <1>1, <2>1 DEF KeyInv, KeyTypes
  <1>7. /\ outq = <<>> /\ \A q \in Ports : devq[q] = <<>>
        /\ step = 1 => ~kb[port].self_test_passed
        /\ step = 3 => dev[port].arg
        /\ NoKey(kb[port])
      BY <1>1, <1>2 DEF KeyInv, Configuring
  <1>8. Asked'
      BY <1>1, <1>2, <1>4, <1>5, <1>7 DEF Asked
  <1>9. NoKey(kb'[port]) /\ \A q \in Ports : q # port => kb'[q] = kb[q] /\ dev'[q] = dev[q] /\ devq'[q] = <<>>
      BY <1>1, <1>4, <1>5, <1>7
  <1> QED
      BY <1>1, <1>6, <1>8, <1>9, AnswerKeys

\* What is left of the bytes that configure waits for.
LEMMA Waiting ==
    ASSUME KeyInv, pc = "answer"
    PROVE  /\ port \in Ports /\ port \in driver /\ step \in 1..3 /\ attached[port] = "keyboard"
           /\ kb[port] \in KbFields /\ NoKey(kb[port]) /\ dev[port] \in DevFields
           /\ Asked \/ Replied \/ Refused \/ Told \/ Lost
           /\ \A q \in Ports : q # port => devq[q] = <<>>
  <1>1. port \in Ports /\ port \in driver /\ step \in 1..3
      BY DEF KeyInv, Configuring, ProbeInv, ProbeTypes
  <1>2. attached[port] = "keyboard"
      BY <1>1 DEF KeyInv, ProbeInv, Fitting, Probed
  <1>3. kb[port] \in KbFields /\ dev[port] \in DevFields
      BY <1>1 DEF KeyInv, KeyTypes
  <1> QED
      BY <1>1, <1>2, <1>3 DEF KeyInv, Configuring

LEMMA SendAgainKeys ==
    ASSUME KeyInv, SendAgain
    PROVE  KeyTypes' /\ Configuring' /\ Decoding'
  <1>1. /\ pc = "answer" /\ pc' = "answer" /\ kb[port].last_input = RESEND
        /\ inbuf' = <<To(port, Sent[step])>>
        /\ UNCHANGED <<attached, kb, dev, devq, printed, events, outq, port, step, driver>>
      BY DEF SendAgain, Write, To, ports, driving
  <1>2. KeyTypes'
      BY <1>1, SameTypes DEF KeyInv
  <1>3. Lost
      BY <1>1, Waiting DEF Asked, Replied, Refused, Told, RESEND, ACK
  <1>4. Lost'
      BY <1>1, <1>3 DEF Lost
  <1>5. /\ NoKey(kb'[port])
        /\ \A q \in Ports : q # port => kb'[q] = kb[q] /\ dev'[q] = dev[q] /\ devq'[q] = <<>>
      BY <1>1, Waiting
  <1> QED
      BY <1>1, <1>2, <1>4, <1>5, AnswerKeys

LEMMA AnsweredKeys ==
    ASSUME KeyInv, Answered
    PROVE  KeyTypes' /\ Configuring' /\ Decoding'
  <1>1. /\ pc = "answer" /\ kb[port].last_input \notin {-1, RESEND} /\ MayGoOn
        /\ UNCHANGED <<attached, kb, dev, devq, printed, events, inbuf, outq, driver>>
        /\ IF step < 3 THEN pc' = "send" /\ step' = step + 1 /\ port' = port
           ELSE NextDriver
      BY DEF Answered, hardware, ports, Sent
  <1>2. Told
      BY <1>1, Waiting DEF Asked, Replied, Refused, Lost
  <1>3. /\ inbuf = <<>> /\ outq = <<>> /\ kb[port].last_input = ACK /\ Obeyed
        /\ \A q \in Ports : devq[q] = <<>>
      BY <1>1, <1>2, Waiting DEF Told, MayGoOn
  <1>4. CASE step < 3
    <2>1. pc' = "send" /\ step' \in 2..3 /\ port' = port /\ (step' = 3 => step = 2)
        BY <1>1, <1>4, Waiting
    <2>2. KeyTypes'
        BY <1>1, SameTypes DEF KeyInv
    <2>3. NoneSent'
        BY <1>1, <1>3 DEF NoneSent
    <2>4. \A q \in Ports : q \in driver /\ q < port => kb[q].last_input = ACK /\ dev[q].set = 2
        BY <1>1 DEF KeyInv, Configuring, Configured
    <2>5. \A q \in Ports : NoKey(kb[q]) /\ printed[q] = <<>> /\ events[q] = <<>>
        BY <1>1 DEF KeyInv, Configuring
    <2>6. port \in driver /\ (step' = 3 => dev[port].arg)
        BY <1>1, <1>3, <2>1, Waiting DEF Obeyed
    <2>7. Configuring'
        BY <1>1, <1>3, <2>1, <2>3, <2>4, <2>5, <2>6 DEF Configuring, Configured
    <2>8. Decoding'
        BY <2>1 DEF Decoding
    <2> QED
        BY <2>2, <2>7, <2>8
  <1>5. CASE ~(step < 3)
    <2>1. step = 3
        BY <1>1, <1>5, Waiting
    <2>2. NextDriver /\ dev[port].set = 2
        BY <1>1, <1>3, <2>1 DEF Obeyed
    <2>3. NoneSent
        BY <1>3 DEF NoneSent
    <2> QED
        BY <1>1, <1>3, <2>2, <2>3, NextDriverKeys
  <1> QED
      BY <1>4, <1>5

-----------------------------------------------------------------------------
(* The interrupt handler                                                   *)

LEMMA HandledAnswer ==
    ASSUME NEW k, k \in KbFields, NoKey(k), NEW b, b \in Control
    PROVE  /\ After(k, b) \in KbFields /\ NoKey(After(k, b))
           /\ b = PASS => After(k, b).last_input = k.last_input /\ After(k, b).self_test_passed
           /\ b # PASS /\ k.last_input = -1 =>
                 /\ After(k, b).last_input = b
                 /\ After(k, b).self_test_passed <=> k.self_test_passed
           /\ b # PASS /\ k.last_input = RESEND => After(k, b).last_input = RESEND
           /\ k.last_input \in {-1, ACK, RESEND} => Output(k, b) = <<>>
  <1>1. CASE b = PASS
    <2> DEFINE n == [k EXCEPT !.self_test_passed = TRUE]
    <2>1. Handled(k, b) = [k |-> n, out |-> <<>>]
        BY <1>1 DEF Handled
    <2>2. n \in KbFields
        BY Zenon DEF KbFields
    <2>3. n.last_input = k.last_input /\ n.self_test_passed = TRUE
        BY DEF KbFields
    <2>4. n.key = k.key /\ n.double_code = k.double_code /\ n.last_key = k.last_key
        BY DEF KbFields
    <2> HIDE DEF n
    <2>5. NoKey(n)
        BY <2>4 DEF NoKey
    <2>6. After(k, b) = n /\ Output(k, b) = <<>>
        BY <2>1 DEF After, Output
    <2> QED
        BY <1>1, <2>2, <2>3, <2>5, <2>6
  <1>2. CASE b # PASS /\ k.last_input = -1
    <2> DEFINE n == [k EXCEPT !.last_input = b]
    <2>1. Handled(k, b) = [k |-> n, out |-> <<>>]
        BY <1>2 DEF Handled
    <2>2. b \in Int
        BY DEF Control, ACK, RESEND, PASS
    <2>3. /\ n \in KbFields /\ n.last_input = b /\ n.self_test_passed = k.self_test_passed
          /\ NoKey(n)
        BY <2>2 DEF KbFields, NoKey
    <2> HIDE DEF n
    <2>4. After(k, b) = n /\ Output(k, b) = <<>>
        BY <2>1 DEF After, Output
    <2> QED
        BY <1>2, <2>3, <2>4 DEF RESEND
  <1>3. CASE b # PASS /\ k.last_input # -1
    <2>1. b \in {ACK, RESEND}
        BY <1>3 DEF Control
    <2>2. Handled(k, b) = [k |-> k, out |-> <<>>]
        BY <1>3, <2>1 DEF Handled, ACK, RESEND, PASS, ECHO, Errors, SelfTestFailed
    <2>3. After(k, b) = k /\ Output(k, b) = <<>>
        BY <2>2 DEF After, Output
    <2> QED
        BY <1>3, <2>3
  <1> QED
      BY <1>1, <1>2, <1>3

\* The handler, and what it leaves alone.
LEMMA HandleDoes ==
    ASSUME KeyInv, NEW p \in Ports, Handle(p)
    PROVE  /\ pc \in {"configure", "send", "answer", "done"} /\ pc' = pc
           /\ p \in driver /\ outq # <<>> /\ Head(outq).from = p /\ inbuf = <<>>
           /\ outq' = Tail(outq)
           /\ UNCHANGED <<attached, dev, devq, events, inbuf, port, step, driver>>
           /\ kb'[p] = After(kb[p], Head(outq).byte)
           /\ printed'[p] = printed[p] \o Output(kb[p], Head(outq).byte)
           /\ \A q \in Ports : q # p => kb'[q] = kb[q] /\ printed'[q] = printed[q]
           /\ kb[p] \in KbFields /\ printed[p] \in Seq(EventSet)
           /\ After(kb[p], Head(outq).byte) \in KbFields => kb' \in [Ports -> KbFields]
           /\ printed[p] \o Output(kb[p], Head(outq).byte) \in Seq(EventSet) =>
                 printed' \in [Ports -> Seq(EventSet)]
  <1>1. kb \in [Ports -> KbFields] /\ printed \in [Ports -> Seq(EventSet)]
      BY DEF KeyInv, KeyTypes
  <1>0. ~TimedOut
    <2>1. /\ pc \in {"configure", "send", "answer", "done"} /\ p \in driver /\ outq # <<>>
        BY DEF Handle
    <2>2. pc \in {"answer", "done"}
        BY <2>1 DEF KeyInv, Configuring
    <2>3. CASE pc = "done"
        BY <2>1, <2>3 DEF KeyInv, Clear, Configured, TimedOut, Vain
    <2>4. CASE pc = "answer"
      <3>1. /\ port \in driver /\ port \in Ports
            /\ inbuf = <<>> \/ inbuf = <<To(port, Sent[step])>>
          BY <2>4 DEF KeyInv, ProbeInv, ProbeTypes, Configuring, Asked, Replied, Refused, Told, Lost
      <3>2. attached[port] = "keyboard"
          BY <2>4, <3>1 DEF KeyInv, ProbeInv, Fitting, Probed
      <3>3. CASE inbuf = <<To(port, Sent[step])>>
        <4>1. inbuf[1].to = port
            BY <3>3 DEF To
        <4> QED
            BY <3>2, <4>1 DEF TimedOut, Vain
      <3> QED
          BY <3>1, <3>3 DEF TimedOut, Vain
    <2> QED
        BY <2>2, <2>3, <2>4
  <1>2. /\ outq # <<>> /\ outq' = Tail(outq) /\ lastout' = Head(outq).byte
        /\ inbuf = <<>> /\ Decode(p, Head(outq).byte)
      BY <1>0 DEF Handle, ReadData, RestOf, TopOf, Ready
  <1>3. /\ kb' = [kb EXCEPT ![p] = After(kb[p], Head(outq).byte)]
        /\ printed' = [printed EXCEPT ![p] = printed[p] \o Output(kb[p], Head(outq).byte)]
      BY <1>2 DEF Decode, After, Output
  <1>4. /\ pc \in {"configure", "send", "answer", "done"} /\ pc' = pc
        /\ p \in driver /\ Head(outq).from = p /\ inbuf = <<>>
        /\ UNCHANGED <<attached, dev, devq, events, inbuf, port, step, driver>>
      BY <1>2 DEF Handle, ports
  <1>5. kb[p] \in KbFields /\ printed[p] \in Seq(EventSet)
      BY <1>1
  <1>6. After(kb[p], Head(outq).byte) \in KbFields => kb' \in [Ports -> KbFields]
      BY <1>1, <1>3
  <1>7. printed[p] \o Output(kb[p], Head(outq).byte) \in Seq(EventSet) =>
            printed' \in [Ports -> Seq(EventSet)]
      BY <1>1, <1>3
  <1>8. /\ kb'[p] = After(kb[p], Head(outq).byte)
        /\ printed'[p] = printed[p] \o Output(kb[p], Head(outq).byte)
        /\ \A q \in Ports : q # p => kb'[q] = kb[q] /\ printed'[q] = printed[q]
      BY <1>1, <1>3
  <1> QED
      BY <1>2, <1>4, <1>5, <1>6, <1>7, <1>8

\* The byte that configure waits for.
LEMMA HandleAnswer ==
    ASSUME KeyInv, NEW p \in Ports, Handle(p), pc = "answer"
    PROVE  KeyTypes' /\ Configuring' /\ Decoding'
  <1> DEFINE b == Head(outq).byte
             k == kb[port]
  <1>1. /\ outq # <<>> /\ inbuf = <<>> /\ Head(outq).from = p
        /\ outq' = Tail(outq)
      BY HandleDoes
  <1>2. Replied \/ Refused \/ Told \/ Lost
      BY <1>1, Waiting DEF Asked
  <1>3. /\ p = port /\ b \in Control /\ k.last_input \in {-1, ACK, RESEND}
    <2>1. CASE Replied
        BY <1>1, <2>1, Queues DEF Replied, Msg, Control
    <2>2. CASE Refused
        BY <1>1, <2>2, Queues DEF Refused, Msg, Control
    <2>3. CASE Told
        BY <1>1, <2>3, Queues DEF Told, Msg, Control
    <2>4. CASE Lost
      <3>1. outq \in Seq([from : {port}, byte : Control])
          BY <2>4 DEF Lost
      <3>2. Head(outq) \in [from : {port}, byte : Control]
          BY <1>1, <3>1, HeadTailProperties
      <3> QED
          BY <1>1, <2>4, <3>2 DEF Lost
    <2> QED
        BY <1>2, <2>1, <2>2, <2>3, <2>4
  <1>4. k \in KbFields /\ NoKey(k)
      BY Waiting
  <1> HIDE DEF b, k
  <1>5. /\ After(k, b) \in KbFields /\ NoKey(After(k, b)) /\ Output(k, b) = <<>>
      BY <1>3, <1>4, HandledAnswer
  <1>6. /\ kb'[port] = After(k, b) /\ kb' \in [Ports -> KbFields]
        /\ \A q \in Ports : q # port => kb'[q] = kb[q] /\ printed'[q] = printed[q]
      BY <1>3, <1>5, HandleDoes DEF b, k
  <1>7. printed' = printed
    <2>1. printed[port] \in Seq(EventSet) /\ printed'[port] = printed[port] \o <<>>
        BY <1>3, <1>5, HandleDoes DEF b, k
    <2>2. printed[port] \o <<>> = printed[port]
        BY <2>1, ConcatEmptySeq
    <2>3. printed' \in [Ports -> Seq(EventSet)]
      <3>1. printed[p] \o Output(kb[p], Head(outq).byte) = printed[port]
          BY <1>3, <1>5, <2>2 DEF b, k
      <3>2. printed[p] \o Output(kb[p], Head(outq).byte) \in Seq(EventSet)
          BY <2>1, <3>1
      <3> QED
          BY <3>2, HandleDoes
    <2>4. \A q \in Ports : printed'[q] = printed[q]
        BY <1>6, <2>1, <2>2
    <2> QED
        BY <2>3, <2>4 DEF KeyInv, KeyTypes
  <1>8. /\ pc' = "answer" /\ port \in Ports
        /\ UNCHANGED <<attached, dev, devq, events, inbuf, port, step, driver>>
      BY HandleDoes, Waiting
  <1>9. KeyTypes'
      BY <1>6, <1>7, <1>8 DEF KeyInv, KeyTypes
  <1>10. (Told \/ Lost)'
    <2>1. CASE Replied
      <3>1. outq' = <<>> /\ b = ACK /\ k.last_input = -1
          BY <1>1, <2>1, Queues DEF Replied, Msg, b, k
      <3>2. kb'[port].last_input = ACK /\ (kb'[port].self_test_passed <=> k.self_test_passed)
          BY <1>3, <1>4, <1>6, <3>1, HandledAnswer DEF ACK, PASS
      <3>3. Told'
          BY <1>1, <1>8, <2>1, <3>1, <3>2 DEF Replied, Told, Obeyed, k
      <3> QED
          BY <3>3
    <2>2. CASE Refused
      <3>1. outq' = <<>> /\ b = RESEND /\ k.last_input = -1
          BY <1>1, <2>2, Queues DEF Refused, Msg, b, k
      <3>2. kb'[port].last_input = RESEND
          BY <1>3, <1>4, <1>6, <3>1, HandledAnswer DEF RESEND, PASS
      <3>3. Lost'
          BY <1>1, <1>8, <2>2, <3>1, <3>2 DEF Refused, Lost
      <3> QED
          BY <3>3
    <2>3. CASE Told
      <3>1. outq' = <<>> /\ b = PASS /\ k.last_input = ACK /\ devq[port] = <<>> /\ Obeyed
        <4>1. outq = <<Msg(port, PASS)>> /\ devq[port] = <<>> /\ Obeyed /\ kb[port].last_input = ACK
            BY <1>1, <2>3 DEF Told
        <4>2. Head(outq) = Msg(port, PASS) /\ Tail(outq) = <<>>
            BY <4>1, Queues
        <4> QED
            BY <1>1, <4>1, <4>2 DEF Msg, b, k
      <3>2. kb'[port].last_input = ACK
          BY <1>3, <1>4, <1>6, <3>1, HandledAnswer
      <3>3. Told'
          BY <1>1, <1>8, <3>1, <3>2 DEF Told, Obeyed
      <3> QED
          BY <3>3
    <2>4. CASE Lost
      <3>1. outq' \in Seq([from : {port}, byte : Control])
          BY <1>1, <2>4, HeadTailProperties DEF Lost
      <3>2. k.last_input = RESEND
          BY <2>4 DEF Lost, k
      <3>3. kb'[port].last_input = RESEND
          BY <1>3, <1>4, <1>6, <3>2, HandledAnswer
      <3>4. Lost'
          BY <1>1, <1>8, <2>4, <3>1, <3>3 DEF Lost
      <3> QED
          BY <3>4
    <2> QED
        BY <1>2, <2>1, <2>2, <2>3, <2>4
  <1>11. /\ NoKey(kb'[port])
         /\ \A q \in Ports : q # port => kb'[q] = kb[q] /\ dev'[q] = dev[q] /\ devq'[q] = <<>>
      BY <1>5, <1>6, <1>8, Waiting
  <1> QED
      BY <1>7, <1>8, <1>9, <1>10, <1>11, AnswerKeys

-----------------------------------------------------------------------------
(* The devices while init runs                                             *)

\* A byte is on its way to a device that is there only when configure has sent it, or
\* before configure.
LEMMA SentBy ==
    ASSUME KeyInv, inbuf # <<>>, ~Vain
    PROVE  pc \notin {"configure", "send", "done"}
  <1>1. ~NoneSent
    <2> SUFFICES ASSUME NEW q \in Ports, NEW b \in 0..255, Gone(q), inbuf = <<To(q, b)>>
                 PROVE  FALSE
        BY DEF NoneSent
    <2>1. inbuf[1].to = q
        BY Queues DEF To
    <2> QED
        BY <2>1 DEF Vain, Gone
  <1> QED
      BY <1>1 DEF KeyInv, Configuring, Decoding

\* The byte that configure has sent.
LEMMA SentByte ==
    ASSUME KeyInv, pc = "answer", inbuf # <<>>
    PROVE  /\ Asked \/ Lost
           /\ inbuf[1].to = port /\ inbuf[1].byte = Sent[step] /\ ~Vain
           /\ Sent[step] = CASE step = 1 -> \hff [] step = 2 -> \hf0 [] OTHER -> \h02
  <1>1. Asked \/ Lost
      BY Waiting DEF Replied, Refused, Told
  <1>2. inbuf = <<To(port, Sent[step])>>
      BY <1>1 DEF Asked, Lost
  <1>3. inbuf[1].to = port /\ inbuf[1].byte = Sent[step]
      BY <1>2, Queues DEF To
  <1>4. Sent[step] = CASE step = 1 -> \hff [] step = 2 -> \hf0 [] OTHER -> \h02
    <2>1. step = 1 \/ step = 2 \/ step = 3
        BY Waiting
    <2> QED
        BY <2>1 DEF Sent
  <1> QED
      BY <1>1, <1>3, <1>4, Waiting DEF Vain

\* The fields of a device that has taken a byte.
Obeying(d, byte) ==
    CASE byte = DEV_DISABLE_SCAN -> [d EXCEPT !.scan = FALSE]
      [] byte = \hff -> [scan |-> TRUE, set |-> 0, arg |-> FALSE]
      [] byte = \hf0 -> [d EXCEPT !.arg = TRUE]
      [] byte = \h02 /\ d.arg -> [d EXCEPT !.set = 2, !.arg = FALSE]
      [] OTHER -> d

LEMMA ObeyingType ==
    ASSUME NEW d, d \in DevFields, NEW byte
    PROVE  Obeying(d, byte) \in DevFields
  <1>1. [d EXCEPT !.scan = FALSE] \in DevFields
      BY Zenon DEF DevFields
  <1>2. [d EXCEPT !.arg = TRUE] \in DevFields
      BY Zenon DEF DevFields
  <1>3. [scan |-> TRUE, set |-> 0, arg |-> FALSE] \in DevFields
    <2>1. 0 \in Nat
        OBVIOUS
    <2> QED
        BY <2>1, Zenon DEF DevFields
  <1>4. [d EXCEPT !.set = 2, !.arg = FALSE] \in DevFields
    <2>1. 2 \in Nat
        OBVIOUS
    <2> QED
        BY <2>1, Zenon DEF DevFields
  <1> QED
      BY <1>1, <1>2, <1>3, <1>4, Zenon DEF Obeying

LEMMA AcceptDoes ==
    ASSUME Prompt, KeyInv, Accept
    PROVE  LET p == inbuf[1].to
               byte == inbuf[1].byte
               bytes == <<ACK>> \o (IF byte = DEV_IDENTIFY THEN Id(attached[p]) ELSE <<>>)
               kept == IF byte \in {DEV_DISABLE_SCAN, \hff} THEN <<>> ELSE devq[p]
           IN /\ inbuf # <<>> /\ ~Vain /\ inbuf' = <<>>
              /\ outq' = outq \o Answer(p, bytes)
              /\ devq' = [devq EXCEPT ![p] = IF byte = \hff THEN Append(kept, PASS) ELSE kept]
              /\ dev' = [dev EXCEPT ![p] = Obeying(dev[p], byte)]
              /\ UNCHANGED <<attached, pc, port, driver, kb, step, printed, events>>
  BY DEF Accept, Obeying, ports, driving

LEMMA AcceptTypes ==
    ASSUME Prompt, KeyInv, Accept
    PROVE  KeyTypes'
  <1> DEFINE p == inbuf[1].to
             byte == inbuf[1].byte
             kept == IF byte \in {DEV_DISABLE_SCAN, \hff} THEN <<>> ELSE devq[p]
             new == IF byte = \hff THEN Append(kept, PASS) ELSE kept
  <1>1. /\ devq' = [devq EXCEPT ![p] = new] /\ dev' = [dev EXCEPT ![p] = Obeying(dev[p], byte)]
        /\ UNCHANGED <<kb, printed, events>>
      BY AcceptDoes
  <1>2. devq \in [Ports -> Seq(0..255)] /\ dev \in [Ports -> DevFields]
      BY DEF KeyInv, KeyTypes
  <1>3. p \in Ports => new \in Seq(0..255)
      BY <1>2 DEF PASS
  <1> HIDE DEF new, p, byte
  <1>4. devq' \in [Ports -> Seq(0..255)]
      BY <1>1, <1>2, <1>3
  <1>5. dev' \in [Ports -> DevFields]
      BY <1>1, <1>2, ObeyingType
  <1> QED
      BY <1>1, <1>4, <1>5 DEF KeyInv, KeyTypes

LEMMA ControlMsg == \A p : \A b \in Control : Msg(p, b) \in [from : {p}, byte : Control]
  BY DEF Msg

LEMMA AcceptKeys ==
    ASSUME Prompt, KeyInv, Accept
    PROVE  KeyTypes' /\ Configuring' /\ Decoding'
  <1> DEFINE p == inbuf[1].to
             byte == inbuf[1].byte
             bytes == <<ACK>> \o (IF byte = DEV_IDENTIFY THEN Id(attached[p]) ELSE <<>>)
             kept == IF byte \in {DEV_DISABLE_SCAN, \hff} THEN <<>> ELSE devq[p]
             new == IF byte = \hff THEN Append(kept, PASS) ELSE kept
  <1>1. /\ inbuf # <<>> /\ ~Vain /\ inbuf' = <<>>
        /\ outq' = outq \o Answer(p, bytes)
        /\ devq' = [devq EXCEPT ![p] = new]
        /\ dev' = [dev EXCEPT ![p] = Obeying(dev[p], byte)]
        /\ UNCHANGED <<attached, pc, port, driver, kb, step, printed, events>>
      BY AcceptDoes
  <1>2. KeyTypes'
      BY AcceptTypes
  <1>3. CASE pc = "answer"
    <2>1. /\ Asked \/ Lost
          /\ p = port /\ byte = Sent[step] /\ port \in Ports /\ step \in 1..3
          /\ Sent[step] = CASE step = 1 -> \hff [] step = 2 -> \hf0 [] OTHER -> \h02
        BY <1>1, <1>3, SentByte, Waiting
    <2>2. bytes = <<ACK>>
      <3>1. byte # DEV_IDENTIFY
          BY <2>1 DEF DEV_IDENTIFY
      <3>2. bytes = <<ACK>> \o <<>>
          BY <3>1
      <3> QED
          BY <3>2, Joined
    <2>3. outq' = outq \o <<Msg(port, ACK)>>
        BY <1>1, <2>1, <2>2, Answers
    <2>4. new = IF step = 1 THEN Append(<<>>, PASS) ELSE devq[port]
      <3>1. CASE step = 1
        <4>1. byte = \hff
            BY <2>1, <3>1
        <4>2. kept = <<>>
            BY <4>1
        <4> QED
            BY <3>1, <4>1, <4>2
      <3>2. CASE step # 1
        <4>1. byte # \hff /\ byte # DEV_DISABLE_SCAN
            BY <2>1, <3>2 DEF DEV_DISABLE_SCAN
        <4> QED
            BY <2>1, <3>2, <4>1
      <3> QED
          BY <3>1, <3>2
    <2> HIDE DEF new, p, byte, bytes
    <2>5. devq \in [Ports -> Seq(0..255)] /\ dev \in [Ports -> DevFields]
        BY DEF KeyInv, KeyTypes
    <2>6. /\ devq'[port] = new /\ dev'[port] = Obeying(dev[port], Sent[step])
          /\ \A q \in Ports : q # port => dev'[q] = dev[q] /\ devq'[q] = devq[q]
        BY <1>1, <2>1, <2>5
    <2>7. Append(<<>>, PASS) = <<PASS>>
        BY Appended
    <2>8. (Replied \/ Lost)'
      <3>1. CASE Asked
        <4>1. outq' = <<Msg(port, ACK)>>
          <5>1. outq = <<>>
              BY <3>1 DEF Asked
          <5> QED
              BY <2>3, <5>1, Joined
        <4>2. devq'[port] = IF step = 1 THEN <<PASS>> ELSE <<>>
            BY <2>4, <2>6, <2>7, <3>1 DEF Asked
        <4>3. step = 2 => dev'[port].arg
            BY <2>1, <2>5, <2>6 DEF Obeying, DevFields, DEV_DISABLE_SCAN
        <4>4. step = 3 => dev'[port].set = 2
          <5>1. step = 3 => dev[port].arg
              BY <3>1 DEF Asked
          <5> QED
              BY <2>1, <2>5, <2>6, <5>1 DEF Obeying, DevFields, DEV_DISABLE_SCAN
        <4>5. kb[port].last_input = -1 /\ (step = 1 => ~kb[port].self_test_passed)
            BY <3>1 DEF Asked
        <4>6. Replied'
            BY <1>1, <4>1, <4>2, <4>3, <4>4, <4>5 DEF Replied, Obeyed
        <4> QED
            BY <4>6
      <3>2. CASE Lost
        <4>1. outq' \in Seq([from : {port}, byte : Control])
          <5>1. outq \in Seq([from : {port}, byte : Control])
              BY <3>2 DEF Lost
          <5>2. <<Msg(port, ACK)>> \in Seq([from : {port}, byte : Control])
              BY ControlMsg DEF Control
          <5> QED
              BY <2>3, <5>1, <5>2, ConcatProperties
        <4>2. devq'[port] \in Seq(Control)
          <5>1. <<PASS>> \in Seq(Control) /\ devq[port] \in Seq(Control)
              BY <3>2 DEF Lost, Control
          <5> QED
              BY <2>4, <2>6, <2>7, <5>1
        <4>3. Lost'
            BY <1>1, <3>2, <4>1, <4>2 DEF Lost
        <4> QED
            BY <4>3
      <3> QED
          BY <2>1, <3>1, <3>2
    <2>9. /\ NoKey(kb'[port])
          /\ \A q \in Ports : q # port => kb'[q] = kb[q] /\ dev'[q] = dev[q] /\ devq'[q] = <<>>
        BY <1>1, <1>3, <2>6, Waiting
    <2> QED
        BY <1>1, <1>2, <1>3, <2>8, <2>9, AnswerKeys
  <1>4. CASE pc # "answer"
    <2>1. pc \notin {"configure", "send", "answer", "done"}
        BY <1>1, <1>4, SentBy
    <2>2. pc' = "enable" => port' = 0
        BY <1>1 DEF KeyInv, Configuring
    <2> QED
        BY <1>1, <1>2, <2>1, <2>2, BeforeKeys
  <1> QED
      BY <1>3, <1>4

LEMMA AskAgainKeys ==
    ASSUME KeyInv, AskAgain
    PROVE  KeyTypes' /\ Configuring' /\ Decoding'
  <1> DEFINE p == inbuf[1].to
  <1>1. /\ inbuf # <<>> /\ ~Vain /\ inbuf' = <<>> /\ outq' = Append(outq, Msg(p, RESEND))
        /\ UNCHANGED <<attached, dev, devq, pc, port, driver, kb, step, printed, events>>
      BY DEF AskAgain, Msg, ports, driving
  <1> HIDE DEF p
  <1>2. KeyTypes'
      BY <1>1, SameTypes DEF KeyInv
  <1>3. CASE pc = "answer"
    <2>1. (Asked \/ Lost) /\ p = port
        BY <1>1, <1>3, SentByte DEF p
    <2>2. (Refused \/ Lost)'
      <3>1. CASE Asked
        <4>1. outq' = <<Msg(port, RESEND)>>
          <5>1. outq = <<>>
              BY <3>1 DEF Asked
          <5> QED
              BY <1>1, <2>1, <5>1, Appended
        <4>2. Refused'
            BY <1>1, <3>1, <4>1 DEF Asked, Refused
        <4> QED
            BY <4>2
      <3>2. CASE Lost
        <4>1. Msg(port, RESEND) \in [from : {port}, byte : Control]
            BY ControlMsg DEF Control
        <4>2. outq' \in Seq([from : {port}, byte : Control])
          <5>1. outq \in Seq([from : {port}, byte : Control])
              BY <3>2 DEF Lost
          <5> QED
              BY <1>1, <2>1, <4>1, <5>1
        <4>3. Lost'
            BY <1>1, <3>2, <4>2 DEF Lost
        <4> QED
            BY <4>3
      <3> QED
          BY <2>1, <3>1, <3>2
    <2>3. /\ NoKey(kb'[port])
          /\ \A q \in Ports : q # port => kb'[q] = kb[q] /\ dev'[q] = dev[q] /\ devq'[q] = <<>>
        BY <1>1, <1>3, Waiting
    <2> QED
        BY <1>1, <1>2, <1>3, <2>2, <2>3, AnswerKeys
  <1>4. CASE pc # "answer"
    <2>1. pc \notin {"configure", "send", "answer", "done"}
        BY <1>1, <1>4, SentBy
    <2>2. pc' = "enable" => port' = 0
        BY <1>1 DEF KeyInv, Configuring
    <2> QED
        BY <1>1, <1>2, <2>1, <2>2, BeforeKeys
  <1> QED
      BY <1>3, <1>4

LEMMA GiveUpKeys ==
    ASSUME KeyInv, GiveUp
    PROVE  KeyTypes' /\ Configuring' /\ Decoding'
  <1>1. /\ inbuf # <<>> /\ Vain /\ inbuf' = <<>>
        /\ UNCHANGED <<attached, dev, devq, outq, pc, port, driver, kb, step, printed, events>>
      BY DEF GiveUp, Vain, ports, driving
  <1>2. KeyTypes'
      BY <1>1, SameTypes DEF KeyInv
  <1>3. NoneSent' /\ pc # "answer"
      BY <1>1, SentByte DEF NoneSent
  <1>4. Configuring'
      BY <1>1, <1>3, SMTT(60) DEF KeyInv, Configuring, Configured
  <1>5. Decoding'
      BY <1>1, <1>3, SMTT(60) DEF KeyInv, Decoding, Printed, Coming, Arrived, LastArrived
  <1> QED
      BY <1>2, <1>4, <1>5

LEMMA EmitDoes ==
    ASSUME KeyInv, NEW p \in Ports, Emit(p)
    PROVE  /\ devq[p] # <<>> /\ devq[p] \in Seq(0..255) /\ outq = <<>>
           /\ outq' = <<Msg(p, Head(devq[p]))>> /\ devq'[p] = Tail(devq[p])
           /\ \A q \in Ports : q # p => devq'[q] = devq[q]
           /\ UNCHANGED <<attached, dev, inbuf, pc, port, driver, kb, step, printed, events>>
           /\ KeyTypes'
  <1>1. devq \in [Ports -> Seq(0..255)]
      BY DEF KeyInv, KeyTypes
  <1>2. /\ devq[p] # <<>> /\ outq = <<>> /\ outq' = <<Msg(p, Head(devq[p]))>>
        /\ devq' = [devq EXCEPT ![p] = Tail(devq[p])]
        /\ UNCHANGED <<attached, dev, inbuf, pc, port, driver, kb, step, printed, events>>
      BY DEF Emit, Msg, ports, driving
  <1>3. devq[p] \in Seq(0..255) /\ Tail(devq[p]) \in Seq(0..255)
      BY <1>1, <1>2, HeadTailProperties
  <1>4. devq' \in [Ports -> Seq(0..255)]
      BY <1>1, <1>2, <1>3
  <1>5. KeyTypes'
      BY <1>2, <1>4 DEF KeyInv, KeyTypes
  <1> QED
      BY <1>1, <1>2, <1>3, <1>5

LEMMA EmitAnswer ==
    ASSUME KeyInv, NEW p \in Ports, Emit(p), pc = "answer"
    PROVE  Configuring' /\ Decoding'
  <1>1. /\ devq[p] # <<>> /\ outq = <<>> /\ outq' = <<Msg(p, Head(devq[p]))>>
        /\ devq'[p] = Tail(devq[p]) /\ \A q \in Ports : q # p => devq'[q] = devq[q]
        /\ UNCHANGED <<attached, dev, inbuf, pc, port, driver, kb, step, printed, events>>
      BY EmitDoes
  <1>2. p = port
      BY <1>1, Waiting
  <1>3. Told \/ Lost
      BY <1>1, <1>2, Waiting, Queues DEF Asked, Replied, Refused
  <1>4. (Told \/ Lost)'
    <2>1. CASE Told
      <3>1. devq[port] = <<PASS>> /\ step = 1 /\ ~kb[port].self_test_passed
          BY <1>1, <1>2, <2>1 DEF Told
      <3>2. outq' = <<Msg(port, PASS)>> /\ devq'[port] = <<>>
          BY <1>1, <1>2, <3>1, Queues
      <3>3. Told'
          BY <1>1, <2>1, <3>1, <3>2 DEF Told, Obeyed
      <3> QED
          BY <3>3
    <2>2. CASE Lost
      <3>1. Head(devq[port]) \in Control /\ Tail(devq[port]) \in Seq(Control)
          BY <1>1, <1>2, <2>2, HeadTailProperties DEF Lost
      <3>2. Msg(port, Head(devq[port])) \in [from : {port}, byte : Control]
          BY <3>1, ControlMsg
      <3>3. outq' \in Seq([from : {port}, byte : Control])
          BY <1>1, <1>2, <3>2
      <3>4. Lost'
          BY <1>1, <1>2, <2>2, <3>1, <3>3 DEF Lost
      <3> QED
          BY <3>4
    <2> QED
        BY <1>3, <2>1, <2>2
  <1>5. /\ NoKey(kb'[port])
        /\ \A q \in Ports : q # port => kb'[q] = kb[q] /\ dev'[q] = dev[q] /\ devq'[q] = <<>>
      BY <1>1, <1>2, Waiting
  <1> QED
      BY <1>1, <1>4, <1>5, AnswerKeys

-----------------------------------------------------------------------------
(* Keys                                                                    *)

LEMMA KeyBytes ==
    ASSUME NEW codes, NEW e, IsKey(codes, e)
    PROVE  /\ codes \in Seq(0..255) /\ codes # <<>> /\ e \in EventSet
           /\ \A k : NoKey(k) => Expects(k, Head(codes), Tail(codes), e)
  <1>1. PICK e0, e1, f0, h14, h1c, h75, h77, h83 : Bytes(e0, e1, f0, h14, h1c, h75, h77, h83)
      BY DEF Bytes
  <1>2. /\ e0 \in 0..255 /\ e1 \in 0..255 /\ f0 \in 0..255 /\ h14 \in 0..255
        /\ h1c \in 0..255 /\ h75 \in 0..255 /\ h77 \in 0..255 /\ h83 \in 0..255
      BY <1>1 DEF Bytes
  <1>3. \/ codes = <<h1c>> \/ codes = <<f0, h1c>> \/ codes = <<h83>> \/ codes = <<f0, h83>>
        \/ codes = <<e0, h75>> \/ codes = <<e0, f0, h75>> \/ codes = <<e1, h14, h77>>
        \/ codes = <<e1, f0, h14, f0, h77>>
    <2>1. /\ Down("a") = <<h1c>> /\ Up("a") = <<f0, h1c>>
          /\ Down("f7") = <<h83>> /\ Up("f7") = <<f0, h83>>
          /\ Down("up") = <<e0, h75>> /\ Up("up") = <<e0, f0, h75>>
          /\ Down("pause") = <<e1, h14, h77>> /\ Up("pause") = <<e1, f0, h14, f0, h77>>
        BY <1>1, CodesAre
    <2> QED
        BY <2>1, Zenon DEF IsKey, Keys
  <1>4. codes \in Seq(0..255) /\ codes # <<>>
    <2> DEFINE S == 0..255
    <2>1. /\ e0 \in S /\ e1 \in S /\ f0 \in S /\ h14 \in S
          /\ h1c \in S /\ h75 \in S /\ h77 \in S /\ h83 \in S
        BY <1>2
    <2> HIDE DEF S
    <2>2. /\ <<h1c>> \in Seq(S) /\ <<f0, h1c>> \in Seq(S) /\ <<h83>> \in Seq(S)
          /\ <<f0, h83>> \in Seq(S) /\ <<e0, h75>> \in Seq(S)
        BY <2>1
    <2>3. /\ <<e0, f0, h75>> \in Seq(S) /\ <<e1, h14, h77>> \in Seq(S)
          /\ <<e1, f0, h14, f0, h77>> \in Seq(S)
        BY <2>1
    <2>4. codes \in Seq(S)
        BY <1>3, <2>2, <2>3, Zenon
    <2>5. /\ <<h1c>> # <<>> /\ <<f0, h1c>> # <<>> /\ <<h83>> # <<>> /\ <<f0, h83>> # <<>>
          /\ <<e0, h75>> # <<>> /\ <<e0, f0, h75>> # <<>> /\ <<e1, h14, h77>> # <<>>
          /\ <<e1, f0, h14, f0, h77>> # <<>>
        OBVIOUS
    <2>6. codes # <<>>
        BY <1>3, <2>5, Zenon
    <2> QED
        BY <2>4, <2>6 DEF S
  <1>5. e \in EventSet
      BY Zenon DEF IsKey, EventSet, Pressed, Released
  <1>6. \A k : NoKey(k) => Expects(k, Head(codes), Tail(codes), e)
      BY Zenon DEF IsKey, Expects, Begins
  <1> QED
      BY <1>4, <1>5, <1>6

\* After init only keys are sent.
LEMMA DoneKeys ==
    ASSUME KeyInv, pc = "done", pc' = "done", UNCHANGED <<driver, dev>>,
           \A p \in driver : kb'[p].last_input = ACK
    PROVE  Configuring'
  <1>1. \A p \in Ports : p \in driver => dev[p].set = 2
      BY DEF KeyInv, Configuring, Configured
  <1> QED
      BY <1>1 DEF Configuring, Configured

LEMMA EmitDone ==
    ASSUME KeyInv, NEW p \in Ports, Emit(p), pc = "done"
    PROVE  Configuring' /\ Decoding'
  <1>1. /\ devq[p] # <<>> /\ outq = <<>> /\ outq' = <<Msg(p, Head(devq[p]))>>
        /\ devq'[p] = Tail(devq[p]) /\ \A q \in Ports : q # p => devq'[q] = devq[q]
        /\ UNCHANGED <<attached, dev, inbuf, pc, port, driver, kb, step, printed, events>>
        /\ devq[p] \in Seq(0..255)
      BY EmitDoes
  <1>2. Head(devq[p]) \in 0..255
      BY <1>1, HeadTailProperties
  <1>3. driver \subseteq Ports /\ \A q \in driver : kb[q].last_input = ACK
      BY DEF KeyInv, ProbeInv, ProbeTypes, Configuring, Configured
  <1>4. Configuring'
      BY <1>1, <1>3, DoneKeys
  <1>5. /\ \A q \in Ports \ driver : Printed(q)
        /\ \A q \in driver : Printed(q) \/ Coming(q)
        /\ NoneSent
      BY <1>1 DEF KeyInv, Decoding
  <1>6. p \in driver /\ Coming(p)
      BY <1>1, <1>5 DEF Printed
  <1>7. \E e \in EventSet : /\ Expects(kb'[p], Head(devq[p]), devq'[p], e)
                            /\ events'[p] = Append(printed'[p], e)
      BY <1>1, <1>6 DEF Coming
  <1>8. outq' # <<>> /\ Head(outq').from = p /\ Head(outq').byte = Head(devq[p])
      BY <1>1, Queues DEF Msg
  <1>9. Arrived(p, Head(outq).byte)'
      BY <1>7, <1>8 DEF Arrived
  <1>10. \A q \in Ports : q # p => (Printed(q) => Printed(q)') /\ (Coming(q) => Coming(q)')
      BY <1>1 DEF Printed, Coming
  <1>11. Decoding'
    <2>1. NoneSent'
        BY <1>1, <1>5, SameSent
    <2>2. \E q \in driver', b \in 0..255 : outq' = <<Msg(q, b)>>
        BY <1>1, <1>2, <1>6
    <2>3. \A q \in Ports \ driver : Printed(q)'
        BY <1>5, <1>6, <1>10
    <2>4. \A q \in driver : q # p => Printed(q)' \/ Coming(q)'
        BY <1>3, <1>5, <1>10
    <2> QED
        BY <1>1, <1>8, <1>9, <2>1, <2>2, <2>3, <2>4 DEF Decoding
  <1> QED
      BY <1>4, <1>11

LEMMA TypeDoes ==
    ASSUME ~Early, KeyInv, NEW p \in Ports, NEW key \in Keys, NEW release \in BOOLEAN,
           Type(p, key, release)
    PROVE  /\ pc = "done" /\ attached[p] = "keyboard" /\ devq[p] = <<>>
           /\ IsKey(devq'[p], Event(key, release))
           /\ events'[p] = Append(events[p], Event(key, release))
           /\ \A q \in Ports : q # p => devq'[q] = devq[q] /\ events'[q] = events[q]
           /\ UNCHANGED <<attached, dev, inbuf, outq, pc, port, driver, kb, step, printed>>
           /\ KeyTypes'
  <1> DEFINE codes == Codes(key, release)
             e == Event(key, release)
  <1>1. /\ devq \in [Ports -> Seq(0..255)] /\ events \in [Ports -> Seq(EventSet)]
      BY DEF KeyInv, KeyTypes
  <1>2. /\ pc = "done" /\ attached[p] = "keyboard" /\ devq[p] = <<>>
        /\ devq' = [devq EXCEPT ![p] = <<>> \o codes]
        /\ events' = [events EXCEPT ![p] = Append(events[p], e)]
        /\ UNCHANGED <<attached, dev, inbuf, outq, pc, port, driver, kb, step, printed>>
      BY DEF Type, ports, driving
  <1>3. IsKey(codes, e)
    <2>1. CASE release = TRUE
        BY <2>1, Zenon DEF IsKey, Up, Released
    <2>2. CASE release = FALSE
        BY <2>2, Zenon DEF IsKey, Down, Pressed
    <2> QED
        BY <2>1, <2>2
  <1> HIDE DEF codes, e
  <1>4. codes \in Seq(0..255) /\ e \in EventSet
      BY <1>3, KeyBytes
  <1>5. <<>> \o codes = codes
      BY <1>4, ConcatEmptySeq
  <1>6. /\ devq'[p] = codes /\ events'[p] = Append(events[p], e)
        /\ \A q \in Ports : q # p => devq'[q] = devq[q] /\ events'[q] = events[q]
      BY <1>1, <1>2, <1>5
  <1>7. Append(events[p], e) \in Seq(EventSet)
      BY <1>1, <1>4, AppendProperties
  <1>8. devq' \in [Ports -> Seq(0..255)] /\ events' \in [Ports -> Seq(EventSet)]
      BY <1>1, <1>2, <1>4, <1>5, <1>7
  <1>9. KeyTypes'
      BY <1>2, <1>8 DEF KeyInv, KeyTypes
  <1> QED
      BY <1>2, <1>3, <1>6, <1>9 DEF e

LEMMA TypeKeys ==
    ASSUME ~Early, KeyInv, NEW p \in Ports, NEW key \in Keys, NEW release \in BOOLEAN,
           Type(p, key, release)
    PROVE  KeyTypes' /\ Configuring' /\ Decoding'
  <1> DEFINE f == Event(key, release)
  <1>1. /\ pc = "done" /\ attached[p] = "keyboard" /\ devq[p] = <<>>
        /\ IsKey(devq'[p], f) /\ events'[p] = Append(events[p], f)
        /\ \A q \in Ports : q # p => devq'[q] = devq[q] /\ events'[q] = events[q]
        /\ UNCHANGED <<attached, dev, inbuf, outq, pc, port, driver, kb, step, printed>>
      BY TypeDoes
  <1> HIDE DEF f
  <1>2. KeyTypes'
      BY TypeDoes
  <1>3. p \in driver
      BY <1>1 DEF KeyInv, ProbeInv, Fitting, Probed
  <1>4. driver \subseteq Ports /\ \A q \in driver : kb[q].last_input = ACK
      BY <1>1 DEF KeyInv, ProbeInv, ProbeTypes, Configuring, Configured
  <1>5. Configuring'
      BY <1>1, <1>4, DoneKeys
  <1>6. /\ NoneSent
        /\ outq = <<>> \/ \E q \in driver, b \in 0..255 : outq = <<Msg(q, b)>>
        /\ \A q \in Ports \ driver : Printed(q)
        /\ \A q \in driver :
              IF outq # <<>> /\ Head(outq).from = q
              THEN Arrived(q, Head(outq).byte) \/ LastArrived(q, Head(outq).byte)
              ELSE Printed(q) \/ Coming(q)
      BY <1>1 DEF KeyInv, Decoding
  <1>7. \A q \in Ports : q # p =>
            /\ Printed(q) => Printed(q)'
            /\ Coming(q) => Coming(q)'
            /\ Arrived(q, Head(outq).byte) => Arrived(q, Head(outq).byte)'
            /\ LastArrived(q, Head(outq).byte) => LastArrived(q, Head(outq).byte)'
      BY <1>1 DEF Printed, Coming, Arrived, LastArrived
  <1>8. /\ devq'[p] # <<>> /\ f \in EventSet
        /\ \A k : NoKey(k) => Expects(k, Head(devq'[p]), Tail(devq'[p]), f)
      BY <1>1, KeyBytes
  <1>9. IF outq # <<>> /\ Head(outq).from = p
        THEN LastArrived(p, Head(outq).byte)'
        ELSE Coming(p)'
    <2>1. CASE outq # <<>> /\ Head(outq).from = p
      <3>1. ~LastArrived(p, Head(outq).byte)
          BY <1>1, KeyBytes DEF LastArrived
      <3>2. PICK e \in EventSet : /\ Expects(kb[p], Head(outq).byte, devq[p], e)
                                  /\ events[p] = Append(printed[p], e)
          BY <1>3, <1>6, <2>1, <3>1 DEF Arrived
      <3>3. /\ Expects(kb'[p], Head(outq').byte, <<>>, e)
            /\ events'[p] = Append(Append(printed'[p], e), f)
          BY <1>1, <3>2
      <3>4. LastArrived(p, Head(outq).byte)'
          BY <1>1, <1>8, <3>3 DEF LastArrived
      <3> QED
          BY <2>1, <3>4
    <2>2. CASE ~(outq # <<>> /\ Head(outq).from = p)
      <3>1. Printed(p)
          BY <1>1, <1>3, <1>6, <2>2 DEF Coming
      <3>2. /\ Expects(kb'[p], Head(devq'[p]), Tail(devq'[p]), f)
            /\ events'[p] = Append(printed'[p], f)
          BY <1>1, <1>8, <3>1 DEF Printed
      <3>3. Coming(p)'
          BY <1>8, <3>2 DEF Coming
      <3> QED
          BY <2>2, <3>3
    <2> QED
        BY <2>1, <2>2
  <1>10. Decoding'
    <2>1. NoneSent'
        BY <1>1, <1>6, SameSent
    <2>2. \A q \in Ports \ driver : Printed(q)'
        BY <1>3, <1>6, <1>7
    <2>3. \A q \in driver :
              (IF outq # <<>> /\ Head(outq).from = q
               THEN Arrived(q, Head(outq).byte) \/ LastArrived(q, Head(outq).byte)
               ELSE Printed(q) \/ Coming(q))'
      <3> SUFFICES ASSUME NEW q \in driver
                   PROVE  (IF outq # <<>> /\ Head(outq).from = q
                           THEN Arrived(q, Head(outq).byte) \/ LastArrived(q, Head(outq).byte)
                           ELSE Printed(q) \/ Coming(q))'
          OBVIOUS
      <3>1. CASE q = p
          BY <1>1, <1>9, <3>1
      <3>2. CASE q # p
          BY <1>1, <1>4, <1>6, <1>7, <3>2
      <3> QED
          BY <3>1, <3>2
    <2> QED
        BY <1>1, <1>6, <2>1, <2>2, <2>3 DEF Decoding
  <1> QED
      BY <1>2, <1>5, <1>10

\* A byte of a key: the next one of it is expected, or its event is printed.
LEMMA HandleDone ==
    ASSUME KeyInv, NEW p \in Ports, Handle(p), pc = "done"
    PROVE  KeyTypes' /\ Configuring' /\ Decoding'
  <1> DEFINE b == Head(outq).byte
             k == kb[p]
  <1>1. /\ p \in driver /\ outq # <<>> /\ Head(outq).from = p /\ outq' = Tail(outq)
        /\ UNCHANGED <<attached, dev, devq, events, inbuf, pc, port, step, driver>>
        /\ kb'[p] = After(k, b) /\ printed'[p] = printed[p] \o Output(k, b)
        /\ \A q \in Ports : q # p => kb'[q] = kb[q] /\ printed'[q] = printed[q]
        /\ k \in KbFields /\ printed[p] \in Seq(EventSet)
      BY HandleDoes
  <1>2. /\ After(k, b) \in KbFields => kb' \in [Ports -> KbFields]
        /\ printed[p] \o Output(k, b) \in Seq(EventSet) => printed' \in [Ports -> Seq(EventSet)]
      BY HandleDoes
  <1>3. driver \subseteq Ports /\ \A q \in driver : kb[q].last_input = ACK
      BY DEF KeyInv, ProbeInv, ProbeTypes, Configuring, Configured
  <1>4. /\ NoneSent
        /\ outq = <<>> \/ \E q \in driver, x \in 0..255 : outq = <<Msg(q, x)>>
        /\ \A q \in Ports \ driver : Printed(q)
        /\ Arrived(p, b) \/ LastArrived(p, b)
        /\ \A q \in driver : q # p => Printed(q) \/ Coming(q)
      BY <1>1 DEF KeyInv, Decoding
  <1>5. outq' = <<>>
    <2>1. PICK q \in driver, x \in 0..255 : outq = <<Msg(q, x)>>
        BY <1>1, <1>4
    <2> QED
        BY <1>1, <2>1, Queues
  <1> HIDE DEF b, k
  <1>6. k.last_input = ACK
      BY <1>1, <1>3 DEF k
  <1>7. /\ After(k, b) \in KbFields /\ After(k, b).last_input = ACK
        /\ printed[p] \o Output(k, b) \in Seq(EventSet)
        /\ Printed(p)' \/ Coming(p)'
    <2>1. CASE Arrived(p, b)
      <3>1. PICK e \in EventSet : Expects(k, b, devq[p], e) /\ events[p] = Append(printed[p], e)
          BY <2>1 DEF Arrived, k
      <3>2. GoesRight(k, b, devq[p], e)
          BY <1>1, <1>6, <3>1, Expected
      <3>3. After(k, b) \in KbFields /\ After(k, b).last_input = ACK
          BY <3>2 DEF GoesRight
      <3>4. CASE devq[p] = <<>>
        <4>1. NoKey(After(k, b)) /\ Output(k, b) = <<e>>
            BY <3>2, <3>4 DEF GoesRight
        <4>2. printed[p] \o <<e>> = Append(printed[p], e)
            BY <1>1, AppendIsConcat
        <4>3. Append(printed[p], e) \in Seq(EventSet)
            BY <1>1, AppendProperties
        <4>4. Printed(p)'
            BY <1>1, <3>1, <3>4, <4>1, <4>2 DEF Printed
        <4> QED
            BY <3>3, <4>1, <4>2, <4>3, <4>4
      <3>5. CASE devq[p] # <<>>
        <4>1. Expects(After(k, b), Head(devq[p]), Tail(devq[p]), e) /\ Output(k, b) = <<>>
            BY <3>2, <3>5 DEF GoesRight
        <4>2. printed[p] \o <<>> = printed[p]
            BY <1>1, ConcatEmptySeq
        <4>3. /\ Expects(kb'[p], Head(devq'[p]), Tail(devq'[p]), e) /\ devq'[p] # <<>>
              /\ events'[p] = Append(printed'[p], e)
            BY <1>1, <3>1, <3>5, <4>1, <4>2
        <4>4. Coming(p)'
            BY <4>3 DEF Coming
        <4> QED
            BY <1>1, <3>3, <4>1, <4>2, <4>4
      <3> QED
          BY <3>4, <3>5
    <2>2. CASE LastArrived(p, b)
      <3>1. PICK e \in EventSet, f \in EventSet :
                /\ Expects(k, b, <<>>, e) /\ IsKey(devq[p], f)
                /\ events[p] = Append(Append(printed[p], e), f)
          BY <2>2 DEF LastArrived, k
      <3>2. GoesRight(k, b, <<>>, e)
          BY <1>1, <1>6, <3>1, Expected
      <3>3. /\ After(k, b) \in KbFields /\ After(k, b).last_input = ACK
            /\ NoKey(After(k, b)) /\ Output(k, b) = <<e>>
          BY <3>2 DEF GoesRight
      <3>4. printed[p] \o <<e>> = Append(printed[p], e) /\ Append(printed[p], e) \in Seq(EventSet)
          BY <1>1, AppendIsConcat, AppendProperties
      <3>5. devq[p] # <<>> /\ Expects(After(k, b), Head(devq[p]), Tail(devq[p]), f)
          BY <3>1, <3>3, KeyBytes
      <3>6. /\ Expects(kb'[p], Head(devq'[p]), Tail(devq'[p]), f) /\ devq'[p] # <<>>
            /\ events'[p] = Append(printed'[p], f)
          BY <1>1, <3>1, <3>3, <3>4, <3>5
      <3>7. Coming(p)'
          BY <3>6 DEF Coming
      <3> QED
          BY <3>3, <3>4, <3>7
    <2> QED
        BY <1>4, <2>1, <2>2
  <1>8. KeyTypes'
      BY <1>1, <1>2, <1>7 DEF KeyInv, KeyTypes
  <1>9. \A q \in driver : kb'[q].last_input = ACK
      BY <1>1, <1>3, <1>7
  <1>10. Configuring'
      BY <1>1, <1>9, DoneKeys
  <1>11. \A q \in Ports : q # p => (Printed(q) => Printed(q)') /\ (Coming(q) => Coming(q)')
      BY <1>1 DEF Printed, Coming
  <1>12. Decoding'
    <2>1. NoneSent'
        BY <1>1, <1>4, SameSent
    <2>2. \A q \in Ports \ driver : Printed(q)'
        BY <1>1, <1>4, <1>11
    <2>3. \A q \in driver : Printed(q)' \/ Coming(q)'
        BY <1>3, <1>4, <1>7, <1>11
    <2> QED
        BY <1>1, <1>5, <2>1, <2>2, <2>3 DEF Decoding
  <1> QED
      BY <1>8, <1>10, <1>12

-----------------------------------------------------------------------------
(* The theorem about keys                                                  *)

LEMMA ClearStep == KeyInv /\ [Next]_vars => Clear'
  <1> SUFFICES ASSUME KeyInv, [Next]_vars, pc' \in {"configure", "done"},
                      \E p \in driver' : Configured(p)'
               PROVE  inbuf' = <<>>
      BY DEF Clear
  <1>1. CASE UNCHANGED vars
      BY <1>1 DEF vars, hardware, ports, KeyInv, Clear, Configured
  <1>2. CASE Accept \/ AskAgain \/ GiveUp
      BY <1>2 DEF Accept, AskAgain, GiveUp
  <1>3. CASE \E p \in Ports : \/ Handle(p) \/ Emit(p)
                             \/ \E key \in Keys, release \in BOOLEAN : Type(p, key, release)
    <2>1. UNCHANGED <<inbuf, pc, port, driver>>
        BY <1>3 DEF Handle, Emit, Type, ports
    <2> QED
        BY <2>1 DEF KeyInv, Clear, Configured
  <1>4. CASE Controller \/ SelfTestFails \/ Test \/ DisableScan \/ DisabledScan
             \/ Identify \/ Identified \/ ReadInfo \/ SetType
    <2>1. pc' \notin {"configure", "done"}
        BY <1>4 DEF Controller, SelfTestFails, Test, DisableScan, DisabledScan, Identify,
                    Identified, ReadInfo, SetType, WriteAck, ReadAck, NextPort, KeyInv,
                    ProbeInv, ProbeTypes, Ports
    <2> QED
        BY <2>1
  <1>5. CASE EnableFunc
    <2>1. port' = 0 /\ pc' = "configure" /\ driver' \subseteq Ports
        BY <1>5 DEF EnableFunc, KeyInv, Configuring, ProbeInv, ProbeTypes, ports
    <2> QED
        BY <2>1 DEF Configured, Ports
  <1>6. CASE NoDriver
    <2>1. /\ pc = "configure" /\ port \notin driver /\ port \in Ports
          /\ UNCHANGED <<inbuf, driver>> /\ NextDriver /\ driver \subseteq Ports
        BY <1>6 DEF NoDriver, hardware, ports, KeyInv, ProbeInv, ProbeTypes
    <2>2. \E p \in driver : Configured(p)
      <3>1. PICK p \in driver : Configured(p)'
          BY <2>1
      <3>2. p \in Ports /\ p # port
          BY <2>1
      <3>3. port = 1 /\ p = 0
          BY <2>1, <3>1, <3>2 DEF NextDriver, Configured, Ports
      <3> QED
          BY <2>1, <3>3 DEF Configured
    <2> QED
        BY <2>1, <2>2 DEF KeyInv, Clear
  <1>7. CASE Configure \/ Send \/ SendAgain
    <2>1. pc' \in {"send", "answer"}
        BY <1>7 DEF Configure, Send, SendAgain
    <2> QED
        BY <2>1
  <1>8. CASE Answered
    <2>1. pc = "answer" /\ kb[port].last_input \notin {-1, RESEND} /\ inbuf' = inbuf
        BY <1>8 DEF Answered, hardware
    <2>2. Told
        BY <2>1 DEF KeyInv, Configuring, Asked, Replied, Refused, Lost
    <2> QED
        BY <2>1, <2>2 DEF Told
  <1> QED
      BY <1>1, <1>2, <1>3, <1>4, <1>5, <1>6, <1>7, <1>8 DEF Next, Driver

LEMMA KeyStep == ASSUME Prompt, ~Early PROVE KeyInv /\ [Next]_vars => KeyInv'
  <1> SUFFICES ASSUME KeyInv, [Next]_vars PROVE KeyInv'
      OBVIOUS
  <1>1. ProbeInv' /\ Clear'
      BY ProbeStep, ClearStep DEF KeyInv
  <1>2. CASE UNCHANGED vars
    <2>1. UNCHANGED <<attached, kb, dev, devq, printed, events, inbuf, outq, pc, port, step, driver>>
        BY <1>2 DEF vars, hardware, ports, driving
    <2>2. KeyTypes'
        BY <2>1, SameTypes DEF KeyInv
    <2>3. NoneSent <=> NoneSent'
        BY <2>1 DEF NoneSent, Gone
    <2>4. Configuring'
        BY <2>1, <2>3, SMTT(60)
        DEF KeyInv, Configuring, Configured, Asked, Replied, Refused, Told, Lost, Obeyed
    <2>5. Decoding'
        BY <2>1, <2>3 DEF KeyInv, Decoding, Printed, Coming, Arrived, LastArrived
    <2> QED
        BY <1>1, <2>2, <2>4, <2>5 DEF KeyInv
  <1>3. CASE Driver
    <2>1. KeyTypes' /\ Configuring' /\ Decoding'
        BY <1>3, ProbingKeys, EnableFuncKeys, NoDriverKeys, ConfigureKeys, SendKeys, SendAgainKeys,
           AnsweredKeys DEF Driver
    <2> QED
        BY <1>1, <2>1 DEF KeyInv
  <1>4. CASE Accept \/ AskAgain \/ GiveUp
    <2>1. KeyTypes' /\ Configuring' /\ Decoding'
        BY <1>4, AcceptKeys, AskAgainKeys, GiveUpKeys
    <2> QED
        BY <1>1, <2>1 DEF KeyInv
  <1>5. ASSUME NEW p \in Ports, Handle(p)
        PROVE  KeyInv'
    <2>1. pc \in {"answer", "done"}
      <3>1. pc \in {"configure", "send", "answer", "done"} /\ outq # <<>>
          BY <1>5, HandleDoes
      <3> QED
          BY <3>1 DEF KeyInv, Configuring
    <2>2. KeyTypes' /\ Configuring' /\ Decoding'
        BY <1>5, <2>1, HandleAnswer, HandleDone
    <2> QED
        BY <1>1, <2>2 DEF KeyInv
  <1>6. ASSUME NEW p \in Ports, Emit(p)
        PROVE  KeyInv'
    <2>1. /\ devq[p] # <<>> /\ KeyTypes'
          /\ UNCHANGED <<kb, printed, events, pc, port>>
        BY <1>6, EmitDoes
    <2>2. CASE pc \in {"answer", "done"}
      <3>1. Configuring' /\ Decoding'
          BY <1>6, <2>2, EmitAnswer, EmitDone
      <3> QED
          BY <1>1, <2>1, <3>1 DEF KeyInv
    <2>3. CASE pc \notin {"answer", "done"}
      <3>1. pc \notin {"configure", "send"} /\ (pc = "enable" => port = 0)
          BY <2>1 DEF KeyInv, Configuring
      <3>2. Configuring' /\ Decoding'
          BY <2>1, <2>3, <3>1, BeforeKeys
      <3> QED
          BY <1>1, <2>1, <3>2 DEF KeyInv
    <2> QED
        BY <2>2, <2>3
  <1>7. ASSUME NEW p \in Ports, NEW key \in Keys, NEW release \in BOOLEAN, Type(p, key, release)
        PROVE  KeyInv'
    <2>1. KeyTypes' /\ Configuring' /\ Decoding'
        BY <1>7, TypeKeys
    <2> QED
        BY <1>1, <2>1 DEF KeyInv
  <1> QED
      BY <1>2, <1>3, <1>4, <1>5, <1>6, <1>7 DEF Next

\* A sequence is a prefix of what is appended to it.
LEMMA Prefixed ==
    ASSUME NEW S, NEW s \in Seq(S), NEW e \in S, NEW f \in S
    PROVE  /\ IsPrefix(s, s) /\ IsPrefix(s, Append(s, e))
           /\ IsPrefix(s, Append(Append(s, e), f))
  <1> DEFINE t == Append(s, e)
             u == Append(t, f)
  <1>1. t \in Seq(S) /\ Len(t) = Len(s) + 1 /\ \A i \in 1..Len(s) : t[i] = s[i]
      BY AppendProperties
  <1>2. u \in Seq(S) /\ Len(u) = Len(t) + 1 /\ \A i \in 1..Len(t) : u[i] = t[i]
      BY <1>1, AppendProperties
  <1> HIDE DEF t, u
  <1>3. Len(s) \in Nat
      BY LenProperties
  <1>4. ASSUME NEW v \in Seq(S), Len(s) <= Len(v), \A i \in 1..Len(s) : v[i] = s[i]
        PROVE  IsPrefix(s, v)
    <2>1. Len(v) \in Nat
        BY LenProperties
    <2>2. SubSeq(s, 1, Len(s)) = [i \in 1..Len(s) |-> s[i]] /\ SubSeq(v, 1, Len(s)) = [i \in 1..Len(s) |-> v[i]]
        BY <1>3, <1>4, <2>1
    <2> QED
        BY <1>4, <2>2 DEF IsPrefix
  <1>5. IsPrefix(s, s)
      BY <1>3, <1>4
  <1>6. IsPrefix(s, t)
      BY <1>1, <1>3, <1>4
  <1>7. IsPrefix(s, u)
      BY <1>1, <1>2, <1>3, <1>4
  <1> QED
      BY <1>5, <1>6, <1>7 DEF t, u

\* A keyboard is put in scan code set 2, and from then on what is printed is what was
\* typed, key by key and without one key's bytes in another's.
THEOREM KeysAlwaysDecoded == ASSUME Prompt, ~Early PROVE Spec => []KeysDecoded
  <1>1. Init => KeyInv
      BY KeyInit
  <1>2. KeyInv /\ [Next]_vars => KeyInv'
      BY KeyStep
  <1>3. KeyInv => KeysDecoded
    <2> SUFFICES ASSUME KeyInv PROVE KeysDecoded
        OBVIOUS
    <2>1. SetTwo
        BY DEF KeyInv, ProbeInv, ProbeTypes, Configuring, Configured, SetTwo
    <2>2. \A p \in Ports : printed[p] \in Seq(EventSet)
        BY DEF KeyInv, KeyTypes
    <2>3. ASSUME NEW p \in Ports PROVE IsPrefix(printed[p], events[p])
      <3>1. \/ events[p] = printed[p]
            \/ \E e \in EventSet : events[p] = Append(printed[p], e)
            \/ \E e \in EventSet, f \in EventSet : events[p] = Append(Append(printed[p], e), f)
        <4>1. CASE pc # "done"
            BY <2>3, <4>1 DEF KeyInv, Configuring
        <4>2. CASE pc = "done"
            BY <2>3, <4>2 DEF KeyInv, Decoding, Printed, Coming, Arrived, LastArrived
        <4> QED
            BY <4>1, <4>2
      <3>2. \A e \in EventSet, f \in EventSet :
                /\ IsPrefix(printed[p], printed[p]) /\ IsPrefix(printed[p], Append(printed[p], e))
                /\ IsPrefix(printed[p], Append(Append(printed[p], e), f))
          BY <2>2, <2>3, Prefixed
      <3>3. \E e : e \in EventSet
          BY DEF EventSet, Keys
      <3> QED
          BY <3>1, <3>2, <3>3, Zenon
    <2>4. ASSUME pc = "done", Quiet PROVE printed = events
      <3>1. \A p \in Ports : printed[p] = events[p]
        <4>1. \A p \in Ports : Printed(p) \/ Coming(p)
            BY <2>4 DEF KeyInv, Decoding, Quiet
        <4> QED
            BY <2>4, <4>1 DEF Quiet, Printed, Coming
      <3> QED
          BY <3>1 DEF KeyInv, KeyTypes
    <2> QED
        BY <2>1, <2>3, <2>4 DEF KeysDecoded, Decoded
  <1> QED
      BY <1>1, <1>2, <1>3, PTL DEF Spec

=============================================================================
