------------------------------- MODULE MCPs2 --------------------------------
(* What may be plugged into the two ports, for model checking Ps2.         *)
EXTENDS Ps2

Plug(first, second) == [p \in Ports |-> IF p = 0 THEN first ELSE second]

Common == {Plug("keyboard", "mouse"), Plug("keyboard", "absent"), Plug("none", "keyboard"),
           Plug("keyboard", "keyboard"), Plug("failed", "mouse"), Plug("at", "mouse")}
=============================================================================
