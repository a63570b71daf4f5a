----------------------------- MODULE MCConsole ------------------------------
(* Messages for model checking Console.                                    *)
EXTENDS Console

OneLine == {<<"a", NL>>, <<"b", "c">>}
OneKey == <<"k">>
Stopped == <<NL, "p">>
TwoPorts == <<"COM1", "COM2">>
=============================================================================
