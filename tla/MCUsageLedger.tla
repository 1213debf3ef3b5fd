---------------------------- MODULE MCUsageLedger ----------------------------
(* Two attempts recorded by two commands at once.                          *)
EXTENDS UsageLedger

CONSTANTS c1, c2, a1, a2

MCPath == [a \in Attempt |-> <<"all">>]
MCBaseline == [a \in Attempt |-> 4]
=============================================================================
