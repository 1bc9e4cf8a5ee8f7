---------------------------- MODULE MCAppRuntime ----------------------------
(* Instances of AppRuntime for TLC.                                         *)
EXTENDS AppRuntime

CONSTANTS g1, g2, call1, call2

OneGen == {g1}
TwoGens == {g1, g2}
NoCalls == {}
OneCall == {call1}
NoFaults == {}
SlotFaults == {"construct", "factory", "initialize", "callbacks"}
=============================================================================
