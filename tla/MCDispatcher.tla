---------------------------- MODULE MCDispatcher ----------------------------
(* Small instances of the dispatcher for TLC.                               *)
EXTENDS DispatcherProperties

CONSTANTS a, b, c

NoMounts  == [n \in NodeSets |-> {}]
OneMount  == [n \in NodeSets |-> IF n = a THEN {"w0:/etc"} ELSE {}]
TwoMounts == [n \in NodeSets |-> IF n = a THEN {"w0:/etc", "w1:/opt"} ELSE {}]
=============================================================================
