------------------------------- MODULE MCHub -------------------------------
(* A control handler, a session on channel 1, one sender. *)
EXTENDS Hub

CONSTANTS ctrl, a, s1

MCHandler == {ctrl, a}
MCChanOf == [x \in MCHandler |-> IF x = ctrl THEN 0 ELSE 1]
MCSender == {s1}
=============================================================================
