------------------------------- MODULE MCWire -------------------------------
(* Instances of the response queue for TLC.                                *)
EXTENDS Wire, TLC

CONSTANTS o1, o2, o3

Two == {o1, o2}
Three == {o1, o2, o3}
=============================================================================
