----------------------------- MODULE MCFbEvents -----------------------------
(* Instances of the event manager for TLC.                                 *)
EXTENDS FbEvents, TLC

CONSTANTS e1, e2, c1, c2, c3

OneEvent == {e1}
TwoEvents == {e1, e2}
ThreeChanges == {c1, c2, c3}
TwoChanges == {c1, c2}
=============================================================================
