------------------------------- MODULE MCPool -------------------------------
(* Instances of the pool for TLC.                                          *)
EXTENDS Pool, TLC

CONSTANTS r1, r2, r3

Three == {r1, r2, r3}
Interchangeable == Permutations(Three)
OneDestroy == {"d1"}
TwoDestroys == {"d1", "d2"}
=============================================================================
