--------------------------- MODULE MCPoolCluster ---------------------------
(* Instances of the cluster for TLC.                                       *)
EXTENDS PoolCluster, TLC

CONSTANTS a, b, g1, g2, g3

Both == {a, b}
ThreeGets == {g1, g2, g3}
TwoGets == {g1, g2}
AnyPattern == {{a, b}, {b}}
All == {{a, b}}
=============================================================================
