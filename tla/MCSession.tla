----------------------------- MODULE MCSession -----------------------------
(* An instance of the session for TLC: one user runs transactions with     *)
(* savepoints, the other the helpers that have a transaction of their own. *)
EXTENDS Session, TLC

CONSTANTS u1, u2

Insert == Sql("insert", 1)
Procedure == Sql("call", 1)
Texts == {Insert, Procedure} \cup SavepointTexts
Queries == (u1 :> {Insert}) @@ (u2 :> {Insert, Procedure})
Apis == (u1 :> {"withTransaction"}) @@
        (u2 :> {"newStatement", "execute", "executeBatch"})
=============================================================================
