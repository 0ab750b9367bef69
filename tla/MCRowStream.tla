---------------------------- MODULE MCRowStream ----------------------------
(* An instance of the row stream for TLC: two blob columns.                *)
EXTENDS RowStream, TLC

CONSTANTS c1, c2

Columns == {c1, c2}
=============================================================================
