-------------------------- MODULE MCFlattenDrive ---------------------------
(* A small instance of FlattenDrive for TLC.                               *)
EXTENDS FlattenDrive

CONSTANTS cli, l1, l2
OneOperator == {cli}
TwoLiquidations == {l1, l2}
=============================================================================
