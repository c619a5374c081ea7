--------------------------- MODULE MCOrderLedger ---------------------------
(* Small instances of OrderLedger for TLC.                                 *)
EXTENDS OrderLedger

CONSTANTS o1, o2
OneOrder == {o1}
TwoOrders == {o1, o2}
EngineOnly == {"engine"}
EngineAndSync == {"engine", "sync"}
=============================================================================
