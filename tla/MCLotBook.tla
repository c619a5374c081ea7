----------------------------- MODULE MCLotBook -----------------------------
(* Small instances of LotBook for TLC: an entry, its exit leg and a flatten *)
(* liquidation; or an entry and a liquidation.                              *)
EXTENDS LotBook

CONSTANTS entry, exit, flatten, s1, none

EntryExitFlatten == {entry, exit, flatten}
EntryFlatten == {entry, flatten}
Entries == {entry}
Nothing == {}
StrategyOf == [o \in Orders |-> IF o = flatten THEN none ELSE s1]
ExitOfOne == [o \in Orders |-> IF o = exit THEN 1 ELSE 2]
EntryOfTwo == [o \in Orders |-> IF o = entry THEN 2 ELSE 1]
One == [o \in Orders |-> 1]
=============================================================================
