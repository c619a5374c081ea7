------------------------- MODULE MCFlattenSchedule -------------------------
(* Small instances of FlattenSchedule for TLC: two sessions and the start *)
(* of a day without one.                                                   *)
EXTENDS FlattenSchedule

FirstTwo == {1, 2}
(* On the second day an amended close meets no failing tick and none that   *)
(* is suspended; on the first it meets both.                                *)
FirstDayHasAll == DayOf(now) = 2 /\ close = Early => history.errors = 0 /\ ~history.torn
=============================================================================
