------------------------- MODULE MCScheduleProjection -------------------------
(* Model-checking instances of ScheduleProjection.                         *)
EXTENDS ScheduleProjection

CONSTANTS r1, r2, d1, d2

\* r2 runs on an older tz database and cannot build d2's trigger.
OldZones == {<<r2, d2>>}
=============================================================================
