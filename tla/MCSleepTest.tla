----------------------------- MODULE MCSleepTest ------------------------------
(***************************************************************************)
(* The sleep test with none, one and three rounds.  The counters need no   *)
(* bound: a run ends at its target, and the user wakes the device twice.   *)
(***************************************************************************)
EXTENDS SleepTest

MCTargets == {0, 1, 3}
===============================================================================
