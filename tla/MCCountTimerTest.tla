--------------------------- MODULE MCCountTimerTest ---------------------------
(* Instances of CountTimerTest.                                            *)
EXTENDS CountTimerTest

AllKinds    == {"airplane", "wifi", "bluetooth", "network"}
NonNegative == 0 .. 2
===============================================================================
