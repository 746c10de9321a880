------------------------------- MODULE MCBootTest -------------------------------
(***************************************************************************)
(* Small instances of BootTest: the countdown lasts 3 "seconds" and the    *)
(* check is made one before its end, in place of at least 10 and 8.        *)
(***************************************************************************)
EXTENDS BootTest
===============================================================================
