----------------------------- MODULE MCRecoveryTest -----------------------------
(***************************************************************************)
(* The instances of RecoveryTest that are checked; their bounds are in the *)
(* configurations.                                                         *)
(***************************************************************************)
EXTENDS RecoveryTest
===============================================================================
