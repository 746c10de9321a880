------------------------------ MODULE SurvivingRun ------------------------------
(***************************************************************************)
(* What a test that restarts the device promises about its run: the run    *)
(* aims at the number it was begun with whatever happens to the device, it *)
(* advances one round at a time, a restart may set it back but never       *)
(* forward, and once it is over it does not come back by itself.           *)
(***************************************************************************)
EXTENDS Naturals

CONSTANT Goals

VARIABLES goal,    \* the number of rounds of the run, 0 when there is no run
          done     \* the rounds it has made

vars == <<goal, done>>

Init == goal = 0 /\ done = 0

Begin ==
  /\ goal = 0
  /\ goal' \in Goals /\ done' = 0

Advance ==
  /\ goal > 0 /\ done < goal
  /\ done' = done + 1
  /\ UNCHANGED goal

FallBack ==
  /\ goal > 0
  /\ done' \in 0 .. done
  /\ UNCHANGED goal

End ==
  /\ goal > 0
  /\ goal' = 0 /\ done' = 0

Next == Begin \/ Advance \/ FallBack \/ End

Spec == Init /\ [][Next]_vars
===============================================================================
