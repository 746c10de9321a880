------------------------------ MODULE LatestFrame -------------------------------
(***************************************************************************)
(* What a place that keeps only the newest frame promises to the thread    *)
(* that takes frames from it: it may miss frames, and be given one again   *)
(* or, before the first, none at all, but it is never given one that is    *)
(* older than the last it was given, nor one nobody has made.              *)
(***************************************************************************)
EXTENDS Naturals

VARIABLES made,   \* the number of the newest frame, 0 when there is none
          shown   \* the number of the frame that was given last

vars == <<made, shown>>

Init == made = 0 /\ shown = 0

Make ==
  /\ made' \in Nat /\ made' > made
  /\ UNCHANGED shown

Show ==
  /\ shown' \in shown .. made
  /\ UNCHANGED made

Next == Make \/ Show

Spec == Init /\ [][Next]_vars
===============================================================================
