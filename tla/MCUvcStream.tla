----------------------------- MODULE MCUvcStream ------------------------------
(***************************************************************************)
(* A stream of two transfers: one may be answered while the other flies,   *)
(* is cancelled, deleted or could not be submitted.                        *)
(***************************************************************************)
EXTENDS UvcStream

===============================================================================
