----------------------------- MODULE MCUvcPreview -----------------------------
(***************************************************************************)
(* A preview that is started twice: the capture thread of the first start  *)
(* may go on beside that of the second.                                    *)
(***************************************************************************)
EXTENDS UvcPreview

===============================================================================
