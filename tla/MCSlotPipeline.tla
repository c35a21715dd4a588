--------------------------- MODULE MCSlotPipeline ---------------------------
(* Small instances of SlotPipeline for TLC.  Liveness is checked together  *)
(* with safety, so slots and languages are not declared symmetric.         *)
EXTENDS SlotPipeline

=============================================================================
