----------------------------- MODULE MCLoraTowers -----------------------------
(***************************************************************************)
(* LoraTowers for TLC: the constraint keeps two kinds of behaviour apart,  *)
(* so that the run covers the sum of the two and not their product:        *)
(* measurements and corrupted frames, or a session with a text to the      *)
(* server or back.                                                         *)
(***************************************************************************)
EXTENDS LoraTowers

OnlyMeasurements == texts = 0 /\ presses = 0 /\ lora[Server].wifi = "free"

Unmixed == OnlyMeasurements \/ OnlyTexts
=============================================================================
