--------------------------- MODULE MCAdaptiveSlots ---------------------------
(* The instance of AdaptiveSlots for TLC: see adaptive.cfg.                 *)
EXTENDS AdaptiveSlots
=============================================================================
