--------------------------- MODULE MCJumpHostSlots ---------------------------
(* The instance of JumpHostSlots for TLC: see slots.cfg.                    *)
EXTENDS JumpHostSlots
=============================================================================
