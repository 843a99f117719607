------------------------------ MODULE SlotLimit ------------------------------
(***************************************************************************)
(* What the slot allocation of a jump host relies on: the number of slots  *)
(* a task is given as its limit is at least 1 and never above a ceiling.   *)
(* AdaptiveSlots implements it; JumpHostSlots uses it.                     *)
(***************************************************************************)
EXTENDS Naturals

CONSTANTS First,    \* the limit before any adaptation
          Ceiling   \* the largest limit; First is in 1 .. Ceiling

VARIABLE limit

Init == limit = First
Change == limit' \in 1 .. Ceiling
Spec == Init /\ [][Change]_limit
=============================================================================
