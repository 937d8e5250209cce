----------------------------- MODULE MCSlotPool -----------------------------
(* Instances of SlotPool for TLC. *)
EXTENDS SlotPool
=============================================================================
