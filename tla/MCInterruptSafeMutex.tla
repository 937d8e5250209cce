------------------------ MODULE MCInterruptSafeMutex ------------------------
(* Instances of InterruptSafeMutex for TLC. *)
EXTENDS InterruptSafeMutex
=============================================================================
