------------------------------- MODULE MCSlab -------------------------------
(* Instances of Slab for TLC. *)
EXTENDS Slab, TLC

ProcSymmetry == Permutations(Procs)
=============================================================================
