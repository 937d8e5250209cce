------------------------------- MODULE MCGlobal -------------------------------
(* Instances of Global for TLC. *)
EXTENDS Global

CONSTANTS t1, t2, t3
ThreeThreads == {t1, t2, t3}
=============================================================================
