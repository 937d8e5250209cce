--------------------------- MODULE MCGlobalFreeList ---------------------------
(* Instances of GlobalFreeList for TLC. *)
EXTENDS GlobalFreeList
=============================================================================
