---------------------------- MODULE SlabConstants ----------------------------
(***************************************************************************)
(* The parameters shared by the modules that model the slab crate.         *)
(***************************************************************************)
EXTENDS Integers

CONSTANTS
  Procs,    \* the processors of the Topology
  SIZE,     \* number of slots of the slab (const generic SIZE)
  EMPTY     \* the link value u64::MAX, which no packed Entry can take

\* Slab::new asserts SIZE < 2^18, so an index always fits its bit field and no
\* packed Entry is u64::MAX.  SIZE = 0 is left out: Slab::new then makes the
\* free list start at a slot that does not exist.
ASSUME SizeAssumption == SIZE \in Nat \ {0}

Slots == 0 .. SIZE - 1

ASSUME EmptyAssumption == EMPTY \notin Slots \X Nat
=============================================================================
