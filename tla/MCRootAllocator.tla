--------------------------- MODULE MCRootAllocator ---------------------------
(* Instances of RootAllocator for TLC. *)
EXTENDS RootAllocator

U(start, size) == [usable |-> TRUE, start |-> start, size |-> size]
R(start, size) == [usable |-> FALSE, start |-> start, size |-> size]

\* One region; adjacent regions; a region too small for the tracking space first,
\* unordered and partly overlapping ones; no region large enough;
\* more regions than runs.
BootMaps == {
  <<U(0, 8)>>,
  <<R(0, 1), U(1, 4), U(5, 1), R(6, 1), U(7, 2)>>,
  <<U(9, 1), R(2, 1), U(3, 5), U(6, 3)>>,
  <<U(0, 3), U(4, 3)>>,
  <<U(0, 4), U(5, 1), U(7, 1), U(9, 1), U(11, 1)>> }

SmallMaps == {<<U(0, 6)>>}

\* A usable region inside another one.
NestedMaps == {<<U(0, 8), U(3, 2)>>}

Sizes == 1 .. 3
=============================================================================
