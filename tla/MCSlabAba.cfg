CONSTANTS
  p1 = p1
  p2 = p2
  p3 = p3
  Procs = {p1, p2, p3}
  Locals = {1}
  SIZE = 2
  EMPTY = EMPTY
  None = None
  GenLimit = 2
  RefLimit = 1
  TagLimit = 2
SPECIFICATION SlabSpec
SYMMETRY ProcSymmetry
INVARIANT AllocatesFreeSlot
CHECK_DEADLOCK FALSE
