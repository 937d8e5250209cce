CONSTANTS
  p1 = p1
  p2 = p2
  Procs = {p1, p2}
  Locals = {1}
  SIZE = 2
  EMPTY = EMPTY
  None = None
  GenLimit = 2
  RefLimit = 2
  TagLimit = 2
SPECIFICATION SlabSpec
SYMMETRY ProcSymmetry
INVARIANT FreeListsSound
PROPERTIES ImplementsPool HonoursListContract
CHECK_DEADLOCK FALSE
