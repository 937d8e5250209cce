CONSTANTS
  p1 = p1
  p2 = p2
  p3 = p3
  Procs = {p1, p2, p3}
  Locals = {1}
  SIZE = 1
  EMPTY = EMPTY
  None = None
  GenLimit = 3
  RefLimit = 2
SPECIFICATION FairPoolSpec
INVARIANTS RefProtectsValue RefCountExact NoAssertFails RemovedStaysDead SlotsOwned
PROPERTY RemovedReclaimed
CHECK_DEADLOCK FALSE
