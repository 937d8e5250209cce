CONSTANTS
  p1 = p1
  p2 = p2
  Procs = {p1, p2}
  SIZE = 2
  EMPTY = EMPTY
  TagLimit = 4
SPECIFICATION FairListSpec
INVARIANT ListInv
PROPERTIES ImplementsStack CallsReturn
CHECK_DEADLOCK FALSE
