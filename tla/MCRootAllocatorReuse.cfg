CONSTANTS
  MemoryMaps <- SmallMaps
  Counts <- Sizes
  RUN_COUNT = 4
  Builds = {TRUE}
SPECIFICATION AllocatorSpec
INVARIANT NeverReinitializes
CHECK_DEADLOCK FALSE
