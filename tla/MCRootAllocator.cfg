CONSTANTS
  MemoryMaps <- BootMaps
  Counts <- Sizes
  RUN_COUNT = 5
  Builds = {TRUE, FALSE}
SPECIFICATION AllocatorSpec
INVARIANTS
  RunListsInStep
  AllUsableTracked
  FailsOnlyWithoutGap
PROPERTY ImplementsPages
CHECK_DEADLOCK FALSE
