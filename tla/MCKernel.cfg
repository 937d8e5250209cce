SPECIFICATION KernelSpec
CONSTANTS
  boot = boot
  irq = irq
  Contexts <- MCContexts
  SpanIds <- MCSpanIds
  ParentKinds <- MCParentKinds
  GarbledKinds <- MCGarbledKinds
  BootText <- MCBootText
  Machines <- MCMachines
  NoContext = NoContext
  CAPACITY = 2
  MAX_SPANS = 6
  MaxHandles = 1
  QUEUE_SLOTS = 16
  READ_SIZE = 3
  BACKTRACE_DEPTH = 2
  RUN_COUNT = 5
  StateFits = 2
  MaxInterrupts = 2
INVARIANTS
  InterruptsReady
  BootInOrder
  PanicReported
  HostFollowsKernel
  TextDrawnOnce
  FirstLineFits
PROPERTY
  BootEnds
CHECK_DEADLOCK FALSE
