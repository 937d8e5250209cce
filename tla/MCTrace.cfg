SPECIFICATION TraceSpec
CONSTANTS
  c1 = c1
  c2 = c2
  Contexts <- MCContexts
  SpanIds <- MCSpanIds
  Payloads <- MCPayloads
  ParentKinds <- MCParentKinds
  MaxHandles = 1
  GarbledKinds <- MCGarbledKinds
  BootText <- MCBootText
  NoContext = NoContext
  CAPACITY = 2
  MAX_SPANS = 1
  QUEUE_SLOTS = 2
  READ_SIZE = 3
  MaxMessages = 3
CHECK_DEADLOCK FALSE
INVARIANTS
  SpansCounted
  WrittenInOrder
  HostShowsWritten
  BootTextPassedOn
PROPERTY
  WorkerDrains
