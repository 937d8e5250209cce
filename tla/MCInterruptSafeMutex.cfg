CONSTANTS
  p1 = p1
  p2 = p2
  Processors = {p1, p2}
  LockCount = 2
  AnyDropOrder = FALSE
SPECIFICATION MutexFairSpec
INVARIANTS
  HeldWithInterruptsOff
  NoHandlerDeadlock
  FlagRestored
  MutexInv
PROPERTY LockReleased
