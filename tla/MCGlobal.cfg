CONSTANTS
  t1 = t1
  t2 = t2
  t3 = t3
  Uninit = Uninit
  None = None
  Threads <- ThreeThreads
  Boot = t1
  BootOrders = {TRUE, FALSE}
SPECIFICATION GlobalSpec
INVARIANT NoUninitReadInOrder
PROPERTY WrittenOnce
CHECK_DEADLOCK FALSE
