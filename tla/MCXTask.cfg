SPECIFICATION XTaskSpec
CONSTANTS
  p1 = p1
  p2 = p2
  Invocations <- MCInvocations
  Nobody = Nobody
INVARIANTS
  QemuOwned
  CleanedUp
  SessionIntact
  TestVerdict
PROPERTY
  InvocationEnds
CHECK_DEADLOCK FALSE
