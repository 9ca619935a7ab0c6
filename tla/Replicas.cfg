SPECIFICATION FairSpec
CONSTANTS
  Bits = 4
  Polynomial = {0, 1}
  CellBytes = 2
  MIN_HORCRUX = 2
  GENERATE_HORCRUX = 3
  n1 = n1
  n2 = n2
  Node = {n1, n2}
  Writer = n1
  Objects <- SmallObjects
  Quota <- SmallQuota
  MaxFailures = 1
  MaxRestarts = 1
  MaxLosses = 1
  MaxPending = 1
INVARIANTS
  TypeOK
  AnnouncedIsThere
  ReadIsObject
PROPERTIES
  EventuallyRead
CHECK_DEADLOCK FALSE
