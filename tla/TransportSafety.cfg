CONSTANTS
  a = a
  b = b
  p1 = p1
  p2 = p2
  Node <- Both
  Path <- TwoPaths
  Ends <- MCEnds
  MaxSessions = 3
  MaxFailures = 1
  MaxErrors = 1
  MaxDoubles = 1
  MaxInFlight = 2
SPECIFICATION Spec
INVARIANTS TypeOK BlockedHasNoSession  OneAcceptedPerPartner
SYMMETRY Symmetry
CHECK_DEADLOCK FALSE
