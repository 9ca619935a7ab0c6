CONSTANTS
  a = a
  b = b
  p1 = p1
  p2 = p2
  Node <- Both
  Path <- OnePath
  Ends <- MCEnds
  MaxSessions = 4
  MaxFailures = 0
  MaxErrors = 0
  MaxDoubles = 0
  MaxInFlight = 1
SPECIFICATION FairSpec
PROPERTIES HalfOpenEnds CrossedEnds
