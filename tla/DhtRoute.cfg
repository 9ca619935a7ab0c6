SPECIFICATION FairSpec
CONSTANTS
  Bits = 2
  Node <- Three
  Absent <- Nobody
  Link <- Line
  MAX_NODES = 1
  GoodPings = 1
  PingRange = 2
  HopRange = 16
  FindCount = 70
  MaxHops = 1
  MaxSessions <- Sessions
  Lookup <- Nobody
  Target <- Nobody
  MaxSends = 1
  MaxInFlight = 0
  MaxFailed = 0
  LosesFailed = FALSE
INVARIANTS  NeighborsAreDirect PassedOnwards
PROPERTIES  DataEnds
CHECK_DEADLOCK FALSE
