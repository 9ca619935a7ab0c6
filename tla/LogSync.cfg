SPECIFICATION SyncSpec
CONSTANTS
  MaxRounds = 12
  Half = 2
  Node <- Three
  Founder <- Two
  Id <- Id5
  Payload <- PayOrJoin
  Clock <- OneTime
  MaxWrites <- MemberAndJoiner
  MaxRestarts = 1
  Genesis <- Chain
  Neighbor <- Line
  EarlyUse = FALSE
  MaxPending = 0
  MaxBreaks = 1
INVARIANTS ApprovalsAreEarned
PROPERTY EventuallySynced
CHECK_DEADLOCK FALSE
