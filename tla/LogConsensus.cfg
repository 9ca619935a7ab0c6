SPECIFICATION Spec
CONSTANTS
  MaxRounds = 12
  Half = 2
  Node <- Three
  Founder <- Three
  Id <- Id10
  Payload <- PayOrVote
  Clock <- OneTime
  MaxWrites <- OneEach
  Genesis <- Genesis3
INVARIANTS ProposedIsReplay ConfirmedIsReplay NeverOverdrawn RowsAreReplay ConsensusIsClosed LeafsAreFrontier Agreement EveryBlockIsSaved
CHECK_DEADLOCK FALSE
