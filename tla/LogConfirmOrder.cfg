SPECIFICATION Spec
CONSTANTS
  MaxRounds = 12
  Half = 2
  Node <- Four
  Founder <- Four
  Id <- Id16
  Payload <- PayPaid
  Clock <- OneTime
  MaxWrites <- TwiceByTwo
  Genesis <- Genesis4
INVARIANTS DatabaseIsNotCorrupted
CHECK_DEADLOCK FALSE
