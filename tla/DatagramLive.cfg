CONSTANTS
  a = a
  b = b
  Garbled = Garbled
  Peer <- MCPeer
  Partner <- MCPartner
  Segments <- MCSegments
  SegmentSize <- MCSegmentSize
  MaskWidth = 2
  MIN_MTU = 1
  MTU_STEP = 1
  CHECK_MTU_TIMEOUT = 1
  MAX_MTU = 4
  SEND_TIMEOUT = 1
  PROCESS_TIMEOUT = 1
  PathMtu = 1
  Message = {1, 2}
  Refused = {}
  IndexLimit = 3
  MaxMessages <- OneWay2
  WritesFail = FALSE
  MaxTicks = 0
  MaxInFlight = 1
SPECIFICATION FairSpec
CHECK_DEADLOCK FALSE
INVARIANTS TypeOK NoLoss HeadExpected
PROPERTY ChannelSpec
PROPERTY EventuallyDelivered
PROPERTY EventuallyReleased
