CONSTANTS
  a = a
  b = b
  Garbled = Garbled
  Peer <- MCPeer
  Partner <- MCPartner
  Segments <- MCSegments
  SegmentSize <- MCSegmentSize
  MaskWidth = 2
  MIN_MTU = 1
  MTU_STEP = 1
  CHECK_MTU_TIMEOUT = 3
  MAX_MTU = 4
  SEND_TIMEOUT = 1
  PROCESS_TIMEOUT = 0
  PathMtu = 2
  Message = {1, 2}
  Refused = {2}
  IndexLimit = 4
  MaxMessages <- OneWay2
  WritesFail = TRUE
  MaxTicks = 2
  MaxInFlight = 1
SPECIFICATION Spec
CHECK_DEADLOCK FALSE
INVARIANTS MtuSafe
