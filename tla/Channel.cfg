SPECIFICATION ChannelSpec
CONSTANTS
  m1 = m1
  m2 = m2
  m3 = m3
  m4 = m4
  c1 = c1
  c2 = c2
  p1 = p1
  Msgs <- MCMsgs
  Size <- MCSize
  HIGH_WATER_MARK = 3
  DRAIN_THRESHOLD = 1
  MaxSize = 3
  MaxClears = 2
  Commands <- MCCommands
  Pings <- MCPings
  None = None
  MAX_RETRIES = 2
  ROTATION_THRESHOLD = 2
  MaxRestarts = 1
  Interval = 5
  Timeouts <- MCTimeouts
  Latency = 1
  Horizon = 26
  MaxMissed = 4
CHECK_DEADLOCK FALSE
INVARIANTS
  NoStrandedPayload
  PendingBytesExact
  BufferBounded
  TypeOK
  ResponseMatches
  NoOrphan
  NoFalseAlarm
  DetectionBound
PROPERTIES
  ImplementsOrderedDelivery
  EverySendSettles
  LoneCommandSettles
