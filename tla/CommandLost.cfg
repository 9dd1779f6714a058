SPECIFICATION FairSpec
CONSTANTS
  c1 = c1
  c2 = c2
  p1 = p1
  Commands <- MCCommands
  Pings <- MCPings
  None = None
  MAX_RETRIES = 2
  ROTATION_THRESHOLD = 5
  MaxRestarts = 0
CHECK_DEADLOCK FALSE
PROPERTY
  EveryCommandSettles
