SPECIFICATION HeartbeatFairSpec
CONSTANTS
  Interval = 15
  Timeouts <- LongTimeouts
  Latency = 2
  Horizon = 1
  MaxMissed = 4
PROPERTY
  DeadPhoneDeclared
