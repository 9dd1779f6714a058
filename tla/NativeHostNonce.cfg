SPECIFICATION Spec
CONSTANTS
  MaxHandles = 1
  MaxKeys = 1
  MaxLoops = 1
  MaxSends = 2
  MaxData = 0
CHECK_DEADLOCK FALSE
INVARIANT
  NonceUnique
