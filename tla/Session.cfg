SPECIFICATION Spec
CONSTANTS
  c1 = c1
  c2 = c2
  Calls <- MCCalls
  TTL = 2
  IDLE = 1
  MaxTime = 4
  MaxSessions = 2
  MaxCrashes = 1
SYMMETRY MCSymmetry
PROPERTY
  ServedFresh
  ClearFinal
