SPECIFICATION FairSpec
CONSTANTS
  MaxHandles = 2
  MaxKeys = 2
  MaxLoops = 2
  MaxSends = 1
  MaxData = 2
CHECK_DEADLOCK FALSE
INVARIANTS
  TypeOK
  SessionConsistent
  ReaderAlive
PROPERTY
  NoResurrection
  AcceptedInOrder
  StoppedLoopsEnd
