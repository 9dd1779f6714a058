SPECIFICATION HandlersSpec
CONSTANTS
  t1 = t1
  t2 = t2
  None = None
  a1 = a1
  a2 = a2
  a3 = a3
  a4 = a4
  a5 = a5
  d1 = d1
  r1 = r1
  r2 = r2
  h1 = h1
  h2 = h2
  Tabs <- MCTabs
  Tuples <- MCTuples
  Domains <- MCDomains
  Requests <- MCRequests
  Headers <- MCHeaders
  ReplayWindow = 1
  MaxCache = 4
  LimitWindow = 1
  MaxHits = 1
  MaxReserving = 2
  MaxRequests = 4
  MaxPublished = 1
INVARIANTS
  TypesOK
  AssertionOnce
  LockGuarded
  ApprovedHasScript
  RegistrationExclusive
  ActiveConnected
  ImportedCurrent
  WaitersServed
PROPERTIES
  SwitchEnds
  LockReleased
