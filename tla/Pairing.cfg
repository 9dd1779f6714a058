SPECIFICATION PairingSpec
CONSTANTS
  k1 = k1
  k2 = k2
  c1 = c1
  c2 = c2
  NoKey = NoKey
  EmptyKey = EmptyKey
  Keys <- MCKeys
  Calls <- MCCalls
  MaxDevices = 1
SYMMETRY MCSymmetry
INVARIANTS
  PairingTypeOK
  PairedRegistered
  RejectFinal
