SPECIFICATION Spec
CONSTANTS
  d1 = d1
  d2 = d2
  d3 = d3
  Devices <- MCDevices
  None = None
  MAX_DEVICES = 2
  MaxCrashes = 1
  MaxReconciles = 2
  MaxFails = 2
  MaxRevokes = 1
SYMMETRY MCSymmetry
INVARIANTS
  CopiesWellFormed
  DurableMembership
  ActiveRegistered
