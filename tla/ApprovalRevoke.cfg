SPECIFICATION Spec
CONSTANTS
  d1 = d1
  r1 = r1
  r2 = r2
  Domains <- MCDomains
  Requests <- MCRequests
  MaxRequests = 4
INVARIANT
  RevokedGone
