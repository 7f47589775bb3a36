CONSTANTS
  Principal = {p1, p2}
  Resource = {0, 1, 2}
  Permission = {"read", "write", "delegate"}
  Scope <- MCScope
  CoveredBy <- MCCoveredBy
  MaxTokens = 3
  MaxIssued = 1
  MaxTime = 1
  MaxPorts = 2
  Requests <- MCRequests
  Capacity = 1
SYMMETRY Principals
SPECIFICATION Spec
INVARIANTS
  AuthorityIsRooted
  AuthorityComesFromOwner
  SendersWereGranted
PROPERTIES
  RefusalIsFinal
