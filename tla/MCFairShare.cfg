CONSTANTS
  BOOT_PID = 4
  MaxVruntime = 3
SPECIFICATION FairSpec
INVARIANTS
  LagIsBounded
PROPERTIES
  NoStarvation
