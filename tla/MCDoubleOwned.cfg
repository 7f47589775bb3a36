CONSTANTS
  BootstrapPages = 5
  RealPages = 6
  StackPages = 1
  MaxSlots = 5
  RegionSizes <- Sizes
SPECIFICATION Spec
INVARIANT HeapFramesAreReserved
CHECK_DEADLOCK FALSE
