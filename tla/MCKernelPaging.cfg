CONSTANTS
  BootstrapPages = 5
  RealPages = 6
  StackPages = 1
  MaxSlots = 5
  RegionSizes <- Sizes
SPECIFICATION Spec
INVARIANTS
  FramesUsedOnce
  NoFrameIsLost
  TlbCoherent
  PrivatePageIsPrivate
  TasksSeeTheKernel
  ChecksPass
CHECK_DEADLOCK FALSE
