CONSTANTS
  Principal = {1, 2}
  Resource = {"heap"}
  Permission = {"read", "write", "create", "delegate"}
  Scope = {"heap"}
  CoveredBy <- MCCoveredBy
  MaxTokens = 2
  MaxTime = 0
  Frame = {f1, f2, f3}
  PAGE_SIZE = 2
  Size = {0, 1, 3}
  MaxAddr = 4
  MaxRegions = 2
SYMMETRY Frames
SPECIFICATION MemorySpec
INVARIANTS
  MappedOnce
  RegionsAreMapped
