CONSTANTS
  Principal = {1, 2}
  Resource = {"heap"}
  Permission = {"read", "write", "create", "delegate"}
  Scope = {"heap"}
  CoveredBy <- MCCoveredBy
  MaxTokens = 2
  MaxTime = 0
  Frame = {f1}
  PAGE_SIZE = 2
  Size = {3}
  MaxAddr = 4
  MaxRegions = 2
SPECIFICATION MemorySpec
INVARIANT NoPageIsLost
