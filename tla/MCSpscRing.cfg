CONSTANTS
  Message = {"a", "b"}
  Capacity = 2
  USIZE = 4
SPECIFICATION FairSpec
INVARIANTS
  NoDataRace
PROPERTIES
  ImplementsFifo
  NeitherStuck
