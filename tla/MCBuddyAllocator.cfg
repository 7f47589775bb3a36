CONSTANTS
  MAX_ORDER = 2
  TotalPages = 11
  BlockPages <- MCBlockPages
SPECIFICATION Spec
INVARIANTS
  BlocksDisjoint
  PagesConserved
  FullyCoalesced
  RestoresSeed
PROPERTIES
  ImplementsArena
