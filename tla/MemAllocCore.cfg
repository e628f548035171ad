CONSTANTS
  HDR = 1
  MINCAP = 2
  PAGE = 4
  REGIONMIN = 8
  HEAPSTART = 8
  LIMIT = 40
  WORD = 64
  FOREIGN <- MCForeign
  Initials <- MCInitials
  Queries <- MCQueries
  MAXEPOCH = 1
SPECIFICATION Spec
INVARIANTS
  TypeOK
  HeapWhole
  BlocksFillRegions
  ListIsChain
  OwnedIsTaken
  GrowOnlyWhenNeeded
  GrowSuffices
PROPERTIES
  KeepsPromise
CHECK_DEADLOCK FALSE
