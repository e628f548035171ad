CONSTANTS
  HDR = 1
  MINCAP = 2
  PAGE = 4
  REGIONMIN = 8
  HEAPSTART = 8
  LIMIT = 36
  WORD = 64
  FOREIGN <- LifeForeign
  Initials <- MCInitials
  Queries <- LifeQueries
  MAXEPOCH = 1
SPECIFICATION Spec
INVARIANTS
  NothingLost
CHECK_DEADLOCK FALSE
