CONSTANTS
  HDR = 1
  MINCAP = 2
  PAGE = 4
  REGIONMIN = 8
  HEAPSTART = 8
  LIMIT = 32
  WORD = 64
  FOREIGN <- NoForeign
  Initials <- MCInitials
  Queries <- HugeQueries
  MAXEPOCH = 1
SPECIFICATION Spec
INVARIANTS
  OwnedIsTaken
CHECK_DEADLOCK FALSE
