\* Two lives of a heap; at first HEAP_START is somebody else's page.
CONSTANTS
  HDR = 1
  MINCAP = 2
  PAGE = 4
  REGIONMIN = 8
  HEAPSTART = 8
  LIMIT = 36
  WORD = 64
  FOREIGN <- Premapped
  Initials <- MCInitials
  Queries <- WideQueries
  MAXEPOCH = 2
SPECIFICATION Spec
INVARIANTS
  OthersStayMapped
PROPERTIES
  CallsReturn
CHECK_DEADLOCK FALSE
