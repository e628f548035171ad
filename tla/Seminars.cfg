\* cpu-reordering.c: rounds.  semaphore.c: sessions, each with what the last
\* one has left in the semaphores.  pipes.c: a pipe that holds half of the
\* changes.  task05.c: each word three times.  heap-1.c: six blocks, requests
\* for every size up to one that never fits.
CONSTANTS
  ITERS = 3
  SIZE = 2
  Values = {0, 5}
  MAXCHANGES = 2
  MAXSTARTS = 3
  arr0 <- MCarr
  CAP = 2
  MAXWRITES = 4
  LENGTH <- MCLength
  PRINTS = 3
  HEAP_BLOCKS = 6
  Sizes = {1, 2, 3, 7}
SPECIFICATION SeminarsSpec
INVARIANTS
  NeverReordered
  RoundsApart
  OneTokenPerSession
  NothingLeftUnread
  WordsWhole
  HeldWhole
  NothingLost
  SearchRight
PROPERTIES
  Terminates
  SequentiallyConsistent
  Answered
  Echoes
  NobodyWaits
  PipeEchoes
  AllIsPrinted
CHECK_DEADLOCK FALSE
