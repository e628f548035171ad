SPECIFICATION Spec
CONSTANTS
  LIMIT = 95
  PAGE = 8
  START_BRK = 8
  MMAP_START = 64
  NSMALLBINS = 5
  LargeSizes <- TheLargeSizes
  global_max_fast = 4
  DEFAULT_MMAP_THRESHOLD = 16
  DEFAULT_TRIM_THRESHOLD = 16
  a = a
  b = b
  Threads = {a, b}
  Worlds <- TheWorlds
  PTRDIFF_MAX = 40
  WORD = 1024
  FASTBIN_CONSOLIDATION_THRESHOLD = 12
  DEFAULT_MMAP_THRESHOLD_MAX = 24
  MMAP_AS_MORECORE_SIZE = 8
  tcache_max = 6
  TCACHE = 5
  MAX_ITERS = 3
INVARIANT
  ProceedsWithoutFailing
