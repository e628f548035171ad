CONSTANTS
  BUFFER_SIZE = 9
  WORD = 16
  Texts <- Letters
  Entries <- MCEntries
SPECIFICATION ProgramSpec
INVARIANTS
  BufferKept
CHECK_DEADLOCK FALSE
