CONSTANTS
  BUFFER_SIZE = 3
  WORD = 16
  Texts <- Pairs
  Entries <- MCEntries
SPECIFICATION ProgramSpec
INVARIANTS
  NumberAsWritten
CHECK_DEADLOCK FALSE
