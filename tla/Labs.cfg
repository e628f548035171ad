CONSTANTS
  INT_MAX = 100000
  Sources <- MCSources
  Arguments <- MCArguments
  Inputs <- MCInputs
  amout_of_iters = 2
  BUFFER_SIZE = 3
  WORD = 16
  Texts <- MCTexts
  Entries <- MCEntries
SPECIFICATION LabsSpec
INVARIANTS
  RotatesClockwise
  TargetReadsBack
  NothingLeaked
  TargetKept
  FiltersAgree
  ToolsAgree
  WordReadWhole
  NumbersRight
  AnsweredRight
PROPERTIES
  EndsUnlessItWaits
CHECK_DEADLOCK FALSE
