CONSTANTS
  INT_MAX = 100000
  Sources <- MCSources
  Arguments <- MCArguments
  Inputs <- MCInputs
  amout_of_iters = 2
SPECIFICATION ToolsSpec
INVARIANTS
  TargetConforms
CHECK_DEADLOCK FALSE
