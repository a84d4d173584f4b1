SPECIFICATION StackSpec
CONSTANTS
  Codes <- MCCodes
  Keys <- MCKeys
  Commands <- MCCommands
  PipeReturns <- MCPipeReturns
INVARIANTS
  PhaseLossMarksEngine
CHECK_DEADLOCK FALSE
