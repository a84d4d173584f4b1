SPECIFICATION StackFairSpec
CONSTANTS
  Codes <- MCCodes
  Keys <- MCKeys
  Commands <- MCCommands
  PipeReturns <- MCPipeReturns
INVARIANTS
  RefcountExact
  OwnCompletion
  ArmedOnlyDuringReset
  DestroyReleases
PROPERTIES
  PendingKeptUntilClose
  RecoveryResynchronises
  StackCallsReturn
\* A destroyed transport takes no further call.
CHECK_DEADLOCK FALSE
