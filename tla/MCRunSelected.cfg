SPECIFICATION RunSpec
CONSTANTS
  Chunks <- MCChunks
  Blocks <- MCBlocks
INVARIANTS
  ExitZeroKeepsPromises
  NoTruncatedImage
PROPERTIES
  ForeignFileUntouched
  ProgramExits
\* An exited or killed process takes no further step.
CHECK_DEADLOCK FALSE
