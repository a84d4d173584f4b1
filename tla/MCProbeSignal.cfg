SPECIFICATION Spec
CONSTANTS
  Chunks <- MCChunks
INVARIANTS
  InterruptNeverSuppressesRestore
CHECK_DEADLOCK FALSE
