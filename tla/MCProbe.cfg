SPECIFICATION Spec
CONSTANTS
  Chunks <- MCChunks
INVARIANTS
  ResidueReported
  RestoredIsTrue
  SupportedIsEarned
  OkMeansReleased
PROPERTY
  ReadsUnderGeometry
\* A finished run takes no further step.
CHECK_DEADLOCK FALSE
