SPECIFICATION ScsiSpec
CONSTANT
  Depth = 3
INVARIANT
  NothingLeaks
PROPERTY
  ScsiImplementsTransport
\* A NULL or destroyed transport takes no further call.
CHECK_DEADLOCK FALSE
