SPECIFICATION MainSpec
CONSTANTS
  Names = {"disk4", "disk5"}
  SliceNames = {"disk4s1"}
  DiskOf <- MCDiskOf
  Media <- MCMedia
  Prefixes <- MCPrefixes
  MaxDevices = 2
  MaxEvents = 2
  Words <- MCWords
  MaxWords = 6
  Depth = 3
  EndpointCount = {2, 3, 4}
INVARIANTS
  SeizedWasAccepted
  QuietRunIsRight
  AcceptsUsage
  HoldsWhatItNeeds
\* The parser returns, the program exits, a transport fails or is gone.
CHECK_DEADLOCK FALSE
