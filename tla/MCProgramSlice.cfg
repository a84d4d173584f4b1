SPECIFICATION MainSpec
CONSTANTS
  Names = {"disk4", "disk5"}
  SliceNames = {"disk4s1"}
  DiskOf <- MCDiskOf
  Media <- WithSlice
  Prefixes <- MCPrefixes
  MaxDevices = 2
  MaxEvents = 0
  Words <- MCWords
  MaxWords = 0
  Depth = 0
  EndpointCount = {3}
INVARIANT
  MountedNeverSeized
CHECK_DEADLOCK FALSE
