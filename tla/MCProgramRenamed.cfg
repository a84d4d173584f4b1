SPECIFICATION MainSpec
CONSTANTS
  Names = {"disk4", "disk5"}
  SliceNames = {"disk4s1"}
  DiskOf <- MCDiskOf
  Media <- TwoDrives
  Prefixes <- MCPrefixes
  MaxDevices = 2
  MaxEvents = 2
  Words <- MCWords
  MaxWords = 0
  Depth = 0
  EndpointCount = {3}
INVARIANT
  SeizedIsVerified
CHECK_DEADLOCK FALSE
