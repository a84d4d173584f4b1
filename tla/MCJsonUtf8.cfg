SPECIFICATION StringSpec
CONSTANTS
  MaxDepth = 6
  MaxCalls = 9
  MaxItems = 2
  Rooms <- MCRooms
  Token <- MCToken
  FieldBytes <- MCFieldBytes
  FieldSize = 2
INVARIANT
  StringIsJson
\* A string ends.
CHECK_DEADLOCK FALSE
