SPECIFICATION DataSpec
CONSTANTS
  Lengths <- MCLengths
  Bytes <- MCBytes
  Words16 <- MCWords16
  Word32Max = 15
  Bits = {0, 1}
  Field <- MCField
  Required = {"transfer_rate", "heads"}
  Target <- MCTarget
  ByteValues <- MCByteValues
  MaxFaults = 2
  MaxDepth = 6
  MaxCalls = 9
  MaxItems = 2
  Rooms <- MCRooms
  Token <- MCToken
  FieldBytes <- MCFieldBytes
  FieldSize = 3
  TRACK_COUNT <- MCTrackCount
  ImageLengths <- MCImageLengths
INVARIANTS
  ReadsInsideResponse
  AcceptedFits
  LoopsBounded
  MaskDecides
  RestoreExact
  ValidatorExact
  Completable
  NothingDropped
  WrittenIsReport
  TextSurvives
  RoundTrip
  TrackCopiedOnce
  CandidateFollowsOrder
\* Each of them ends: a parser returns, the test ends, a command has as many
\* wrong fields as it will get, the caller stops after MaxCalls, an emitter and
\* a string end, the reader stops after the last track.
CHECK_DEADLOCK FALSE
