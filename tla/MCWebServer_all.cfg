\* Bodies of up to five units, received by four and passed on by two.
SPECIFICATION FairSpec
CONSTANTS
  ReservedNames <- MCReservedNames
  Uris <- MCUris
  Routes <- MCRoutes
  Files <- MCFiles
  ChunkSize = 2
  RecvSize = 4
  MaxBody = 5
  MaxReply = 2
INVARIANTS ReplyIsItsOwn
PROPERTIES StreamsSpec StopReturns
