SPECIFICATION AudioSpec
CONSTANTS
  LatencyChunks = 2
  NChunks = 3
  ChunkSize = 2
  MaxLen = 2
  MaxChunks = 4
INVARIANT
  FilterWhenDevice
CHECK_DEADLOCK FALSE
