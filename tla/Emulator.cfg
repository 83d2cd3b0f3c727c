SPECIFICATION EmulatorFairSpec
CONSTANTS
  LatencyChunks = 2
  NChunks = 3
  ChunkSize = 2
  MaxLen = 2
  MaxChunks = 4
  Program <- Programs
  Noise <- Bus
  RowBytes = 4
  LcdRows = 2
  LcdCommand = {0, 4, 37, 65}
  LcdValue = {165}
  MaxAccess = 3
  Width = 3
  Height = 2
  XcIndex = {34, 3}
  XcByte = {3, 184}
  XcStart <- Windows
  MaxXcBytes = 6
  Columns = 16
  Setup <- Setups
  Buffer <- Buffers
  Extent = {1, 2, 3, 4, 7}
  WindowSize = 2
  PerFrame = {2}
  Modulus = 8
  MaxWrites = 2
  MaxSwitches = 2
  MaxFrames = 3
  Code <- Memories
  SymLine <- SymLines
  MacroArgs <- Macros
  MacroBytes = 2
  FlagsName = "flags"
  BankSize = 4
  PageMap <- Maps
  Window = 4
  RewindLimit = 8
  Stray <- Strays
  MaxLines = 4
  Fitting = 3
  MaxAsked = 3
  Count = {1, 4}
  GoTo <- Asks
  LineBp <- Breaks
  Hw <- Hws
  Half = 2048
  LongTop = 100000
  Left = {2, 40}
  ClockSpeed = {6, 15}
  MaxRuns = 2
  Original <- Originals
  EndLength = {0, 1, 5}
  Picture = {"p", "q"}
  Contrast = {0, 20, 25}
  FrameTime = 30
  DurationTop = 70
  MinDelay = 6
  DelayTop = 16
  Speed <- Speeds
  Passed = {130}
  MaxDraws = 1
  MaxUpdates = 3
  MaxLooks = 1
  MaxMade = 2
  Depth = 2
  MaxCode = 16
  ByteBits = 2
  BLOKLEN = 8
  Image <- Rasters
INVARIANTS
  AudioTypeOK
  AudioInOrder
  PermitsCounted
  FilterOwnsChunk
  Z80Sound
  ShownRight
  FilesSound
PROPERTY
  GetReturns
CHECK_DEADLOCK FALSE
