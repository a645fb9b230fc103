SPECIFICATION LibrarySpec
CONSTANTS
  Bytes <- MCBytes
  Junk = Junk
  ChunkSize = 2
  InitialSize = 1
  MaxLen = 3
  MaxCapacity = 7
  Span = 3
  Silence = 2
  Threshold = 2
  Interval = 2
  MaxSeconds = 6
  MaxPerSec = 2
  Utf8 = {"k"}
  NotUtf8 = {"x"}
  MapKeys = {"k", "x"}
  MaxOps = 4
  Lengths = {0, 125, 126, 65535, 65536}
  RequiredBytes = 20
  HandshakeBytes = 24
  MaxFrames = 3
  BlockSize = 6
  LowWords = 7
  HighWords = 3
  MaxChunk = 6
  MaxPieces <- MCPieces
  DesBlock = 3
  l1 = l1
  l2 = l2
  Loggers = {l1, l2}
  Levels = {2, 5}
  PANIC = 5
  FileLevels = {0}
  DayTicks = 2
  ZoneTicks = 1
  MonthDays = 2
  MaxLines = 2
  MaxTime = 2
  MaxSetup = 0
SYMMETRY LoggerSymmetry
INVARIANTS
  TypeOK
  InBounds
  NeverUndercounts
  NoLineInAnOldFile
  BacklogWritten
  ParsesBack
  ConcatenationMerges
  PrefixIsLength
  KeepsItsPlace
  PaddedAsStandard
  RoundTrip
  Utf8UpToRange
  RequestEndsOnce
PROPERTIES
  IsByteQueue
  SilenceIsReal
CHECK_DEADLOCK FALSE
