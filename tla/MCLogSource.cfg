CONSTANTS
  Files <- MCFiles
  Ranges <- MCRanges
  BufferSize = 2
  Modes = {"file", "range", "format", "stream", "archive", "gzrange", "missing"}
  PageSize = 2
  ChunkSize = 2
  MaxSize = 5
  MaxTime = 2
SPECIFICATION LogSpec
INVARIANTS
  RangeExact
  LinesExact
  FailsOnBadInput
PROPERTIES
  PushEnds
