SPECIFICATION FairSpec
CONSTANTS
  Calls <- MCCalls
  MaxChunkChars = 12
  WindowSize = 8
  Overlap = 3
  MinLength = 2
  MaxLength = 8
  Percentile = 25
  Scores = {0, 1, 2}
INVARIANTS
  TypeOK
  ChunksKeepText
  CutsObeyLimits
  WindowsCover
PROPERTIES
  ChunkingEnds
CHECK_DEADLOCK FALSE
