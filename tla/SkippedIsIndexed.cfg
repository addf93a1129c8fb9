SPECIFICATION Spec
CONSTANTS
  w1 = w1
  w2 = w2
  Worker <- MCOneWorker
  Path = {"p"}
  Content <- MCContent
  Entity = {"ann", "bob", "cy"}
  Named <- MCNamed
  ChunkCount <- MCChunkCount
  Embedded <- MCEmbeddedAll
  Graph <- MCGraph
  DeleteByPath = FALSE
  MaxDocuments = 0
  Extractor = FALSE
  MinEntities = 3
  Faults = TRUE
  MaxRuns = 3
INVARIANTS
  SkippedIsIndexed
CHECK_DEADLOCK FALSE
