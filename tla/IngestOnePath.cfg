SPECIFICATION FairSpec
CONSTANTS
  w1 = w1
  w2 = w2
  Worker <- MCWorker
  Path = {"p"}
  Content <- MCContentWithBlank
  Entity = {"ann", "bob", "cy"}
  Named <- MCNamesakes
  ChunkCount <- MCChunkCount
  Embedded <- MCEmbeddedShort
  Graph <- MCGraph
  DeleteByPath = TRUE
  MaxDocuments = 0
  Extractor = TRUE
  MinEntities = 2
  Faults = FALSE
  MaxRuns = 4
PROPERTIES
  CallsReturn
CHECK_DEADLOCK FALSE
