SPECIFICATION Spec
SYMMETRY Symmetry
CONSTANTS
  w1 = w1
  w2 = w2
  Worker <- MCWorker
  Path = {"p", "q"}
  Content <- MCContentWithBlank
  Entity = {"ann", "bob", "cy"}
  Named <- MCNamesakes
  ChunkCount <- MCChunkCount
  Embedded <- MCEmbeddedShort
  Graph <- MCGraph
  DeleteByPath = FALSE
  MaxDocuments = 3
  Extractor = TRUE
  MinEntities = 2
  Faults = TRUE
  MaxRuns = 3
INVARIANTS
  StoreIsSound
  SettledDocumentsConsistent
  OrphansAreTransient
  ReportsHonestly
  CountsAreOfOneVersion
PROPERTIES
  OneDocumentPerTransaction
  ImplementsSearchableContent
CHECK_DEADLOCK FALSE
