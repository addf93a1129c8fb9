SPECIFICATION FairSpec
CONSTANTS
  RawName = {"Ann Lee", "ann  lee", "Bob", " "}
  NormalName <- MCNormalName
  Length <- MCLength
  RawType = {"person", ""}
  NormalType <- MCNormalType
  Description = {0, 5, 9}
  RawWeight <- MCRawWeight
  Chunks = 2
  MaxItems = 2
  MinEntities = 3
  MaxIterations = 100
  MaxPasses = 10
  BatchSize = 2
  GainParts = 10000
  Given <- MCGiven
INVARIANTS
  TypeOK
  GraphIsStorable
  BookkeepingExact
  CommunitiesAreConnected
  CommunitiesPlaceNames
PROPERTIES
  AnalysisEnds
CHECK_DEADLOCK FALSE
