SPECIFICATION FairSpec
CONSTANTS
  none = none
  None = none
  Name <- MCName
  Version = {1, 2}
  Calls = {"sync", "directory", "batch"}
  Under <- MCName
  Batch <- MCBatch
  Supported = {"a.md", "b.md"}
  Matching = {"a.md", "b.md", "c.bin"}
  Unreadable = {}
  MaxConcurrent = 2
  MaxChanges = 1
INVARIANTS
  TypeOK
  IngestedAreStored
  IndexMirrorsDirectory
  ReportIsFaithful
PROPERTIES
  SeenFilesStayIndexed
  CallReturns
CHECK_DEADLOCK FALSE
