SPECIFICATION FairSpec
CONSTANTS
  none = none
  never = never
  m1 = m1
  m2 = m2
  m3 = m3
  s1 = s1
  s2 = s2
  Memory <- MCMemory
  User = {"u"}
  None = none
  Never = never
  MaxImportance = 4
  Requested <- MCRequested
  Embedder <- MCEmbedder
  Threshold = 3
  Decayed <- MCDecayed
  Recency <- MCRecency
  RecencyWeights = {0, 3, 10}
  Window = 2
  Retention = 1
  Faults = TRUE
  Maintainer <- MCMaintainer
  MaxDay = 2
INVARIANTS
  FadingIsBounded
  RecallIsFair
PROPERTIES
  ForgottenStaysForgotten
  InvalidatedAreRemoved
CHECK_DEADLOCK FALSE
