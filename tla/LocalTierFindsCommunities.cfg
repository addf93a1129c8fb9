SPECIFICATION Spec
CONSTANTS
  a1 = a1
  a2 = a2
  b1 = b1
  b2 = b2
  x = x
  y = y
  z = z
  k = k
  Chunk <- MCChunk
  Entity <- MCEntity
  Community = {k}
  Document = {"a", "b"}
  Owner <- MCOwner
  Generations <- MCGenerations
  Mentions <- MCMentions
  Related <- MCRelated
  Members <- MCMembers
  Filters <- MCFilters
  Matching <- MCMatching
  GraphEnabled = TRUE
  Backends = {"sqlite"}
  MaxGeneration = 2
  Depth = 2
  Reranks = {FALSE}
  TopN = 2
  TopKs <- MCTopKs
  Unit <- MCUnit
  MaxChanges = 0
INVARIANTS
  LocalTierFindsCommunities
CHECK_DEADLOCK FALSE
