SPECIFICATION Spec
CONSTANTS
  Document <- MCDocument
  Entity <- MCEntity
  Graph <- MCGraph
  Worker = {w1, w2}
  Anchors = {"r"}
  None = None
  Gone = Gone
INVARIANTS
  TypeOK
  OnlyOrphansArePruned
  EntitiesAreMentioned
CHECK_DEADLOCK FALSE
