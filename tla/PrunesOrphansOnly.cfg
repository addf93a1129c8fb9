SPECIFICATION Spec
CONSTANTS
  Document <- MCDocument
  Entity <- MCEntity
  Graph <- MCGraph
  Worker = {w1, w2}
  Anchors = {}
  None = None
  Gone = Gone
INVARIANTS
  OnlyOrphansArePruned
CHECK_DEADLOCK FALSE
