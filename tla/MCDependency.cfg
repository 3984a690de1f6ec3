SPECIFICATION Spec
CONSTANTS
  EventTable = {"click"}
  StaticTable = {"flights"}
  View = {v1, v2, v3}
  Reads <- OneOrTwo
  MaxRunning = 1
SYMMETRY ViewsAlike
INVARIANTS
  DependentsExact
  ReadAfterDefined
  OriginalsOfTrees
CHECK_DEADLOCK FALSE
