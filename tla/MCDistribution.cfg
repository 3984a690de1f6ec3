CONSTANTS
  DbType <- MCDbType
  RelationLocation <- MCRelationLocation
  EventTable = {"e"}
  Table = {"t"}
  Programs <- MCPrograms
  Additions <- MCAdditions
  MaxRunning = 1
SPECIFICATION Spec
CHECK_DEADLOCK FALSE
INVARIANTS
  ReadsDefined
  PlannedOnce
  ShipmentsExpected
  EventsReachTheirViews
  BoundOutputsAreFed
  AnswersHaveTables
