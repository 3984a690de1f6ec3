CONSTANTS
  EventTable = {"l", "h"}
  Value = {1, 2}
  NewRows <- MCNewRows
  LocalRelation <- MCLocalRelation
  EventsOf <- MCEventsOf
  Passing <- MCPassing
  Columns <- MCColumns
  EventView = {"a", "b"}
  LocalRefs <- MCLocalRefs
  DbOf <- MCDbOf
  MaxEvents = 4
  MaxExtras = 1
SPECIFICATION FairSpec
CHECK_DEADLOCK FALSE
INVARIANTS
  TypeOK
  AnswersRight
  OneAnswer
  ShownIsCurrent

  
