CONSTANTS
  EventTable = {"l", "h"}
  Value = {1, 2}
  NewRows <- MCNewRows
  LocalRelation = {"low", "high"}
  EventsOf <- PairEventsOf
  Passing <- PairPassing
  Columns <- PairColumns
  EventView = {"a"}
  LocalRefs <- PairLocalRefs
  DbOf <- PairDbOf
  MaxEvents = 4
  MaxExtras = 0
SPECIFICATION Spec
CHECK_DEADLOCK FALSE
INVARIANTS
  RightAnswers
