SPECIFICATION Spec
CONSTANTS
  EventTable = {"click", "drag"}
  StaticTable = {}
  ViewOrder <- FourViews
  Programs <- ProgramsOfFour
  MaxEvents = 2
INVARIANTS
  FreshIfFound
CHECK_DEADLOCK FALSE
