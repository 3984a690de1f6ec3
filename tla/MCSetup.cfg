SPECIFICATION FairSpec
CONSTANTS
  NRemotes = 2
  Name = {"a", "b", "c", "u", "v", "w", "x", "y", "o", "o1", "o2"}
  DbKind <- MCKind
  Tables <- MCTables
  Definitions <- MCDefinitions
  Output = {"o"}
  Added = {"o1", "o2"}
  Instructions <- MCInstructions
  MaxAdds = 3
  MaxFaults = 2
INVARIANTS
  TypeOK
  LoadedIsComplete
  LocationsAsConfigured
  PlannedIsDefined
  AddedWhenDefined
PROPERTIES
  PageLoads
  CallsReturn
CHECK_DEADLOCK FALSE
