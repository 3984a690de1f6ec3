SPECIFICATION RuntimeSpec
CONSTANTS
  Engine = {2}
  Relation <- UiRelation
  Event = {"itx", "brush", "evA", "evB"}
  Input = {"itx", "brush"}
  ShipForEvent <- UiShipForEvent
  Deps <- UiDeps
  RelationsToShip <- UiRelationsToShip
  MayBeEmpty = {"itx", "evA"}
  MaxInputs = 2
  MaxErrors = 0
  MaxLosses = 0
  Output = {"chartA", "list"}
  Source <- UiSource
  RunsOn <- UiRunsOn
  StaticShip <- StaticA
  MayHide = {"evA"}
  MaxCallbacks = 1
  MaxBinds = 2
INVARIANTS
  RuntimeTypeOK
  OutputsCurrent
  ShippedWithinNesting
CHECK_DEADLOCK FALSE
