SPECIFICATION RuntimeFairSpec
CONSTANTS
  Engine = {2}
  Relation <- UiRelation
  Event = {"itx", "brush", "evA", "evB"}
  Input = {"itx", "brush"}
  ShipForEvent <- UiShipForEvent
  Deps <- UiDeps
  RelationsToShip <- UiRelationsToShip
  MayBeEmpty = {"itx"}
  MaxInputs = 3
  MaxErrors = 0
  MaxLosses = 0
  Output = {"chartA", "list"}
  Source <- UiSource
  RunsOn <- UiRunsOn
  StaticShip <- NoStatic
  MayHide = {}
  MaxCallbacks = 0
  MaxBinds = 2
PROPERTIES
  AnswersInOrder
  EventuallyAnswered
  ImplementsDbEngine
CHECK_DEADLOCK FALSE
