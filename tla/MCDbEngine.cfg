SPECIFICATION FairSpec
CONSTANTS
  Engine <- OneEngine
  Relation <- OneRelation
  Event = {"itx", "brush", "evA", "evB"}
  Input = {"itx", "brush"}
  ShipForEvent <- OneShipForEvent
  Deps <- OneDeps
  RelationsToShip <- OneRelationsToShip
  MayBeEmpty = {"sel", "evB"}
  MaxInputs = 3
  MaxErrors = 1
  MaxLosses = 1
INVARIANTS
  TypeOK
  HeadIsLowest
  EvaluatedInOrder
  WaitingValuesComplete
  SnapshotAtTimestep
  WakeUpPending
PROPERTIES
  QueueDrains
CHECK_DEADLOCK FALSE
