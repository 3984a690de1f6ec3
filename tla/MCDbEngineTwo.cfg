SPECIFICATION FairSpec
CONSTANTS
  Engine <- TwoEngines
  Relation <- TwoRelation
  Event = {"itx", "evA", "evB"}
  Input = {"itx"}
  ShipForEvent <- TwoShipForEvent
  Deps <- TwoDeps
  RelationsToShip <- TwoRelationsToShip
  MayBeEmpty = {}
  MaxInputs = 2
  MaxErrors = 0
  MaxLosses = 0
PROPERTIES
  ImplementsSerialEngine
CHECK_DEADLOCK FALSE
