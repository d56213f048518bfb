SPECIFICATION CSpec
CONSTANTS
  StampMod = 9
  CountMod = 2
  ResetTao = 4
  Taos = {1, 2, 3}
  AsyncPins = FALSE
INVARIANT PCTypeOK
PROPERTY ImplementsStream StampLaw StampsDropOnlyAfterFlag TakenTriggerIsFlagged CutsAfterFlag
