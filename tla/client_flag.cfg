SPECIFICATION CSpec
CONSTANTS
  StampMod = 10
  CountMod = 2
  ResetTao = 4
  Taos = {}
  AsyncPins = FALSE
PROPERTY UnflaggedIsCount
