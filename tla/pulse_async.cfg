SPECIFICATION HSpec
CONSTANTS
  StampMod = 8
  CountMod = 2
  ResetTao = 4
  Taos = {}
  AsyncPins = TRUE
PROPERTY EveryPhotonCounted
