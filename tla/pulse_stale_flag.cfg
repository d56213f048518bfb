SPECIFICATION HSpec
CONSTANTS
  StampMod = 16
  CountMod = 1
  ResetTao = 4
  Taos = {}
  AsyncPins = FALSE
PROPERTY FlagMeansTrigger
