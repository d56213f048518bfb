SPECIFICATION HSpec
CONSTANTS
  StampMod = 8
  CountMod = 4
  ResetTao = 7
  Taos = {1, 2, 4}
  AsyncPins = FALSE
  GenMod = 8
  PowerTao = 2
  TrigPeriods = {1, 7}
  SimPeriods = {1, 3}
  WarmResets = {FALSE}
  BusGap = 3
  FreeEdges = {FALSE}
INVARIANT AcqTypeOK InOrderOnce
PROPERTY FlagsOnceSettled SimulatedCount
