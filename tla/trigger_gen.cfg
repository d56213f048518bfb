SPECIFICATION HSpec
CONSTANTS
  GenMod = 8
  PowerTao = 5
  Periods = {0, 1, 2, 3, 6, 7}
  MaxWrites = 3
INVARIANT TGTypeOK
PROPERTY PulseIsTwoTicks PeriodIsTaoPlusOne KeepsPulsing
