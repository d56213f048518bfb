SPECIFICATION SdramSpec
CONSTANTS
  VFIFO_SIZE = 8
  PHASE_MAX = 7
  DELAY_MAX = 10
  OpaTap = 50
  DTap = 12
  Bits = {0, 1, 2}
  TapMax = 7
  GroupCount = 2
  InReserve = 1
  OutReserve = 2
  LatencyMax = 31
INVARIANT
  TrackTapsOK
