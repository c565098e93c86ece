SPECIFICATION FairSpec
CONSTANTS
  MaxBuffer = 2
  MaxInit = 1
  MaxDeltaCap = 2
  Capacity = 1
  MaxLags = 2
  SinkDrops = TRUE
  MaxOutput = 5
  MaxOther = 3
INVARIANTS TypeOK ScreenContiguous
PROPERTIES OutputHandedOver
CHECK_DEADLOCK FALSE
