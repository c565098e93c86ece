SPECIFICATION FairSpec
CONSTANTS
  MaxBuffer = 2
  MaxInit = 1
  MaxDeltaCap = 2
  Capacity = 2
  MaxLags = 5
  SinkDrops = FALSE
  MaxOutput = 4
  MaxOther = 0
PROPERTIES StaysLive
CHECK_DEADLOCK FALSE
