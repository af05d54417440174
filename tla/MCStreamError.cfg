CONSTANTS
  OrderCap = 1
  MaxQueue = 1
  MaxFaults = 0
  PreloadMayFail = FALSE
  StreamMayFail = TRUE
SPECIFICATION FairSpec
PROPERTY StopIsNeverMissed
