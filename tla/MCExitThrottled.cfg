CONSTANTS
  OrderCap = 1
  MaxQueue = 1
  MaxFaults = 0
  PreloadMayFail = FALSE
  StreamMayFail = FALSE
SPECIFICATION Spec
INVARIANT ExitsAreNotThrottled
