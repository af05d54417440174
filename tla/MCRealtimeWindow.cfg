CONSTANTS
  OrderCap = 1
  MaxQueue = 2
  MaxFaults = 2
  PreloadMayFail = TRUE
  StreamMayFail = TRUE
SPECIFICATION FairSpec
INVARIANTS
  TypeOK
  EntriesPerWindow
  NoReentryAfterExit
  OnePosition
PROPERTY StopIsActedOn
