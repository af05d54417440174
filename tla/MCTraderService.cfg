CONSTANTS
  btc = btc
  eth = eth
  xrp = xrp
  Symbol <- Markets
  Include <- Named
  Exclude <- Shunned
  MaxSymbols = 2
  Ranks = {0, 1}
  MaxReading = 1
  Holdable <- Coins
  Configured = btc
  Wanted <- Coins
  MaxFaults = 1
SPECIFICATION FairSpec
INVARIANTS
  TypeOK
  PauseOvertakenOnce
  ExcludedNotEntered
  JobsEndWithTheirWindow
PROPERTIES
  HeldAreWatched
  SignalEndsService
