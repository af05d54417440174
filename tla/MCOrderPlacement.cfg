CONSTANTS
  r1 = r1
  r2 = r2
  Request <- TwoRequests
  Asks <- TwoBuys
  Near <- NearAmounts
  MaxOpenOrders = 1
  MaxOpenPerSymbol = 1
  Window = 1
  PruneAfter = 1
  ClosedKept = 0
  MaxRetries = 1
  Looks = 2
  AlikeWithin = 2
  RowsShow <- AllShown
  KeysAreUnique = TRUE
  MaxTime = 3
  MaxFaults = 1
  NoKey = NoKey
SPECIFICATION FairSpec
INVARIANTS
  TypeOK
  LiveOrdersAreKnown
  OpenOrdersAreLimited
  NoDuplicateOrders
  ResubmittedOnlyUnheard
  RecordsOwnOrder
PROPERTY EveryCallReturns
