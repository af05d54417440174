CONSTANTS
  r1 = r1
  r2 = r2
  Request <- TwoRequests
  Asks <- BuyThenSell
  Near <- NearAmounts
  MaxOpenOrders = 1
  MaxOpenPerSymbol = 1
  Window = 1
  PruneAfter = 1
  ClosedKept = 0
  MaxRetries = 1
  Looks = 2
  AlikeWithin = 1
  RowsShow <- AllShown
  KeysAreUnique = TRUE
  MaxTime = 2
  MaxFaults = 0
  NoKey = NoKey
SPECIFICATION Spec
INVARIANT SellRefusedOnlyWhileOrderOpen
