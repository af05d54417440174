CONSTANTS
  btc = btc
  eth = eth
  Symbol <- Coins
  Price <- Prices
  Scale = 36
  Lot = 7
  Deposits = {28, 120}
  Multiplier = {100}
  CashUsage = 95
  Targets = 1
  Buffer = 20
  Fee = 10
  ChanceMin = 10
  LeastSell = 14
  MinTotal = 10
  MinOrder = 20
  MaxOrder = 27
  MaxExposure = 27
  MaxDailyLoss = 10
  MaxOpenOrders = 1
  StopLoss = 20
  TakeProfit = 100
  TrailingArm = 20
  TrailingStop = 20
  MaxOrders = 3
  MaxFaults = 1
SPECIFICATION Spec
INVARIANTS
  TypeOK
  ExposureIsLimited
  BuyIsCovered
  LossStopsEntries
PROPERTIES
  NoStopIsPassedOver
  ExitsPassTheRules
