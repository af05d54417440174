------------------------------ MODULE Position ------------------------------
(***************************************************************************)
(* The money behind the orders of src/core/trading-system.js: how much a   *)
(* BUY spends (resolveBuyAmountFromCash), when a position is given up      *)
(* (resolveProtectiveExit and the peaks it keeps), the rules that compare  *)
(* amounts (src/engine/risk-engine.js) and the equity from which the loss  *)
(* of a day is counted (resolveDailyPnl).                                  *)
(*                                                                         *)
(* Money is counted in one small unit, a price in units, and a quantity in *)
(* pieces such that Scale pieces are worth their price. Shares of a whole  *)
(* are hundredths. A job looks at one tick, decides, is judged and then    *)
(* submitted; RealtimeWindow has the order of jobs and the throttles, and  *)
(* OrderPlacement what becomes of a submission.                            *)
(***************************************************************************)
EXTENDS Integers, FiniteSetsExt

CONSTANTS
  Symbol,            \* coins traded against KRW
  Price,             \* prices a tick may show, for each symbol
  Scale,             \* pieces of a coin that are worth its price
  Lot,               \* pieces in the last decimal of strategy.sellAllQtyPrecision
  Deposits,          \* KRW there may be at the start
  Multiplier,        \* signalRiskMultiplier times the multiplier of the overlay
  CashUsage,         \* strategy.cashUsagePct, above 0
  Targets,           \* targetConcurrentSymbols
  Buffer,            \* risk.buyCashBufferBps
  Fee,               \* what the exchange charges
  ChanceMin,         \* risk.chanceMinTotalKrw
  LeastSell,         \* the 5,000 KRW that a SELL is worth at least
  MinTotal,          \* min_total of the exchange, for either side
  MinOrder,          \* risk.minOrderNotionalKrw
  MaxOrder,          \* risk.maxOrderNotionalKrw
  MaxExposure,       \* risk.maxExposureKrw
  MaxDailyLoss,      \* risk.maxDailyLossKrw
  MaxOpenOrders,     \* risk.maxOpenOrders; one per symbol
  StopLoss, TakeProfit, TrailingArm, TrailingStop,
  MaxOrders,         \* bound: orders accepted
  MaxFaults          \* bound: lost answers, failed reads, crashes

ASSUME SharesAssumption ==
  /\ {CashUsage, Buffer, Fee, StopLoss, TakeProfit,
      TrailingArm, TrailingStop} \subseteq 0 .. 100
  /\ CashUsage > 0 /\ Multiplier \subseteq Nat /\ Targets \in Nat \ {0}

ASSUME AmountsAssumption ==
  /\ {ChanceMin, LeastSell, MinOrder, MaxOrder, MaxExposure, MaxDailyLoss}
       \subseteq Nat \ {0}
  /\ Deposits \subseteq Nat /\ MinTotal \in Nat /\ {Scale, Lot} \subseteq Nat \ {0}
  /\ Price \in [Symbol -> SUBSET (Nat \ {0})]
  /\ \A s \in Symbol : \A p \in Price[s] : Scale % p = 0

ASSUME BoundsAssumption ==
  /\ IsFiniteSet(Symbol) /\ {MaxOpenOrders, MaxOrders, MaxFaults} \subseteq Nat

VARIABLES
  price,     \* the latest price of each symbol
  cash,      \* KRW not locked in an order
  qty,       \* pieces of each symbol not locked in an order
  cost,      \* quantity, locked or not, times avg_buy_price
  orders,    \* orders open on the exchange
  accepted,  \* orders accepted so far
  seen,      \* the account as it was last read
  cached,    \* is it still in _accountContextCache?
  age,       \* what has happened to the account since it was read (history)
  peak,      \* state.system.holdingPeaks
  high,      \* highest price above cost since the position was bought (history)
  baseline,  \* state.settings.dailyPnlBaseline of today, or NoBaseline
  lost,      \* by how much it exceeded the equity at cost when it was taken,
             \* and the losses and fees realised since (history)
  job,       \* the job that runs
  unheard,   \* orders whose answer was lost (history)
  blind,     \* was an account ever not readable? (history)
  faults     \* faults so far

purse == <<cash, qty, cost>>
market == <<price, purse, orders, accepted>>
reading == <<seen, cached, age, blind>>
day == <<baseline, lost>>
peaks == <<peak, high>>
vars == <<market, reading, day, peaks, job, unheard, faults>>

Whole == 100
NoJob == [symbol |-> "none"]
NoBaseline == -1

(* The fee of a trade, rounded up.                                         *)
FeeOf(amount) == (amount * Fee + Whole - 1) \div Whole
Of(s, side) == {o \in orders : o.symbol = s /\ o.side = side}
SizeOf(os) == MapThenSumSet(LAMBDA o : o.size, os)
Buys == {o \in orders : o.side = "buy"}
Higher(x, y) == IF x < y THEN y ELSE x

(* GET /v1/accounts, as calculateAccountMetrics reads it: what is free,    *)
(* what is locked in open orders, and avgBuyPrice (as the cost).           *)
Account ==
  [cash |-> cash,
   locked |-> MapThenSumSet(LAMBDA o : o.size + FeeOf(o.size), Buys),
   qty |-> qty,
   all |-> [s \in Symbol |-> qty[s] + SizeOf(Of(s, "sell"))],
   cost |-> cost]

Nothing == [cash |-> 0, locked |-> 0, qty |-> [s \in Symbol |-> 0],
            all |-> [s \in Symbol |-> 0], cost |-> [s \in Symbol |-> 0]]

(* Mutant: only what is locked in orders is counted.                       *)
ExposureLocked(a) ==
  MapThenSumSet(LAMBDA s : IF a.qty[s] < a.all[s] THEN a.cost[s] ELSE 0, Symbol)

(* The equity of the rules is cash, locked or not, and positions at cost;  *)
(* evaluateMarkToMarket takes what is not locked at its ticker, and at     *)
(* cost where there is none.                                               *)
Exposure(a) == MapThenSumSet(LAMBDA s : a.cost[s], Symbol)
CashKrw(a) == a.cash + a.locked
EquityKrw(a) == CashKrw(a) + Exposure(a)
OpenValue(a, s, p) == a.qty[s] * p
EquityMtm(a, unpriced) ==
  CashKrw(a) + MapThenSumSet(
    LAMBDA s : IF a.all[s] = 0 THEN 0
               ELSE IF s \in unpriced THEN (a.cost[s] * a.qty[s]) \div a.all[s]
               ELSE OpenValue(a, s, price[s]) \div Scale, Symbol)

Init ==
  /\ price \in {shown \in [Symbol -> UNION {Price[s] : s \in Symbol}] :
                \A s \in Symbol : shown[s] \in Price[s]}
  /\ cash \in Deposits
  /\ qty = [s \in Symbol |-> 0] /\ cost = [s \in Symbol |-> 0]
  /\ orders = {} /\ accepted = 0
  /\ seen = Nothing /\ cached = FALSE /\ age = "older" /\ blind = FALSE
  /\ peak = [s \in Symbol |-> 0] /\ high = [s \in Symbol |-> 0]
  /\ baseline = NoBaseline /\ lost = 0
  /\ job = NoJob /\ unheard = 0 /\ faults = 0

(* loadAccountContext: the cache, or the exchange, or, when that does not  *)
(* answer, the last reading on disk.                                       *)
Load(a) ==
  \/ cached /\ a = seen /\ UNCHANGED <<reading, faults>>
  \/ /\ ~cached /\ a = Account
     /\ seen' = a /\ cached' = TRUE /\ age' = "now"
     /\ UNCHANGED <<blind, faults>>
  \/ /\ ~cached /\ a = seen /\ faults < MaxFaults
     /\ blind' = TRUE /\ faults' = faults + 1
     /\ UNCHANGED <<seen, cached, age>>
-----------------------------------------------------------------------------
(* A tick: resolveProtectiveExit, then the signal.                         *)

(* Price against avgBuyPrice, which is cost * Scale / all.                 *)
FallsBy(share, a, s, p) == p * a.all[s] * Whole <= a.cost[s] * Scale * (Whole - share)
RisesBy(share, a, s, p) == p * a.all[s] * Whole >= a.cost[s] * Scale * (Whole + share)
DropsBy(share, top, p) == p * Whole <= top * (Whole - share)

(* There is something to give up, and it is not dust.                      *)
Guarded(a, s, p) ==
  a.qty[s] > 0 /\ a.cost[s] > 0 /\ OpenValue(a, s, p) >= ChanceMin * Scale

ShouldExit(a, s, p, top) ==
  /\ Guarded(a, s, p)
  /\ \/ StopLoss > 0 /\ FallsBy(StopLoss, a, s, p)
     \/ TakeProfit > 0 /\ RisesBy(TakeProfit, a, s, p)
     \/ /\ TrailingStop > 0 /\ DropsBy(TrailingStop, Higher(top, p), p)
        /\ IF TrailingArm > 0 THEN RisesBy(TrailingArm, a, s, p) ELSE ~FallsBy(0, a, s, p)

(* The peak counts prices above avgBuyPrice, and is never taken back.      *)
Gains(a, s, p) == Guarded(a, s, p) /\ ~FallsBy(0, a, s, p)

(* Mutant: the peak of what the position is worth.                         *)
NextPeakValue(a, s, p) ==
  IF Gains(a, s, p) THEN Higher(peak[s], OpenValue(a, s, p)) ELSE peak[s]

(* Mutant: the latest price is kept, not the highest.                      *)
NextPeakLatest(a, s, p) == IF Gains(a, s, p) THEN p ELSE peak[s]

NextPeak(a, s, p) == IF Gains(a, s, p) THEN Higher(peak[s], p) ELSE peak[s]

Track(a, s) ==
  /\ peak' = [peak EXCEPT ![s] = NextPeak(a, s, price[s])]
  /\ high' = [high EXCEPT ![s] = IF Gains(a, s, price[s]) THEN Higher(@, price[s]) ELSE @]

(* hasBlockingSinglePosition: the symbol is held, and not as dust.         *)
SinglePosition(a, s, p) == a.qty[s] > 0 /\ OpenValue(a, s, p) >= MinOrder * Scale

(* Mutant: without the buffer for the fee.                                 *)
SpendableAll(a) == a.cash

Spendable(a) == (a.cash * (Whole - Buffer)) \div Whole

(* resolveBuyAmountFromCash: a share of the free cash, rounded, within     *)
(* what is spendable, the exposure left, an order's limit and, with several*)
(* symbols, the symbol's share of the equity.                              *)
BuyAmount(a, s, multiplier) ==
  LET base == a.cash * CashUsage * multiplier
      adjusted == (2 * base + Whole * Whole) \div (2 * Whole * Whole)
      allocation == EquityKrw(a) \div Targets - a.cost[s]
  IN  Min({Higher(1, adjusted), Spendable(a),
           Higher(0, MaxExposure - Exposure(a)), MaxOrder}
            \cup IF Targets > 1 THEN {Higher(0, allocation)} ELSE {})

Decided(s, side, size, cause) ==
  job' = [symbol |-> s, side |-> side, size |-> size, price |-> price[s],
          cause |-> cause, judged |-> FALSE]

(* A SELL sells what is not locked, cut off to sellAllQtyPrecision         *)
(* (resolveSellOrderAmount), unless that is worth less than the least SELL *)
(* (sell_notional_below_min).                                              *)
Floored(q) == q - (q % Lot)
SellFloor == Higher(ChanceMin, LeastSell)
Sellable(a, s, p) == Floored(a.qty[s]) * p >= SellFloor * Scale

PrepareSell(a, s, cause) ==
  IF Sellable(a, s, price[s])
  THEN Decided(s, "sell", Floored(a.qty[s]), cause) ELSE UNCHANGED job

PrepareBuy(a, s) ==
  \E multiplier \in Multiplier :
    LET amount == BuyAmount(a, s, multiplier)
    IN  IF amount > 0 /\ a.cash >= amount /\ ~SinglePosition(a, s, price[s])
        THEN Decided(s, "buy", amount, "signal") ELSE UNCHANGED job

Tick(s) ==
  /\ job = NoJob
  /\ \E a \in {seen, Account} :
       /\ Load(a)
       /\ Track(a, s)
       /\ IF ShouldExit(a, s, price[s], peak[s]) THEN PrepareSell(a, s, "exit")
          ELSE PrepareSell(a, s, "signal") \/ PrepareBuy(a, s) \/ UNCHANGED job
  /\ UNCHANGED <<market, day, unheard>>
-----------------------------------------------------------------------------
(* placeOrder: the rules, and the submission.                              *)

(* resolveDailyPnl: the first equity of the day, whoever comes with it.    *)
Measure(equity) ==
  IF baseline = NoBaseline /\ equity > 0
  THEN baseline' = equity /\ lost' = equity - EquityKrw(Account)
  ELSE UNCHANGED day

(* Mutant: a loss counts as a profit.                                      *)
DailyPnlReversed(equity) == IF equity <= 0 THEN 0 ELSE baseline' - equity
DailyPnl(equity) == IF equity <= 0 THEN 0 ELSE equity - baseline'

Known(os) == {o \in os : o.heard}

(* MAX_OPEN_ORDERS, and one order per symbol.                              *)
AtOpenLimit(s) ==
  \/ Cardinality(Known(orders)) >= MaxOpenOrders
  \/ Known(Of(s, "buy") \cup Of(s, "sell")) # {}

Worth == IF job.side = "buy" THEN job.size * Scale ELSE job.size * job.price

(* appliedMinNotional.                                                     *)
AppliedMin == Higher(MinOrder, MinTotal)

(* Mutant: dust is what protective exits leave alone.                      *)
DustLiquidationBelow(a) ==
  LET holding == OpenValue(a, job.symbol, job.price)
  IN  /\ job.side = "sell" /\ 0 < holding /\ holding <= ChanceMin * Scale
      /\ Worth * 20 >= holding * 19

(* isDustLiquidationSell: nearly all of a position too small to be ordered.*)
DustLiquidation(a) ==
  LET holding == OpenValue(a, job.symbol, job.price)
  IN  /\ job.side = "sell" /\ 0 < holding /\ holding <= AppliedMin * Scale
      /\ Worth * 20 >= holding * 19

Allowed(a) ==
  /\ ~AtOpenLimit(job.symbol)
  /\ Worth >= AppliedMin * Scale \/ DustLiquidation(a)
  /\ job.side = "buy" =>
       /\ job.size <= MaxOrder
       /\ Exposure(a) + job.size <= MaxExposure
       /\ CashKrw(a) >= job.size
       /\ DailyPnl(EquityKrw(a)) > -MaxDailyLoss
  /\ job.side = "sell" => 0 < Worth /\ Worth <= OpenValue(a, job.symbol, job.price)

(* evaluateRiskForOrder reads the account anew and measures the day.       *)
Judge(a) == job # NoJob /\ ~job.judged /\ Load(a) /\ Measure(EquityKrw(a))

Pass ==
  /\ \E a \in {seen, Account} : Judge(a) /\ Allowed(a)
  /\ job' = [job EXCEPT !.judged = TRUE]
  /\ UNCHANGED <<market, peaks, unheard>>

Refuse ==
  /\ \E a \in {seen, Account} : Judge(a) /\ ~Allowed(a)
  /\ job' = NoJob
  /\ UNCHANGED <<market, peaks, unheard>>

(* The exchange locks what the order needs. An answer that is heard makes  *)
(* the order a record and the cached account invalid.                      *)
Accept(heard) ==
  /\ job # NoJob /\ job.judged /\ accepted < MaxOrders
  /\ orders' = orders \cup {[symbol |-> job.symbol, side |-> job.side,
                             size |-> job.size, heard |-> heard]}
  /\ orders' # orders
  /\ IF job.side = "buy"
     THEN cash' = cash - job.size - FeeOf(job.size) /\ cash' >= 0 /\ UNCHANGED qty
     ELSE /\ qty' = [qty EXCEPT ![job.symbol] = @ - job.size]
          /\ qty'[job.symbol] >= 0 /\ UNCHANGED cash
  /\ accepted' = accepted + 1
  /\ age' = "older"
  /\ job' = NoJob
  /\ UNCHANGED <<price, cost, seen, blind, day, peaks>>

Answered == Accept(TRUE) /\ cached' = FALSE /\ UNCHANGED <<unheard, faults>>

AnswerLost ==
  /\ Accept(FALSE) /\ faults < MaxFaults
  /\ faults' = faults + 1 /\ unheard' = unheard + 1
  /\ UNCHANGED cached

Declined ==
  /\ job # NoJob /\ job.judged
  /\ job' = NoJob
  /\ UNCHANGED <<market, reading, day, peaks, unheard, faults>>

(* evaluateMarkToMarket, before a round of windows.                        *)
MarkToMarket ==
  /\ job = NoJob
  /\ \E a \in {seen, Account}, unpriced \in SUBSET Symbol :
       Load(a) /\ Measure(EquityMtm(a, unpriced))
  /\ UNCHANGED <<market, peaks, job, unheard>>
-----------------------------------------------------------------------------
(* The exchange, the time and the end of a process.                        *)

(* The account is no longer what was read.                                 *)
Changed == age' = IF age = "older" THEN "older" ELSE "filled"

(* An order is filled at the price of the moment; the fee comes out of     *)
(* what was locked for it, or off the proceeds; the average cost stays.    *)
FillBuy(o) ==
  /\ o.side = "buy"
  /\ orders' = orders \ {o}
  /\ qty' = [qty EXCEPT ![o.symbol] = @ + (o.size * Scale) \div price[o.symbol]]
  /\ cost' = [cost EXCEPT ![o.symbol] = @ + o.size]
  /\ lost' = lost + FeeOf(o.size)
  /\ Changed
  /\ UNCHANGED <<price, cash, accepted, seen, cached, blind, baseline,
                 peaks, job, unheard, faults>>

FillSell(o) ==
  LET s == o.symbol
      all == Account.all[s]
      proceeds == (o.size * price[s]) \div Scale
      left == (cost[s] * (all - o.size)) \div all
  IN  /\ o.side = "sell"
      /\ orders' = orders \ {o}
      /\ cash' = cash + proceeds - FeeOf(proceeds)
      /\ cost' = [cost EXCEPT ![s] = left]
      /\ lost' = lost + (cost[s] - left) - proceeds + FeeOf(proceeds)
      /\ high' = [high EXCEPT ![s] = IF all = o.size THEN 0 ELSE @]
      /\ Changed
      /\ UNCHANGED <<price, qty, accepted, seen, cached, blind, baseline,
                     peak, job, unheard, faults>>

Cancelled(o) ==
  /\ orders' = orders \ {o}
  /\ IF o.side = "buy"
     THEN cash' = cash + o.size + FeeOf(o.size) /\ UNCHANGED qty
     ELSE qty' = [qty EXCEPT ![o.symbol] = @ + o.size] /\ UNCHANGED cash
  /\ Changed
  /\ UNCHANGED <<price, cost, accepted, seen, cached, blind, day,
                 peaks, job, unheard, faults>>

(* The price moves.                                                        *)
Trade(s) ==
  /\ price' \in {[price EXCEPT ![s] = p] : p \in Price[s]} \ {price}
  /\ UNCHANGED <<purse, orders, accepted, reading, day, peaks, job, unheard, faults>>

CacheExpires ==
  /\ cached /\ cached' = FALSE
  /\ UNCHANGED <<market, seen, age, blind, day, peaks, job, unheard, faults>>

NewDay ==
  /\ baseline # NoBaseline
  /\ baseline' = NoBaseline /\ lost' = 0
  /\ UNCHANGED <<market, reading, peaks, job, unheard, faults>>

Crash ==
  /\ faults < MaxFaults /\ faults' = faults + 1
  /\ job' = NoJob /\ cached' = FALSE
  /\ UNCHANGED <<market, seen, age, blind, day, peaks, unheard>>

Next ==
  \/ \E s \in Symbol : Tick(s) \/ Trade(s)
  \/ Pass \/ Refuse \/ Answered \/ AnswerLost \/ Declined
  \/ MarkToMarket
  \/ \E o \in orders : FillBuy(o) \/ FillSell(o) \/ Cancelled(o)
  \/ CacheExpires \/ NewDay \/ Crash

Spec == Init /\ [][Next]_vars
-----------------------------------------------------------------------------
(* The variables keep their types: money and quantities are never          *)
(* negative, and at most one order per symbol is open and on record (the   *)
(* rules for open orders in risk-engine.js:44).                            *)
TypeOK ==
  /\ \A s \in Symbol : /\ price[s] \in Price[s]
                        /\ {peak[s], high[s]} \subseteq Price[s] \cup {0}
  /\ cash \in Nat
  /\ qty \in [Symbol -> Nat] /\ cost \in [Symbol -> Nat]
  /\ \A o \in orders : /\ o.symbol \in Symbol /\ o.side \in {"buy", "sell"}
                        /\ o.size \in Nat \ {0}
  /\ \A s \in Symbol : Cardinality(Known({o \in orders : o.symbol = s})) <= 1
  /\ accepted \in 0 .. MaxOrders /\ faults \in 0 .. MaxFaults /\ unheard \in 0 .. faults
  /\ cached \in BOOLEAN /\ blind \in BOOLEAN /\ age \in {"now", "filled", "older"}
  /\ baseline \in Nat \cup {NoBaseline} /\ lost \in Int
  /\ job = NoJob \/ job.symbol \in Symbol

(* The money in positions and in open BUYs stays within maxExposureKrw and *)
(* one order per order that may be open at a time: the rule compares the   *)
(* positions at cost only, on an account from which fills may be missing,  *)
(* and an order whose answer was lost is nowhere counted. An account that  *)
(* cannot be read excuses (resolveBuyAmountFromCash, risk-engine.js:87).   *)
ExposureIsLimited ==
  blind \/ MapThenSumSet(LAMBDA s : cost[s], Symbol) + SizeOf(Buys)
             <= MaxExposure + (MaxOpenOrders + unheard) * MaxOrder

(* A BUY that passed the rules, and its fee, is covered by the cash that   *)
(* no other order has locked, unless the answer to an order was lost or an *)
(* account not readable: INSUFFICIENT_CASH itself compares all the cash,   *)
(* locked or not, and knows no fee (trading-system.js:3331,                *)
(* resolveBuyAmountFromCash).                                              *)
BuyIsCovered ==
  (job # NoJob /\ job.judged /\ job.side = "buy") =>
    unheard > 0 \/ blind \/ job.size + FeeOf(job.size) <= cash

(* No BUY passes the rules on an account just read once the losses and     *)
(* fees realised since the baseline of the day was taken, plus what        *)
(* positions were worth above cost just then, reach maxDailyLossKrw        *)
(* (resolveDailyPnl, evaluateMarkToMarket, MAX_DAILY_LOSS_KRW).            *)
LossStopsEntries ==
  (job # NoJob /\ job.judged /\ job.side = "buy") =>
    age # "now" \/ blind \/ lost < MaxDailyLoss

(* A look at a price that leaves a position alone leaves no stop behind:   *)
(* measured from the highest price above cost looked at since the position *)
(* was bought, before a restart or since, it is not due, or what could be  *)
(* sold is worth less than the least SELL and the exit is skipped          *)
(* (resolveProtectiveExit and the peaks it keeps,                          *)
(* trading-system.js:2497). An account that cannot be read excuses. That   *)
(* an order on record skips the exit is in RealtimeWindow.                 *)
NoStopIsPassedOver ==
  [][\A s \in Symbol :
       ShouldExit(seen', s, price[s], high[s]) /\ Sellable(seen', s, price[s]) =>
         blind' \/ ~(job' = NoJob /\ Tick(s))]_vars

ExitRefused == job # NoJob /\ job.cause = "exit" /\ Refuse
Outdated == Floored(seen'.qty[job.symbol]) # job.size

(* The pieces cut off decide: with the next decimal the order would be     *)
(* worth more than the least an order must be, or the order is so small    *)
(* that one decimal may be a twentieth of the position.                    *)
FlooringDecides ==
  \/ Worth < AppliedMin * Scale /\ AppliedMin * Scale < Worth + Lot * job.price
  \/ job.size < 19 * Lot

(* A protective exit is refused by a rule about amounts, however little    *)
(* the position is still worth, only where the decimals cut off a SELL     *)
(* decide: the holding is measured whole, and the order by what is left    *)
(* (resolveSellOrderAmount, trading-system.js:3335 and the liquidation of  *)
(* dust in risk-engine.js:58). Otherwise it is refused for the open        *)
(* orders, or for a position that has changed since.                       *)
ExitsPassTheRules ==
  [][ExitRefused => AtOpenLimit(job.symbol) \/ Outdated \/ FlooringDecides]_vars
=============================================================================
