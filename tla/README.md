# buycoin-trader: specifications

TLA+ models of buycoin-trader, a Node.js program that trades on the Bithumb
exchange: what TLC checks on small instances, and what TLAPS proves for all of
them. File names below are relative to `src/` of the repository unless they are
modules of this directory.

## 1. The system

One process, the trader (`src/app/run.js`), runs under PM2, which restarts it
when it dies and kills it when a shutdown takes too long. A second program, the
optimizer (`src/app/optimize.js`), is started every hour, reads the list of
markets the trader keeps (or writes one) and writes a report.
They share files under `.trader/`. Everything in the trader happens on one event
loop: concurrency comes from what is interleaved at each `await`.

| part | state it keeps | operations | talks to | hard behaviour |
|---|---|---|---|---|
| State store, `core/store.js` | the state file, the lock file, `this.state` | `init`, `update`, `withLock`, `recoverStaleLock` | every writer of state; other processes through the lock file | crashes between system calls, stale locks, check-then-delete |
| Order placement, `core/trading-system.js` | `state.orders`, `orderSequence` | `placeOrder`, `reconcileOrder`, `persistOrder`, `applyStateRetention` | risk engine, execution engine, client, store | lost answers, retries, fallbacks, stale records, crash between POST and record |
| Bithumb client, `exchange/bithumb-client.js` | none but the rate limiter | `placeOrder`, `getOrderStatus`, `withRetry` | the exchange | retries of non-idempotent calls, lookups by looks |
| Entry block, `core/trading-system.js`, `app/run.js` | `settings.entryBlock`, `settings.riskReject` | `setEntryBlock`, `clearEntryBlock`, `refreshEntryBlock`, `sync*`, the streak of refusals | execution loop, `placeOrder`, settings file, optimizer report | four guards share one slot; dates, restarts, order of the guards |
| Realtime window, `core/trading-system.js` | flags of the window, the promise `processing`, account cache, `riskEvents` | `runStrategyRealtime`: ticks, REST polls, close, post-stream check | WebSocket client, `placeOrder` | jobs that run later than they were made; dead streams; throttles against exits |
| Execution loop, `app/run.js` | what it logged last, the stop signal | `runExecutionService` | all of the above | signals, order of guards, sequential plans |
| Risk engine, `engine/risk-engine.js` | none | `evaluate` | `placeOrder` | boundaries; rules that meet SELLs |
| WebSocket client, `exchange/bithumb-public-ws.js` | state of one socket | `openStream`, `closeSafely`, handlers | the window | close during connecting, late messages, errors |
| Rate limiter, `exchange/rate-limiter.js` | times of recent calls, a chain of waiters | `take` | client | one waiter at a time |
| Optimizer, `app/optimize.js`, `engine/strategy-optimizer.js` | lock, report | `main`, `optimizeAndApplyBest` | the list of markets, the report that the gate reads | stale lock, kill at every full hour, files replaced by several writers |
| Strategy settings, `app/strategy-settings.js` | settings file | `init`, `read` | operator, execution loop | stale, missing or broken file |
| Market universe, `core/market-universe.js` | snapshot, time of next refresh | `maybeRefresh`, `filterSymbols` | execution loop | failed refresh, fallback, one temporary file for all writers |
| Protective exit, `core/trading-system.js` | peak price per symbol | `resolveProtectiveExit` | the window | peaks that outlive a position |
| Account metrics, sizing, daily profit, `core/trading-system.js` | daily baseline, account cache | `resolveDailyPnl`, `evaluateMarkToMarket`, `resolveBuyAmountFromCash` | risk rules, guards | baselines of two kinds, locked cash |
| Candle aggregator, signal engines, market data, overlay, KPI and audit reports, HTTP audit log, configuration | little or none | pure functions, reads, reports | | boundaries |

What makes each part correct:

- *store*: holders of the lock exclude each other; an acknowledged update stays;
  a crash blocks nobody for ever;
- *orders*: what is open on the exchange is on record; limits and the duplicate
  guard, which look at records, hold of the exchange; a request is not submitted
  twice; every call returns; a SELL is not refused for an order that is gone;
- *entry block*: no guard is overruled in a window; nobody lifts another guard's
  block; a streak block is earned; entries resume when all guards are content;
- *window*: a stop loss is acted on whatever else is the matter; no re-entry soon
  after it; one position per symbol; no more BUYs than allowed;
- *money*: exposure stays limited although limits are compared with accounts that
  may be old; a BUY is covered; the loss of a day stops entries; no stop is passed
  over and no exit refused for its amount;
- *execution loop*: what is held is watched; a signal ends the service; a pause is
  minded; windows do not run into each other;
- *optimizer and files*: one search at a time; readers find whole files; research
  goes on after any kill.

`PROJECT.json` lists every component with what is left out, and every hazard of
this code with its line and the properties that cover it.

## 2. Modules

| module | what it models |
|---|---|
| `AtomicStore` | what the store promises: updates are applied whole, one by one, and acknowledged afterwards |
| `StateStore` | `core/store.js`, one action per system call; refines `AtomicStore` |
| `StateStoreProofs` | theorems about `StateStore` |
| `MCStateStore` | instances of `StateStore` for TLC |
| `OrderPlacement` | `placeOrder` with execution engine and client, from call to record |
| `OrderPlacementProofs` | theorems about `OrderPlacement` |
| `MCOrderPlacement` | instances of `OrderPlacement` for TLC |
| `EntryBlock` | the guards of `run.js`, the streak of `placeOrder`, and their slot |
| `EntryBlockProofs` | theorems about `EntryBlock` |
| `RealtimeWindow` | `runStrategyRealtime` of one symbol, window after window |
| `RealtimeWindowProofs` | theorems about `RealtimeWindow` |
| `Position` | amounts: sizing, risk rules, protective exits and peaks, the profit of a day |
| `MCPosition` | an instance of `Position` for TLC |
| `Sums` | lemmas about sums of functions over finite sets |
| `PositionProofs` | theorems about `Position`, with the lemmas of `Sums` |
| `TickerStream` | one socket of `exchange/bithumb-public-ws.js` |
| `MarketUniverse` | the list of markets of `core/market-universe.js` |
| `TraderService` | `runExecutionService`, composed of the two above |
| `MCTraderService` | an instance of `TraderService` for TLC |
| `TraderServiceProofs` | theorems about `TraderService` and `TickerStream` |
| `ReplacedFile` | a JSON file replaced through a temporary one |
| `Optimizer` | `app/optimize.js` under PM2, with two instances of `ReplacedFile` |
| `OptimizerProofs` | theorems about `ReplacedFile` and `Optimizer` |

`RealtimeWindow` is about the order of things in a window and has no amounts;
`Position` has the amounts and one job at a time; `TraderService` has the windows
one after the other and no orders. Each leaves to the others what it makes a
choice: the price that calls for an exit, the throttles, what happens in a window.

### StateStore

A task is a caller of `update()`; `pc[t]` is the system call it performs next.
`withLock` is `OpenLock`/`OpenBusy`, `StampLock`, the task, and `Unlock`;
`recoverStaleLock` is `StatLock` and `ReadLock` in either order, `JudgeLock` and
`StealLock`; the task is `Load`, `WriteTemp`, `RenameTemp`. `init()` is the same
walk with `ready` false. The lock file has a creator, which the code cannot see,
a pid, which it can, and an age. The state is the set of updates it contains:
the mutators are opaque, but what they are applied to and what they replace is
not. `mem[t]` is the copy of `this.state` between reading and writing; the code
shares one `this.state` per process, but sets, changes and serialises it without
a system call in between. `stolen` is history: a lock was deleted while a live
task relied on it. Pids are not reused, and clocks agree.

### OrderPlacement

`queue` is the promise `orderSequence`; its head runs through risk, guard, post,
reconcile and persist. `orders` is `state.orders`, `exchange` what Bithumb has
accepted. POST has all its outcomes: answered, unreadable, refused in three ways,
not reached, and accepted with the answer lost; `PostRefused` holds the retry
without identifier and the second endpoint. Requests differ by symbol, side and
amount; the rules about money (`unfit`) may refuse any of them.

A lookup is `getOrderStatus`. `job.asked` is the uuid that the answer to the POST
named, if it named one: `LookSucceeds` is a lookup that finds what it asks for,
`LookFallsBack` one that ends in the lists of orders, because there is no uuid or
because the exchange refuses the lookups by uuid and identifier (a fault). The lists
show any set of orders: a page that is refused is passed over, a page ends at 100
rows, and a fresh order may not be listed yet. `ListMatch` takes the order with the
identifier, or else the only one that `LooksAlike`: same symbol, side and amount and
placed within the ten minutes of `findByFingerprint` (`AlikeWithin`), as far as the
rows show these fields (`RowsShow`). Whatever is found becomes the record's
`exchangeOrderId` (`Refreshed`). `overlooked` is history: the calls a lookup of which
was not shown their own order. Left out: dry runs, and order list, get and cancel,
which no other part of the program calls.

### EntryBlock

One action per guard (`SyncPause`, `SyncRisk`, `SyncGate`), in the order of
`run.js`; `Evaluate`, `CountRefusal`, `BlockAfterRefusal` and `ForgetStreak`,
`LiftStreakBlock` are the writes of `placeOrder`. `seen` and `status` are locals
of the loop. Dates are "today" or "earlier", ages old or not. The account is
beyond any subset of the limits, and changes at any moment. Left out: dry runs.

### RealtimeWindow

`win.chain` is the promise `processing`: its head is the job that runs, in the
steps decide, prepare and order, between which it awaits. The window's flags are
those of the code. The signal of a tick is a choice; whether the price calls for
an exit is too, and changes freely. `placeOrder` is one step: placed, refused, not
reached, or its answer lost. `held` is the account at the exchange, `cache` the
trader's copy, `snapshot` the last one saved, which `loadAccountContext` falls back
to when the exchange does not answer (`blind`). Left out: overrides by policy, dry
runs, the rebound gate (a BUY it stops is no BUY signal), and jobs that outlive
their window, which `TraderService` is about.

### Position

Money, prices and quantities are small integers: a price in units of money, a
quantity in pieces of which `Scale` are worth the price, and the cost of a position
in place of `avg_buy_price`, so that comparisons of the code become comparisons of
products, without rounding. Rounding is kept where the code rounds: the size of a
BUY, its buffer, the share of a symbol; the quantity of a SELL, which `Floored` cuts
off to a multiple of `Lot`, the last decimal of `sellAllQtyPrecision`, while the exit
check and the rules measure the whole holding, as in the code. The exchange rounds
fees up, and a SELL that is filled in part of the position leaves its share of the
cost. Three minima are kept apart: `ChanceMin` (`chanceMinTotalKrw`, below which a
holding is no matter for an exit), `SellFloor` (that and the 5,000 KRW of
`sell_notional_below_min`) and `AppliedMin` (`minOrderNotionalKrw` and the exchange's
`min_total`, for the rules). `Tick` is a
job of `onTicker` up to the decision (`Track` writes the peak, `ShouldExit` and
`PrepareSell`, `PrepareBuy` decide), `Pass` or `Refuse` the rules on a second look
at the account, `Answered`, `AnswerLost` or `Declined` the submission. `Load` is
`loadAccountContext` with its cache and its fallback, `Measure` the baseline of the
day, which `MarkToMarket` (at prices, where there is a ticker) and the rules (at
cost) share. Fills, cancellations, prices, midnights and crashes come at any time.
Left out: `cashUsagePct` of 0 (a fixed amount, without the buffer), overrides, limit
orders, which the trader does not place, and throttles.

### TraderService, TickerStream, MarketUniverse

`ReadSettings` is a round up to `filterSymbols`: the settings file or the defaults,
`syncManualPause`, the other guards as one choice (they are the subject of
`EntryBlock`). `MakePlans` is `resolveProtectedSymbols` and `buildExecutionPlans`;
when the account cannot be read the plans come from what was saved last, which
may be of any age and is any set. `OpenWindow`, `EndWindow` and `Return` are the
ends of `runStrategyRealtime`; between them `TickerStream` moves: connecting, open,
closing, dead, with messages that are decoded for a while, `closed` and `ended` as
the flags of `openStream`, and the second after which `ended` no longer waits for
the peer. A socket that outlives its window is followed until the next one opens.
`MarketUniverse` reduces a market to not listed, unfit or a rank by traded value,
and says which lists can come out of a refresh, and what is allowed without one.
Holdings change at any time; a holding counts once it is worth an order at cost.

### Optimizer, ReplacedFile

`ReplacedFile` is `writeFile` of a temporary file and `rename`: a descriptor follows
its file, two writers with one name truncate each other, and a write that was
shared may leave a mixture. `List` (one name for all writers, nothing removed on
failure) and `Report` (a name each, removed on failure) are its two instances in
`Optimizer`, which adds the lock file of `acquireOptimizeLock`, one action per
system call, the kill at every full hour and the restart. The search is one step
with two outcomes. `robbed` is history: a lock grew old under a live holder, or
was deleted young. A list that parses and names no symbol asks for a refresh like
one that is absent; the instance checked has lists with symbols only. A refresh
always finds symbols or fails.

## 3. Runs

| run | constants | question | result |
|---|---|---|---|
| `store_two_processes` | 2 processes, 1 task each, 1 update, 2 faults of all kinds, slow holders | exclusion, no lost update, refinement of `AtomicStore` | holds, 139,180 states |
| `store_one_process` | 1 process, 2 tasks, 2 updates, 3 faults, prompt holders | no lock in use deleted; every update done | holds, 25,407 |
| `orders` | 2 like BUYs, limits of 1, 1 retry, 2 lookups, looks compared within 2 ticks, clock to 3, 1 fault | records, limits, duplicates, resubmission, lookups, termination | holds, 580,756 |
| `order_sell_refused` | a BUY and a SELL, limit 1 | SELLs are not refused for a closed order | **violated** |
| `entry_guards` | 4 limits, streak of 2, 1 restart | guards, expiry, streak, entries resume | holds, 672,128 |
| `entry_daily_block` | only the daily loss at market prices | daily blocks expire | **violated** |
| `window_safety` | 1 BUY a window, 2 jobs queued, 2 faults, cold candles, failing stream | caps, re-entry, single position, stop loss | holds, 714,112 |
| `window_exit_throttled` | no fault | exits bypass the throttles | **violated** |
| `window_stream_error` | failing stream | stop loss, whatever the stream does | **violated** |
| `trader_service` | 3 markets, 2 included of which 1 is excluded, 2 ranks, 1 message decoded at a time, 1 fault | watching, shutdown, pause, list, late messages | holds, 451,568 |
| `optimizer` | 2 optimizers and the trader, overruns, 1 fault | exclusion, whole files, research goes on | holds, 332,152 |
| `position` | 2 coins (one at prices 2, 3, 4, one at 3), deposits 28 or 120, SELLs in lots of 7 pieces of 36, minima 10, 14 and 20, limits of 27, 3 orders, 1 fault | exposure, cash, daily loss, exits, peaks | holds, 1,622,307 |

*Bounds.* Two contenders suffice for every race of the store, since each of its
steps looks at one lock file; two faults allow a failed or killed holder and a
failed or killed thief. Two calls of `placeOrder` fill limits of 1, and look alike.
One retry and two lookups contain first, middle and last attempt. `MaxStreak` of 2
has a count below the limit. A queue of two holds a tick behind a poll and the
reverse; `maxOrderAttemptsPerWindow` is 1 in `run.js`; two faults are a read of the
account that fails and an answer that is lost. Three orders in `position` are a BUY,
its exit and a BUY of another coin or of the same one again; its prices lie on both
sides of every threshold, and its deposits make the cash, or the exposure, the
tighter limit. A BUY of 27 at 4 gives 243 pieces, of which 238 can be sold: at 3 the
position is worth more than the least order of 20 and the SELL less (729 and 714
against 720), at 2 the SELL is worth less than the least SELL of 14 (476 against
504) and the exit is skipped; bought at 3 the same amount passes at 2 as dust. In
`orders` the clock runs to 3 for two orders that look alike to be more than
`AlikeWithin` apart. Three markets
leave one place for one of two candidates. Counters that the code lets grow
(`count`, `now`, `faults`, the queue, `accepted`, `reading`) are cut off by the
constants named in the modules; the streak stops at its limit, and `overtaken` at
2, beyond which nothing depends on them.

*Properties with a proviso.* The store's hold until a lock is stolen: the code
may delete a live lock after 30 s, or in the gap between judging and deleting,
and `LoneProcessNeverSteals` says when neither happens, which includes the
deployment of `ecosystem.config.cjs`. `LiveOrdersAreKnown`, `OpenOrdersAreLimited`
and `NoDuplicateOrders` hold of behaviours without lost answers and crashes:
nothing in the code finds an order whose POST went unanswered. `RecordsOwnOrder`
allows what the fallback of a lookup can do when the lists did not show the call's
own order (`overlooked`): it may take one that looks alike, never another one. An
exit may be refused where the cut off decimals decide (`FlooringDecides`), which the
run reaches (section 4), and `NoStopIsPassedOver` excuses an exit
skipped because what can be sold is worth less than the least SELL; the skip for a
refused order of the window (`symbolOrderBlocked`, line 2330) is the subject of
`RealtimeWindow`, not of `Position`. `OnePosition`
excuses a BUY whose answer was lost, for the account cache is then not
invalidated, and a job to which the exchange did not say what it holds, for an
older snapshot takes its place; `ExposureIsLimited` and `BuyIsCovered` excuse the
same two. `EntriesResume` leaves out the daily loss at market prices, and
`StopIsActedOn` cold candles and stream errors, which have runs or hazards of their
own. `HeldAreWatched` asks that the settings leave the execution enabled: disabled
by the settings, the loop opens no windows, not even for what is held. `LossStopsEntries`
is about losses realised and fees since the baseline, counted from what positions
cost: the baseline may be taken at market prices and compared at cost, and the
difference of that moment counts as a loss. `OneAtATime` and `ListIsWhole` excuse
what `robbed` and `overlap` record, which the runs reach. A stale peak of an earlier
position may let a trailing stop fire early; `NoStopIsPassedOver` is about stops
that are missed.

*Fairness.* An `await` is settled sooner or later, because every request has a
timeout and every timer fires: weak fairness of the steps of a live task, a call,
the loop and a window. PM2 restarts a dead process (`Start`; a new optimizer is
`TakeLock` from "down"). Clocks advance (`AgeLock`, `LockAges` of an orphaned lock,
`NewDay`, `TimePasses`, `CacheExpires`). A window of `EntryBlock` ends when its timer
fires, although in between it may always find another order to try: strong
fairness of `CloseWindow`. The socket of `TraderService` owes nothing: it may never
open, never send and never answer a close; the timer of `closeSafely` fires. No
tick, no poll, no signal and no fault need ever happen.

*Deadlock* is checked except in the two runs of the store, which is at rest when
every task has done its updates.

## 4. What the violations show

1. **A SELL refused for an order that is gone** (`order_sell_refused`). A market
   BUY that is still waiting at the third lookup is recorded as WAIT and never
   looked up again: `reconcileOpenOrders` has no caller. It counts against
   `MAX_OPEN_ORDERS_PER_SYMBOL`, which refuses SELLs too, protective ones
   included, while `README.md:142` promises that the risk policy stops entries
   only.
2. **A daily block that never ends** (`entry_daily_block`). `run.js:426` sets
   `max_mtm_daily_loss` with `tradeDate: null`; `refreshEntryBlock` releases a
   daily block only if it has a date, and nothing else clears it.
3. **Exits held back by a throttle** (`window_exit_throttled`). The check of
   `symbolOrderBlocked` comes before the bypass that the comment at
   `trading-system.js:2347` describes.
4. **A stop loss nobody looks at** (`window_stream_error`). When the WebSocket
   cannot be opened, every window ends before its first REST poll, and the check
   after the stream is skipped because there was an error.

Two more divergences have no run. `README.md:47` gives 900 s as the default of
`postExitBuyCooldownSec`, `config/defaults.js:317` has 300. And an exit is refused
for the decimals cut off: a SELL is cut off to `sellAllQtyPrecision`, while the exit
check and the rules measure the whole holding. A holding worth just more than
`minOrderNotionalKrw` is no dust for the exception in `risk-engine.js:58`, its order
is worth just less, and `MIN_ORDER_NOTIONAL_KRW` refuses the stop loss until the
price moves, while `README.md:142` promises that protective exits stay allowed. This
is why `ExitsPassTheRules` has its last case: without `FlooringDecides`, TLC finds
the property violated on the instance of `position` in 8 states (a deposit, a BUY of
27 filled at 4, the price at 3, the exit, its refusal).

## 5. Proofs

For any values of the constants: processes, tasks, optimizers, requests, limits,
coins, prices, shares, lists of markets, and all bounds on faults and time:

| module | theorem | statement |
|---|---|---|
| `StateStoreProofs` | `TypeCorrect` | `Spec => []TypeOK` |
| | `MutualExclusion` | `Spec => []ExclusiveUnlessStolen` |
| | `NoLostUpdate` | `Spec => []AckedIsOnDisk` |
| | `StoreImplementsAtomicStore` | `Spec => ImplementsAtomicStore` |
| | `LoneProcessIsSafe` | `Spec => []LoneProcessNeverSteals` |
| `OrderPlacementProofs` | `TypeCorrect` | `Spec => []TypeOK` |
| | `OwnOrdersOnly` | `Spec => []RecordsOwnOrder` |
| | `ResubmittedUnheard` | `Spec => []ResubmittedOnlyUnheard` |
| | `LiveOnesKnown` | `Spec => []LiveOrdersAreKnown` |
| | `OpenOrdersLimited` | `Spec => []OpenOrdersAreLimited` |
| | `NoDuplicates` | `Spec => []NoDuplicateOrders` |
| `EntryBlockProofs` | `TypeCorrect` | `Spec => []TypeOK` |
| | `NoGuardOverruled` | `Spec => []NoGuardIsOverruled` |
| | `StreakEarned` | `Spec => []StreakBlockIsEarned` |
| | `OnlyOwnerLifts` | `Spec => LiftedByOwner` |
| `PositionProofs` | `TypeCorrect` | `Spec => []TypeOK` |
| | `ExposureLimited` | `Spec => []ExposureIsLimited` |
| | `BuyCovered` | if `Fee <= Buffer`, `Spec => []BuyIsCovered` |
| | `LossStops` | `Spec => []LossStopsEntries` |
| | `NoStopPassedOver` | `Spec => NoStopIsPassedOver` |
| | `ExitsPass` | `Spec => ExitsPassTheRules` |
| `TraderServiceProofs` | `TypeCorrect` | `Spec => []TypeOK` |
| | `PauseBoundsEntries` | `Spec => []PauseOvertakenOnce` |
| | `ExcludedStayOut` | `Spec => []ExcludedNotEntered` |
| | `JobsStayInWindow` | `Spec => []JobsEndWithTheirWindow` |
| `OptimizerProofs` | `TypeCorrect` | `Spec => []TypeOK` |
| | `OneOptimizer` | `Spec => []OneAtATime` |
| | `ReportAlwaysWhole` | `Spec => []ReportIsWhole` |
| | `ListWholeUnlessShared` | `Spec => []ListIsWhole` |
| `RealtimeWindowProofs` | `TypeCorrect` | `Spec => []TypeOK` |
| | `EntriesAreCapped` | `Spec => []EntriesPerWindow` |
| | `NoReentry` | `Spec => []NoReentryAfterExit` |
| | `SinglePosition` | `Spec => []OnePosition` |

They rest on the named assumptions of the modules: bounds are naturals, sets of
requests and coins are finite, every task belongs to a process, the pids that stand
for nobody are nobody's, no optimizer is called "nobody" or like the trader, an
amount is near itself, shares are hundredths, prices are above zero and divide
`Scale`. TLC evaluates every one of them on the runs. `BuyCovered` has a hypothesis
of its own: `buyCashBufferBps` is what the code keeps back for the fee, nothing in
the code compares the two, and the theorem says that comparing them is all there is
to do (the defaults are 50 and 5, `config/defaults.js:300` and `:409`).

*The store.* The argument has three layers. `BaseInv` adds to the types that until `init()`
returns one task of its process is alone (`InitAlone`), and that a task in
`update()` has an update left (`RoomLeft`), without which `count` could leave its
range. `SafeInv` says, while nothing is stolen, that whoever holds the lock made
the lock file that is there, which gives exclusion; that what is on disk contains
all that was acknowledged, that a holder past its read has all of it in `mem`,
and that a holder past the rename has its update on disk, which gives the rest.
Neither property is inductive without these links between `pc`, `lock`, `mem` and
`disk`. `LoneInv` adds what one process knows: a lock its living task made is in
use, is fresh and carries a live pid (or none yet), and nobody who could delete
it has read anything else; a predecessor's lock is there only while `init()` is
alone. Each induction has a lemma for the start, one step per action, and one
lemma (`SafeBury`, `LoneBury`) for the death of a process, shared by the actions
that end in it.

*Placing an order.* `FlowInv` follows a call from the chain to its record.
`QueueInv` says that a call waits at most once, `SourceInv` that every order at the
exchange is of a call that is over or of the one that runs, and has that call's
identifier or none, and that a uuid named by an answer is the call's own; so what is
sent again has not been answered, and a lookup that is shown its own order does not
take another: by uuid and by identifier there is only one, and one that looks alike is
taken only if it is alone. What is left is `overlooked`, with an order that looks
alike to the placing time the record keeps. The other half holds while nothing is lost. `KnownInv`:
what records say of an order may be old, but only in that an order is still called
open that is closed by now, which is the safe side. With every open order on record
this makes `RoomInv`: limits that are not reached on record leave room for one more
at the exchange, and keep it until the order is submitted, because calls run one
after the other and the exchange only closes orders. `KeptInv` and `GuardInv` do the
same for the duplicate guard, if retention keeps all records. None of the properties
is inductive alone: each speaks of the moment of acceptance, and each check lies two
awaits before it.

*The entry block.* Three guards write one slot, and a later one may overwrite an
earlier one's block. `GuardInv` says what remains of an objection at each guard
after it: after `SyncPause` the block for the pause, after `SyncRisk` some block
that `SyncGate` does not clear, and when trading begins a status that is not "none",
which is what stops the entry. `StreakInv` says that `streak.count` never runs ahead
of the refusals, and is zero between the two writes of `ForgetStreak` and
`LiftStreakBlock`, where a restart would otherwise leave it. `UndatedInv` makes the
block for the loss at market prices one that no date ends.

*Amounts.* The properties are about sums, over the positions and over the open
orders, of which a step changes one term. `Sums` proves what such a change does to
the sum. The sums of the community modules pick the terms in a fixed order, and an
induction over their number is not expressible here; the lemmas argue by a smallest
set for which the claim fails, which exists because proper inclusion is well-founded
on the subsets of a finite set. On top of that `PositionInv` has four parts besides
the types. `OrderInv`: orders on record keep to the limits and leave room for one
that was judged, and at most `unheard` of the others exist; so the open BUYs are
worth at most `(MaxOpenOrders + unheard) * MaxOrder`. `ExposureInv`: a reading that
is still cached misses no more than that, since every answered order drops the cache,
and fills move money from orders to positions without adding any. `LossInv`: cash,
locked cash, positions at cost and what was lost add up to the baseline, through
every fill, cancellation and fee; so a rule that reads the account anew sees the
loss. `ExitInv`: an exit is a SELL. `FlooredOrder` is the arithmetic of its amount: a
SELL that is less than one decimal short of the holding is large enough, or the
holding is no larger than the minimum and the order 95 % of it, which makes the dust
rule apply, or `FlooringDecides`. `CashInv`, under the hypothesis above, relates a cached balance
and the BUY sized on it to the cash that is there. The two action properties follow
from `PositionInv`: that the peak on disk is never below the highest price seen, and
that the account a rule or a tick looks at is the one it leaves in `seen`.

*The service.* `RoundInv` is about a round: one symbol at most may be entered, its
plan is the last one (`EntryInv`), nothing excluded is in the list or in what is to
be entered unless there is no list (`ListInv`), and once a pause was overtaken no
entry is left but the window that is open (`PauseInv`); the last needs `EntryInv`,
because a second entry in the same round would be a second one overtaken.
`StreamInv` says of a stream that it has ended only with its socket closed, gone or
given up, and that no window is over before its stream is, which is what
`JobsEndWithTheirWindow` asks of a moment.

*The optimizer.* `LockInv` says that until the lock is robbed, whoever holds it
is the one it names, and it is young; so there is one. `ReportInv` says of each
temporary file of the report that it has one writer, which renames it only after
filling it. For the list, whose temporary file all writers share, the invariant
says that without an overlap no two descriptors are the same file, and that only
the temporary file, still to be filled, may be torn. `PlaceInv` adds for the types
where in its program each optimizer is when it writes which file.

*The window.* The order of a job is a step long after its decision, so the
properties, which speak of the moment of the order, are not inductive. `JobInv`
carries what the job knew: a BUY was decided below the cap (`EntryInv`), without an
exit on record and not as an exit itself (`ExitInv`), and none of it can change
before the order because jobs run one after the other; an accepted exit is on
record, because the record is written before the order and outlives it; and an
account cached as flat is flat unless an answer was lost (`PositionInv`), because
every answered order drops the cache. `WinOK` and `RestOK` are the two halves of
`TypeOK`; a failed read or write of the store is a fault.

Every invariant and every action property of the runs is proved. The invariants
above were checked by TLC on the instances of the runs before they were proved.
Only model-checked: liveness (`EveryUpdateCompletes`, `EveryCallReturns`,
`EntriesResume`, `StopIsActedOn`, `HeldAreWatched`, `SignalEndsService`,
`ResearchGoesOn`) is beyond the prover, which has neither fairness nor ENABLED; and
that `SetToSeq`, `Min` and the sums are computed as defined, where the proofs use
the definitions.

## 6. Not modelled

Components: the rate limiter (callers wait in line, so it has one waiter at a
time), the candle aggregator, signal engines, overlay, market data, reports, the
HTTP audit log and the smoke test: they compute, format or log, and where another
module depends on their result it is a choice. Operations: `runStrategyOnce`, dry
runs, overrides by policy, the order list, single lookups and cancellations of the
command line, the parsing of accounts, a fixed order amount (`cashUsagePct` of 0).
Data: the size of numbers, for amounts are small integers in `Position` and choices
elsewhere; parsing, signing and wording; reuse of pids and disagreeing clocks; the
exchange's states of an order other than wait, done and cancel; reads of the state
by reports and commands, which change nothing. `PROJECT.json` says for every
component what it leaves out.
