--------------------------- MODULE RealtimeWindow ---------------------------
(***************************************************************************)
(* One symbol traded in consecutive windows: runStrategyRealtime of        *)
(* src/core/trading-system.js on a ticker stream of src/exchange/bithumb-  *)
(* public-ws.js. Every tick, and every poll of the REST fallback, chains a *)
(* job on the promise `processing`, so the jobs of a window run one after  *)
(* the other, each on what it finds when its turn comes. The window        *)
(* returns once the stream has closed and the jobs chained until then are  *)
(* done.                                                                   *)
(*                                                                         *)
(* What a job reads: the account (cached for a while, and the last one on  *)
(* disk when the exchange does not answer), the record of protective exits,*)
(* and the flags of its window. A tick carries the signal of the strategy  *)
(* and whether its price calls for a protective exit of a position.        *)
(* placeOrder, the subject of OrderPlacement, is one step with four        *)
(* outcomes. Timers are flags that time lowers; a submission takes less    *)
(* time than postExitBuyCooldownSec.                                       *)
(***************************************************************************)
EXTENDS Naturals, Sequences

CONSTANTS
  OrderCap,        \* maxOrderAttemptsPerWindow
  MaxQueue,        \* bound: jobs waiting in a window
  MaxFaults,       \* bound: lost answers, failed reads and writes, crashes
  PreloadMayFail,  \* can a window start without candle history?
  StreamMayFail    \* can the stream report an error?

ASSUME BoundsAssumption ==
  OrderCap \in Nat \ {0} /\ MaxQueue \in Nat \ {0} /\ MaxFaults \in Nat

ASSUME ChoiceAssumption ==
  PreloadMayFail \in BOOLEAN /\ StreamMayFail \in BOOLEAN

VARIABLES
  win,         \* the locals of the window, and of the job that runs
  held,        \* does the account hold the symbol (worth an order)?
  cache,       \* _accountContextCache: "held" or "flat", or "none"
  snapshot,    \* what the last of state.balancesSnapshot says, or "none"
  exitEvent,   \* is a protective_exit in riskEvents within the cooldown?
  falling,     \* does the price call for an exit just now?
  exitRecent,  \* was a protective SELL accepted within the cooldown? (history)
  unheard,     \* was the answer to a BUY ever lost? (history)
  faults       \* faults so far

vars == <<win, held, cache, snapshot, exitEvent, falling, exitRecent, unheard, faults>>
saved == <<cache, snapshot>>
account == <<held, saved>>
exits == <<exitEvent, exitRecent>>

TickJob == [kind : {"tick"}, signal : {"BUY", "SELL", "HOLD"}, stop : BOOLEAN]
PollJob == [kind |-> "poll", signal |-> "HOLD", stop |-> FALSE]

(* at, side and forced are the locals of the job that runs; bought counts  *)
(* the BUYs answered in the window and blind tells that the job decided    *)
(* without an answer of the exchange (history).                            *)
Closed == [phase |-> "closed", allowBuy |-> FALSE, warm |-> FALSE,
           chain |-> <<>>, at |-> "start", side |-> "none", forced |-> FALSE,
           blocked |-> FALSE, successes |-> 0, cooling |-> FALSE, backoff |-> FALSE,
           ticked |-> FALSE, failed |-> FALSE, blind |-> FALSE, bought |-> 0]

Init ==
  /\ win = Closed
  /\ held \in BOOLEAN
  /\ cache = "none" /\ snapshot = "none"
  /\ exitEvent = FALSE /\ exitRecent = FALSE
  /\ falling \in BOOLEAN
  /\ unheard = FALSE
  /\ faults = 0

Fault == faults < MaxFaults /\ faults' = faults + 1
-----------------------------------------------------------------------------
(* runStrategyRealtime is called for the next window, to enter and exit or *)
(* (a held symbol, an entry block) to exit only; the candle history is     *)
(* loaded, or cannot be, and the stream is opened.                         *)
OpenWindow ==
  /\ win.phase = "closed"
  /\ \E allowBuy \in BOOLEAN, warm \in {TRUE, ~PreloadMayFail} :
       win' = [Closed EXCEPT !.phase = "open", !.allowBuy = allowBuy, !.warm = warm]
  /\ UNCHANGED <<account, exits, falling, unheard, faults>>

(* onTicker: the tick is chained with the signal of its own moment.        *)
Tick ==
  /\ win.phase = "open" /\ Len(win.chain) < MaxQueue
  /\ \E j \in TickJob :
       /\ j.stop = falling
       /\ win' = [win EXCEPT !.chain = Append(@, j), !.ticked = TRUE]
  /\ UNCHANGED <<account, exits, falling, unheard, faults>>

(* The interval timer polls once restFallbackStalenessMs went by without a *)
(* tick.                                                                   *)
Poll ==
  /\ win.phase = "open" /\ Len(win.chain) < MaxQueue
  /\ win' = [win EXCEPT !.chain = Append(@, PollJob)]
  /\ UNCHANGED <<account, exits, falling, unheard, faults>>

(* The stream closes: `await processing` waits for the jobs chained so far,*)
(* and no other comes.                                                     *)
Closing(w) == IF w.phase = "open" THEN [w EXCEPT !.phase = "drain"] ELSE w

(* windowSec is over, the stop signal comes, or the server closes.         *)
Close ==
  /\ win.phase = "open"
  /\ win' = Closing(win)
  /\ UNCHANGED <<account, exits, falling, unheard, faults>>

(* onError: the socket cannot be opened or breaks, or the exchange sends an*)
(* error.                                                                  *)
StreamFails ==
  /\ StreamMayFail /\ win.phase = "open"
  /\ win' = [Closing(win) EXCEPT !.failed = TRUE]
  /\ UNCHANGED <<account, exits, falling, unheard, faults>>

(* Mutant: the check is noted as done without being made.                  *)
PostCheckSkipped ==
  /\ win.phase = "drain" /\ win.chain = <<>>
  /\ ~win.ticked /\ ~win.failed
  /\ win' = [win EXCEPT !.phase = "post"]
  /\ UNCHANGED <<account, exits, falling, unheard, faults>>

(* No tick in the whole window and no error: one more REST check.          *)
PostCheck ==
  /\ win.phase = "drain" /\ win.chain = <<>>
  /\ ~win.ticked /\ ~win.failed
  /\ win' = [win EXCEPT !.phase = "post", !.chain = <<PollJob>>]
  /\ UNCHANGED <<account, exits, falling, unheard, faults>>

(* Mutant: `await processing` is missing.                                  *)
ReturnAtOnce ==
  /\ win.phase \in {"drain", "post"}
  /\ win' = [Closed EXCEPT !.chain = win.chain]
  /\ UNCHANGED <<account, exits, falling, unheard, faults>>

(* The window returns to run.js.                                           *)
Return ==
  /\ \/ win.phase = "drain" /\ (win.ticked \/ win.failed)
     \/ win.phase = "post"
  /\ win.chain = <<>>
  /\ win' = Closed
  /\ UNCHANGED <<account, exits, falling, unheard, faults>>
-----------------------------------------------------------------------------
IsPoll == Head(win.chain).kind = "poll"
Starting(kind) == win.chain # <<>> /\ win.at = "start" /\ Head(win.chain).kind = kind

Says(view) == IF view THEN "held" ELSE "flat"

(* loadAccountContext: the cache while it lasts, else the exchange, whose  *)
(* answer is saved; if that cannot be had, the answer saved last (it is not*)
(* cached), or an empty account.                                           *)
Read(view, blind) ==
  \/ ~blind /\ cache = Says(view) /\ UNCHANGED saved
  \/ /\ ~blind /\ cache = "none" /\ view = held
     /\ cache' = Says(view) /\ snapshot' = Says(view)
  \/ blind /\ cache = "none" /\ view = (snapshot = "held") /\ UNCHANGED saved

LoadAccount(view, blind) == Read(view, blind) /\ IF blind THEN Fault ELSE UNCHANGED faults
LoadsAccount == \E view, blind \in BOOLEAN : LoadAccount(view, blind)

(* The job that runs ends, and the next one in the chain may start.        *)
Done(w) == [w EXCEPT !.chain = Tail(@), !.at = "start", !.side = "none",
                     !.forced = FALSE, !.blind = FALSE]

(* Mutant: the cap is off by one.                                          *)
HeldBackOverCap(w, forced) ==
  \/ w.blocked
  \/ ~forced /\ (w.cooling \/ w.backoff \/ w.successes > OrderCap)

(* The throttles. An exit that is due only minds an earlier failure.       *)
HeldBack(w, forced) ==
  \/ w.blocked
  \/ ~forced /\ (w.cooling \/ w.backoff \/ w.successes >= OrderCap)

(* A tick's turn: a due exit comes before the signal. Without enough       *)
(* candles nothing is looked at.                                           *)
DecideTick ==
  /\ Starting("tick")
  /\ IF ~win.warm THEN win' = Done(win) /\ UNCHANGED <<saved, faults>>
     ELSE \E view, blind \in BOOLEAN :
       LET j == Head(win.chain)
           forced == j.stop /\ view
           side == CASE forced -> "sell"
                     [] ~forced /\ j.signal = "BUY" /\ win.allowBuy /\ ~exitEvent -> "buy"
                     [] ~forced /\ j.signal = "SELL" -> "sell"
                     [] OTHER -> "none"
       IN  /\ LoadAccount(view, blind)
           /\ win' = IF side = "none" \/ HeldBack(win, forced) THEN Done(win)
                     ELSE [win EXCEPT !.at = "prepare", !.side = side, !.forced = forced]
  /\ UNCHANGED <<held, exits, falling, unheard>>

(* A poll's turn: the price is read by REST; only a due exit matters, and  *)
(* no throttle applies.                                                    *)
DecidePoll ==
  /\ Starting("poll")
  /\ \E view, blind \in BOOLEAN :
       /\ LoadAccount(view, blind)
       /\ win' = IF falling /\ view
                   THEN [win EXCEPT !.at = "prepare", !.side = "sell", !.forced = TRUE]
                   ELSE Done(win)
  /\ UNCHANGED <<held, exits, falling, unheard>>

(* Mutant: an exit found by a poll is not recorded.                        *)
PrepareSellByPollUnrecorded ==
  /\ win.at = "prepare" /\ win.side = "sell"
  /\ \E view, blind \in BOOLEAN :
       /\ LoadAccount(view, blind)
       /\ exitEvent' = (exitEvent \/ (win.forced /\ ~IsPoll))
       /\ win' = IF view THEN [win EXCEPT !.at = "order", !.blind = blind] ELSE Done(win)
  /\ UNCHANGED <<held, exitRecent, falling, unheard>>

(* The amount: a SELL of nothing is skipped (a due exit is recorded all    *)
(* the same, but by a tick only); otherwise an exit is recorded first.     *)
PrepareSell ==
  /\ win.at = "prepare" /\ win.side = "sell"
  /\ \E view, blind \in BOOLEAN :
       /\ LoadAccount(view, blind)
       /\ exitEvent' = (exitEvent \/ (win.forced /\ (view \/ ~IsPoll)))
       /\ win' = IF view THEN [win EXCEPT !.at = "order", !.blind = blind] ELSE Done(win)
  /\ UNCHANGED <<held, exitRecent, falling, unheard>>

(* A BUY is skipped if there is a position, or too little cash.            *)
PrepareBuy ==
  /\ win.at = "prepare" /\ win.side = "buy"
  /\ \E view, blind \in BOOLEAN :
       /\ LoadAccount(view, blind)
       /\ \/ ~view /\ win' = [win EXCEPT !.at = "order", !.blind = blind]
          \/ win' = Done(win)
  /\ UNCHANGED <<held, exits, falling, unheard>>
-----------------------------------------------------------------------------
(* placeOrder submits: the exchange sells what is held, or buys.           *)
Ordering(side) == win.at = "order" /\ win.side = side
Accepts ==
  /\ Ordering("sell") => held
  /\ held' = Ordering("buy")
  /\ exitRecent' = (exitRecent \/ win.forced)

(* Mutant: the cached account outlives an order.                           *)
OrderPlacedCacheKept ==
  /\ win.at = "order" /\ Accepts
  /\ LoadsAccount
  /\ win' = Done([win EXCEPT !.successes = IF @ < OrderCap THEN @ + 1 ELSE @,
                             !.cooling = win.allowBuy, !.backoff = IsPoll /\ @,
                             !.bought = IF Ordering("buy") THEN @ + 1 ELSE @])
  /\ UNCHANGED <<exitEvent, falling, unheard>>

(* ... and answers: the account that the risk rules looked at is dropped.  *)
(* cooldownSec is 0 for a window that may not buy.                         *)
OrderPlaced ==
  /\ win.at = "order" /\ Accepts
  /\ cache' = "none"
  /\ \/ cache # "none" /\ UNCHANGED <<snapshot, faults>>
     \/ cache = "none" /\ snapshot' = Says(held) /\ UNCHANGED faults
     \/ cache = "none" /\ Fault /\ UNCHANGED snapshot
  /\ win' = Done([win EXCEPT !.successes = IF @ < OrderCap THEN @ + 1 ELSE @,
                             !.cooling = win.allowBuy, !.backoff = IsPoll /\ @,
                             !.bought = IF Ordering("buy") THEN @ + 1 ELSE @])
  /\ UNCHANGED <<exitEvent, falling, unheard>>

(* A retryable failure: after a tick, the next order waits a moment.       *)
AfterRetryable(w) ==
  Done([w EXCEPT !.backoff = @ \/ (w.allowBuy /\ ~IsPoll)])

OrderNotReached ==
  /\ win.at = "order"
  /\ LoadsAccount
  /\ win' = AfterRetryable(win)
  /\ UNCHANGED <<held, exits, falling, unheard>>

OrderAnswerLost ==
  /\ win.at = "order" /\ Accepts /\ Fault
  /\ \E view \in BOOLEAN : Read(view, FALSE)
  /\ win' = AfterRetryable(win)
  /\ unheard' = (unheard \/ Ordering("buy"))
  /\ UNCHANGED <<exitEvent, falling>>

(* The risk rules, the duplicate guard or the exchange refuse: after a     *)
(* tick the window is blocked.                                             *)
OrderRefused ==
  /\ win.at = "order"
  /\ LoadsAccount
  /\ win' = Done([win EXCEPT !.blocked = @ \/ ~IsPoll])
  /\ UNCHANGED <<held, exits, falling, unheard>>

(* A read or a write of the state fails. In a tick's job the stream is     *)
(* closed over it; a poll only logs it.                                    *)
JobFails ==
  /\ win.chain # <<>> /\ win.at \in {"start", "prepare"} /\ Fault
  /\ win' = IF IsPoll THEN Done(win) ELSE Done([Closing(win) EXCEPT !.failed = TRUE])
  /\ UNCHANGED <<account, exits, falling, unheard>>

(* The process is killed and started again: riskEvents are on disk.        *)
Crash ==
  /\ Fault
  /\ win' = Closed
  /\ cache' = "none"
  /\ UNCHANGED <<held, snapshot, exits, falling, unheard>>
-----------------------------------------------------------------------------
PriceMoves ==
  /\ falling' = ~falling
  /\ UNCHANGED <<win, account, exits, unheard, faults>>

CacheExpires ==
  /\ cache # "none" /\ cache' = "none"
  /\ UNCHANGED <<win, held, snapshot, exits, falling, unheard, faults>>

CooldownEnds ==
  /\ win.cooling
  /\ win' = [win EXCEPT !.cooling = FALSE]
  /\ UNCHANGED <<account, exits, falling, unheard, faults>>

BackoffEnds ==
  /\ win.backoff
  /\ win' = [win EXCEPT !.backoff = FALSE]
  /\ UNCHANGED <<account, exits, falling, unheard, faults>>

(* postExitBuyCooldownSec has passed since the last exit.                  *)
ExitCooldownEnds ==
  /\ exitEvent /\ ~(win.at = "order" /\ win.forced)
  /\ exitEvent' = FALSE /\ exitRecent' = FALSE
  /\ UNCHANGED <<win, account, falling, unheard, faults>>

Work ==
  \/ DecideTick \/ DecidePoll \/ PrepareSell \/ PrepareBuy
  \/ OrderPlaced \/ OrderNotReached \/ OrderRefused

Ends == Close \/ PostCheck \/ Return
Timers == CooldownEnds \/ BackoffEnds
Faults == OrderAnswerLost \/ JobFails \/ StreamFails

Next ==
  \/ OpenWindow \/ Tick \/ Poll \/ Work \/ Ends \/ Faults \/ Crash
  \/ PriceMoves \/ CacheExpires \/ Timers \/ ExitCooldownEnds

Spec == Init /\ [][Next]_vars

(* Promises settle, timers fire and run.js opens window after window. No   *)
(* tick need ever arrive.                                                  *)
FairSpec ==
  /\ Spec
  /\ WF_vars(OpenWindow) /\ WF_vars(Work) /\ WF_vars(Ends) /\ WF_vars(CacheExpires)
-----------------------------------------------------------------------------
Windows == [phase : {"closed", "open", "drain", "post"}, allowBuy : BOOLEAN, warm : BOOLEAN,
            chain : Seq(TickJob \union {PollJob}), at : {"start", "prepare", "order"},
            side : {"none", "buy", "sell"}, forced : BOOLEAN, blocked : BOOLEAN,
            successes : 0 .. OrderCap, cooling : BOOLEAN, backoff : BOOLEAN,
            ticked : BOOLEAN, failed : BOOLEAN, blind : BOOLEAN, bought : Nat]

TypeOK ==
  /\ win \in Windows
  /\ win.at # "start" => win.chain # <<>> /\ win.side # "none"
  /\ win.phase = "closed" => win.chain = <<>>
  /\ held \in BOOLEAN /\ {cache, snapshot} \subseteq {"none", "held", "flat"}
  /\ cache # "none" => snapshot = cache
  /\ exitEvent \in BOOLEAN /\ exitRecent \in BOOLEAN
  /\ falling \in BOOLEAN /\ unheard \in BOOLEAN
  /\ faults \in 0 .. MaxFaults

(* maxOrderAttemptsPerWindow: however ticks, polls, failures and cooldowns *)
(* interleave, a window hears of at most as many BUYs as it may place.     *)
EntriesPerWindow == win.bought <= OrderCap

(* README 3.A: after a protective exit the symbol is not bought again until*)
(* postExitBuyCooldownSec is over, in whichever window, also after a crash *)
(* or a lost answer.                                                       *)
NoReentryAfterExit == Ordering("buy") => ~exitRecent

(* singlePositionPerSymbol: a position is not bought a second time, though *)
(* the account is cached and saved, unless the answer to the first BUY was *)
(* lost, or the exchange did not say what it holds to the job that buys.   *)
OnePosition == Ordering("buy") /\ held => unheard \/ win.blind

(* Stop loss: while a position is held and the price calls for an exit, a  *)
(* SELL is tried again and again, with a dead stream as well, and whatever *)
(* blocks an order or a window. (Not if every window starts without candles*)
(* or its stream reports an error.)                                        *)
Served == win.phase # "closed" => win.warm /\ ~win.failed
StopIsActedOn == <>[](held /\ falling /\ Served) => []<>Ordering("sell")

(* trading-system.js:2688: the REST fallback is there so that "protective  *)
(* exits (stop-loss, trailing stop) are never missed due to a dead or      *)
(* disconnected WebSocket stream": the same, whatever becomes of the       *)
(* stream.                                                                 *)
StopIsNeverMissed == <>[](held /\ falling) => []<>Ordering("sell")

(* trading-system.js:2347: protective exits bypass the throttles, so that  *)
(* loss containment is never blocked by them. A tick that calls for an exit*)
(* of the position leads to the order.                                     *)
ExitsAreNotThrottled ==
  Starting("tick") /\ win.warm /\ Head(win.chain).stop /\ cache = "held" => ~HeldBack(win, TRUE)
=============================================================================
