----------------------------- MODULE EntryBlock -----------------------------
(***************************************************************************)
(* The entry block: the one slot of the state file (settings.entryBlock of *)
(* src/core/trading-system.js) in which four guards tell the trader to open*)
(* no new position. The execution loop (src/app/run.js) runs three of them *)
(* one after the other before each window: the operator's pause, the loss  *)
(* limits and the optimizer's safety gate. The fourth sits in placeOrder:  *)
(* a BUY refused for the daily loss, or too many refusals in a row.        *)
(*                                                                         *)
(* A guard that strikes overwrites the slot, a guard that finds nothing    *)
(* clears it if the reason is its own, and every look at the slot releases *)
(* a block whose trading day, or whose time, is over. The process may end  *)
(* between any two writes and be started with another configuration.       *)
(*                                                                         *)
(* Time is what the code compares: a date is that of today or an earlier   *)
(* one, and riskRejectResetSec (above zero) has passed or has not. A window*)
(* skipped because settings.execution.enabled is false changes nothing and *)
(* is no step. The live mode is modelled; a dry run skips two guards.      *)
(***************************************************************************)
EXTENDS Naturals

CONSTANTS
  Limits,      \* the limits the account can be found beyond
  MaxStreak,   \* risk.maxConsecutiveRiskRejects
  MaxRestarts  \* bound: how often the process ends and starts again

ASSUME LimitsAssumption ==
  Limits \subseteq {"mtm_loss", "open_loss", "daily_loss", "order_limit"}

ASSUME StreakAssumption == MaxStreak \in Nat \ {0}

ASSUME RestartAssumption == MaxRestarts \in Nat

VARIABLES
  market,    \* which limits the account is beyond just now
  gate,      \* optimizer.liveSafetyGateEnabled of the running process
  block,     \* state.settings.entryBlock
  streak,    \* state.settings.riskReject
  at,        \* where the execution loop is
  status,    \* executionStatus: the block's reason when the loop last asked
  seen,      \* what the guards of this window found: what the settings say of
             \* the pause ("unset" if nothing, or if they are stale or cannot
             \* be read), a loss beyond its limit, an approving report
  order,     \* locals of the placeOrder under way
  refused,   \* escalating refusals since an order last passed (history)
  restarts   \* restarts so far

saved == <<block, streak>>
locals == <<at, status, seen, order>>
vars == <<market, gate, saved, locals, refused, restarts>>

Daily == {"max_mtm_daily_loss", "max_daily_loss"}
Reason == Daily \union {"manual_pause_entries", "kpi_monitor",
                        "optimizer_live_safety_gate", "risk_reject_streak"}
Trading == {"trade", "refused", "counted", "passed", "uncounted"}

(* setOn and old are what the code reads off blockedAt and updatedAt.      *)
Unblocked == [reason |-> "none", tradeDate |-> "none", setOn |-> "today", old |-> FALSE]
Blocked(reason, tradeDate) ==
  [reason |-> reason, tradeDate |-> tradeDate, setOn |-> "today", old |-> FALSE]

NothingSeen == [control |-> "unset", loss |-> FALSE, approved |-> TRUE]
NoOrder == [side |-> "none", rules |-> {}, tradeDate |-> "none"]

Init ==
  /\ market = {}
  /\ gate \in BOOLEAN
  /\ block = Unblocked
  /\ streak = [count |-> 0, old |-> FALSE]
  /\ at = "open"
  /\ status = "none"
  /\ seen = NothingSeen
  /\ order = NoOrder
  /\ refused = 0
  /\ restarts = 0
-----------------------------------------------------------------------------
(* Mutants: every dated block expires; a clear drops the reason but not the*)
(* rest; a clear does not look at the reason.                              *)
ExpiredByAnyDate(b) ==
  \/ b.tradeDate = "earlier"
  \/ b.reason = "risk_reject_streak" /\ b.old
ClearedReasonOnly(b, reason) == IF b.reason = reason THEN [b EXCEPT !.reason = "none"] ELSE b
ClearedWhoever(b, reason) == Unblocked

(* refreshEntryBlock, in every status() and before every order, and         *)
(* clearEntryBlock(reason).                                                *)
Expired(b) ==
  \/ b.reason \in Daily /\ b.tradeDate = "earlier"
  \/ b.reason = "risk_reject_streak" /\ b.old
Refreshed(b) == IF Expired(b) THEN Unblocked ELSE b
Cleared(b, reason) == IF b.reason = reason THEN Unblocked ELSE b

(* status() after a guard has written the slot.                            *)
Report(b) == block' = Refreshed(b) /\ status' = Refreshed(b).reason

(* A window opens: the settings are read, whatever the operator wrote last,*)
(* then status() is called.                                                *)
OpenWindow ==
  /\ at = "open"
  /\ \E control \in {"pause", "run", "unset"} : seen' = [NothingSeen EXCEPT !.control = control]
  /\ Report(block)
  /\ at' = "pause"
  /\ UNCHANGED <<market, gate, streak, order, refused, restarts>>

(* syncManualPause.                                                        *)
SyncPause ==
  /\ at = "pause"
  /\ \/ seen.control = "pause" /\ Report(Blocked("manual_pause_entries", "none"))
     \/ seen.control = "run" /\ Report(Cleared(block, "manual_pause_entries"))
     \/ seen.control = "unset" /\ UNCHANGED <<block, status>>
  /\ at' = "risk"
  /\ UNCHANGED <<market, gate, streak, seen, order, refused, restarts>>

(* syncRiskEntryBlock: the daily loss at market prices, then the loss of   *)
(* the open positions.                                                     *)
SyncRisk ==
  /\ at = "risk"
  /\ \/ "mtm_loss" \in market /\ Report(Blocked("max_mtm_daily_loss", "none"))
     \/ /\ "mtm_loss" \notin market /\ "open_loss" \in market
        /\ Report(Blocked("kpi_monitor", "none"))
     \/ market \intersect {"mtm_loss", "open_loss"} = {} /\ Report(Cleared(block, "kpi_monitor"))
  /\ seen' = [seen EXCEPT !.loss = market \intersect {"mtm_loss", "open_loss"} # {}]
  /\ at' = "gate"
  /\ UNCHANGED <<market, gate, streak, order, refused, restarts>>

(* Mutant: a gate that was turned off leaves its block behind.             *)
SyncGateOnlyIfOn ==
  LET Mine == "optimizer_live_safety_gate"
  IN  /\ at = "gate"
      /\ \E approved \in BOOLEAN :
           /\ \/ gate /\ status \in {"none", Mine} /\ ~approved /\ Report(Blocked(Mine, "none"))
              \/ gate /\ approved /\ status = Mine /\ Report(Cleared(block, Mine))
              \/ /\ (status # Mine \/ ~gate) /\ (gate /\ status = "none" => approved)
                 /\ UNCHANGED <<block, status>>
           /\ seen' = [seen EXCEPT !.approved = approved]
      /\ at' = "trade"
      /\ UNCHANGED <<market, gate, streak, order, refused, restarts>>

(* syncOptimizerSafetyGate: does a recent report of the optimizer approve  *)
(* the configuration? The gate leaves a block of another guard alone. Then *)
(* the plans are made and the window runs. A symbol to be bought is planned*)
(* only if the last status had no block.                                   *)
SyncGate ==
  LET Mine == "optimizer_live_safety_gate"
  IN  /\ at = "gate"
      /\ \E approved \in BOOLEAN :
           /\ \/ gate /\ status \in {"none", Mine} /\ ~approved /\ Report(Blocked(Mine, "none"))
              \/ (gate => approved) /\ status = Mine /\ Report(Cleared(block, Mine))
              \/ /\ status # Mine /\ (gate /\ status = "none" => approved)
                 /\ UNCHANGED <<block, status>>
           /\ seen' = [seen EXCEPT !.approved = approved]
      /\ at' = "trade"
      /\ UNCHANGED <<market, gate, streak, order, refused, restarts>>

MayBuy == at \in Trading /\ status = "none"

CloseWindow ==
  /\ at = "trade"
  /\ at' = "open" /\ status' = "none" /\ seen' = NothingSeen
  /\ UNCHANGED <<market, gate, saved, order, refused, restarts>>
-----------------------------------------------------------------------------
(* placeOrder evaluates the risk of an order: the entry block and the daily*)
(* loss stop a BUY; limits on orders and exposure (order_limit) escalate,  *)
(* too little cash, holding or notional (unfit) does not.                  *)
Rules(side, b) ==
  {rule \in {"entry_blocked", "daily_loss"} :
     side = "buy" /\ (rule = "entry_blocked" => b.reason # "none")
                  /\ (rule = "daily_loss" => rule \in market)}
  \union (market \intersect {"order_limit"})

Evaluate(side) ==
  /\ at = "trade"
  /\ side = "buy" => MayBuy
  /\ \E rules \in {Rules(side, Refreshed(block)), Rules(side, Refreshed(block)) \union {"unfit"}} :
       /\ order' = [side |-> side, rules |-> rules, tradeDate |-> "today"]
       /\ at' = IF rules = {} THEN "passed" ELSE "refused"
  /\ block' = Refreshed(block)
  /\ UNCHANGED <<market, gate, streak, status, seen, refused, restarts>>

Escalates == "order_limit" \in order.rules
CountUp(n) == IF n < MaxStreak THEN n + 1 ELSE n

(* Mutant: refusals that cannot be helped count too.                       *)
CountEveryRefusal ==
  /\ at = "refused"
  /\ streak' = [count |-> IF streak.old THEN 1 ELSE CountUp(streak.count), old |-> FALSE]
  /\ refused' = IF Escalates THEN CountUp(refused) ELSE refused
  /\ at' = "counted"
  /\ UNCHANGED <<market, gate, block, status, seen, order, restarts>>

(* bumpRiskRejectStreak: refusals count on only while they are close. (The *)
(* count stops at MaxStreak, beyond which nothing depends on it.)          *)
CountRefusal ==
  /\ at = "refused"
  /\ IF Escalates
       THEN /\ streak' = [count |-> IF streak.old THEN 1 ELSE CountUp(streak.count), old |-> FALSE]
            /\ refused' = CountUp(refused)
       ELSE UNCHANGED <<streak, refused>>
  /\ at' = "counted"
  /\ UNCHANGED <<market, gate, block, status, seen, order, restarts>>

(* A refused BUY sets the slot: for the daily loss, then for the streak.   *)
BlockAfterRefusal ==
  /\ at = "counted"
  /\ block' = IF order.side = "buy" /\ Escalates /\ streak.count >= MaxStreak
                THEN Blocked("risk_reject_streak", order.tradeDate)
              ELSE IF order.side = "buy" /\ "daily_loss" \in order.rules
                THEN Blocked("max_daily_loss", order.tradeDate)
              ELSE block
  /\ at' = "trade" /\ order' = NoOrder
  /\ UNCHANGED <<market, gate, streak, status, seen, refused, restarts>>

(* An order that passes, BUY or SELL: clearRiskRejectStreak, then          *)
(* clearEntryBlock("risk_reject_streak").                                  *)
ForgetStreak ==
  /\ at = "passed"
  /\ streak' = [count |-> 0, old |-> FALSE]
  /\ at' = "uncounted"
  /\ UNCHANGED <<market, gate, block, status, seen, order, refused, restarts>>

LiftStreakBlock ==
  /\ at = "uncounted"
  /\ block' = Cleared(block, "risk_reject_streak")
  /\ refused' = 0
  /\ at' = "trade" /\ order' = NoOrder
  /\ UNCHANGED <<market, gate, streak, status, seen, restarts>>
-----------------------------------------------------------------------------
MarketMoves ==
  /\ \E limit \in Limits : market' = IF limit \in market THEN market \ {limit}
                                                        ELSE market \union {limit}
  /\ UNCHANGED <<gate, saved, locals, refused, restarts>>

(* Midnight in runtime.timezone.                                           *)
Aged(day) == IF day = "today" THEN "earlier" ELSE day
NewDay ==
  /\ block' = IF block = Unblocked THEN block
              ELSE [block EXCEPT !.tradeDate = Aged(@), !.setOn = "earlier"]
  /\ order' = [order EXCEPT !.tradeDate = Aged(@)]
  /\ UNCHANGED <<market, gate, streak, at, status, seen, refused, restarts>>

(* riskRejectResetSec passes. (Only the age of a streak block is looked at.)*)
TimePasses ==
  /\ block' = [block EXCEPT !.old = block.reason = "risk_reject_streak"]
  /\ streak' = [streak EXCEPT !.old = streak.count > 0]
  /\ UNCHANGED <<market, gate, locals, refused, restarts>>

(* The process ends anywhere and starts again, perhaps reconfigured.       *)
Restart ==
  /\ restarts < MaxRestarts
  /\ restarts' = restarts + 1
  /\ gate' \in BOOLEAN
  /\ at' = "open" /\ status' = "none" /\ seen' = NothingSeen
  /\ order' = NoOrder
  /\ UNCHANGED <<market, saved, refused>>

Loop ==
  \/ OpenWindow \/ SyncPause \/ SyncRisk \/ SyncGate \/ CloseWindow
  \/ CountRefusal \/ BlockAfterRefusal \/ ForgetStreak \/ LiftStreakBlock

Next ==
  \/ Loop \/ Evaluate("buy") \/ Evaluate("sell") \/ Restart
  \/ MarketMoves \/ NewDay \/ TimePasses

Spec == Init /\ [][Next]_vars

(* The loop goes on (await by await), a window ends after windowSec however*)
(* many orders it tries, and time passes.                                  *)
FairSpec == /\ Spec /\ WF_vars(Loop) /\ SF_vars(CloseWindow)
            /\ WF_vars(NewDay) /\ WF_vars(TimePasses)
-----------------------------------------------------------------------------
Blocks == [reason : Reason \union {"none"}, tradeDate : {"none", "today", "earlier"},
           setOn : {"today", "earlier"}, old : BOOLEAN]

TypeOK ==
  /\ market \in SUBSET Limits /\ gate \in BOOLEAN
  /\ block \in Blocks /\ (block.reason = "none" => block = Unblocked)
  /\ streak \in [count : 0 .. MaxStreak, old : BOOLEAN]
  /\ at \in {"open", "pause", "risk", "gate"} \union Trading
  /\ status \in Reason \union {"none"}
  /\ seen \in [control : {"pause", "run", "unset"}, loss : BOOLEAN, approved : BOOLEAN]
  /\ order \in [side : {"buy", "sell", "none"}, tradeDate : {"none", "today", "earlier"},
                rules : SUBSET {"entry_blocked", "daily_loss", "order_limit", "unfit"}]
  /\ refused \in 0 .. MaxStreak /\ restarts \in 0 .. MaxRestarts

(* runExecutionService: although the guards share one slot, overwrite each *)
(* other's block and clear their own, a window in which a symbol may be    *)
(* bought is one in which no guard objected.                               *)
NoGuardIsOverruled ==
  MayBuy => /\ seen.control # "pause"
            /\ ~seen.loss
            /\ gate => seen.approved

(* clearEntryBlock, refreshEntryBlock: a block goes away only through the  *)
(* guard that set it or because its time is over.                          *)
LiftedOnlyIf(reason, cause) == block.reason = reason /\ block'.reason = "none" => cause
LiftedByOwner ==
  [][/\ LiftedOnlyIf("manual_pause_entries", at = "pause" /\ seen.control = "run")
     /\ LiftedOnlyIf("kpi_monitor", at = "risk" /\ "open_loss" \notin market)
     /\ LiftedOnlyIf("optimizer_live_safety_gate", at = "gate" /\ (gate => seen'.approved))
     /\ LiftedOnlyIf("max_daily_loss", block.tradeDate = "earlier")
     /\ LiftedOnlyIf("max_mtm_daily_loss", FALSE)
     /\ LiftedOnlyIf("risk_reject_streak", block.old \/ at = "uncounted")]_vars

(* bumpRiskRejectStreak: the streak block stands only after MaxStreak      *)
(* refusals with no order passing in between, whatever crash fell between  *)
(* the writes that count, block, forget and lift.                          *)
StreakBlockIsEarned ==
  /\ streak.count <= refused
  /\ block.reason = "risk_reject_streak" => refused = MaxStreak

(* Once every window reads "run", finds the account within the limits and  *)
(* an approving report, entries are possible again and again, unless  *)
(* the daily loss at market prices has blocked them.                       *)
Calm == (at # "open" => seen.control = "run") /\ market = {} /\ seen.approved
EntriesResume == <>[]Calm => []<>(block.reason \in {"none", "max_mtm_daily_loss"})

(* DAILY_ENTRY_BLOCK_REASONS, USAGE_KO.md: a daily entry block is measured *)
(* against the day's first equity, so it does not outlast its day.         *)
DailyBlocksExpire ==
  LET Yesterdays == block.reason \in Daily /\ block.setOn = "earlier"
  IN  Yesterdays ~> ~Yesterdays
=============================================================================
