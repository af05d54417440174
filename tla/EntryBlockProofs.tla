-------------------------- MODULE EntryBlockProofs --------------------------
(***************************************************************************)
(* Proofs about EntryBlock, for any limits, streak and number of restarts. *)
(***************************************************************************)
EXTENDS EntryBlock, TLAPS

(* Every step of Next, by name.                                            *)
LEMMA Steps ==
  ASSUME [Next]_vars
  PROVE  \/ OpenWindow \/ SyncPause \/ SyncRisk \/ SyncGate \/ CloseWindow
         \/ Evaluate("buy") \/ Evaluate("sell")
         \/ CountRefusal \/ BlockAfterRefusal \/ ForgetStreak \/ LiftStreakBlock
         \/ Restart \/ MarketMoves \/ NewDay \/ TimePasses \/ UNCHANGED vars
  BY DEF Next, Loop
-----------------------------------------------------------------------------
(* Type correctness, first of what the guards write into the slot.         *)
Sound(b) == b \in Blocks /\ (b.reason = "none" => b = Unblocked)

SlotOK == Sound(block) /\ status \in Reason \union {"none"}

(* Whatever is written into the slot names a guard or nothing.             *)
LEMMA WrittenIsSound ==
  /\ Sound(Unblocked)
  /\ \A reason \in Reason, tradeDate \in {"none", "today", "earlier"} :
       Sound(Blocked(reason, tradeDate))
  /\ \A b : Sound(b) => Sound(Refreshed(b))
  /\ \A b, reason : Sound(b) => Sound(Cleared(b, reason))
<1>1. Sound(Unblocked)
  BY DEF Sound, Unblocked, Blocks
<1>2. \A reason \in Reason, tradeDate \in {"none", "today", "earlier"} :
        Sound(Blocked(reason, tradeDate))
  BY DEF Sound, Blocked, Blocks, Reason, Daily
<1> QED
  BY <1>1, <1>2 DEF Refreshed, Cleared

(* So does what status() leaves there.                                     *)
LEMMA ReportIsSound ==
  ASSUME NEW b, Sound(b), Report(b)
  PROVE  SlotOK'
<1>1. Sound(block')
  BY WrittenIsSound DEF Report
<1>2. status' \in Reason \union {"none"}
  BY WrittenIsSound DEF Report, Sound, Blocks
<1> QED
  BY <1>1, <1>2 DEF SlotOK, Sound

RestOK ==
  /\ market \in SUBSET Limits /\ gate \in BOOLEAN
  /\ streak \in [count : 0 .. MaxStreak, old : BOOLEAN]
  /\ at \in {"open", "pause", "risk", "gate"} \union Trading
  /\ seen \in [control : {"pause", "run", "unset"}, loss : BOOLEAN, approved : BOOLEAN]
  /\ order \in [side : {"buy", "sell", "none"}, tradeDate : {"none", "today", "earlier"},
                rules : SUBSET {"entry_blocked", "daily_loss", "order_limit", "unfit"}]
  /\ refused \in 0 .. MaxStreak /\ restarts \in 0 .. MaxRestarts

(* Every step keeps the slot sound.                                        *)
LEMMA SlotStep == SlotOK /\ RestOK /\ [Next]_vars => SlotOK'
<1> SUFFICES ASSUME SlotOK, RestOK, [Next]_vars PROVE SlotOK'
  OBVIOUS
<1>0. Sound(block)
  BY DEF SlotOK
<1>k. ASSUME Sound(block'), status' = status \/ status' = "none" PROVE SlotOK'
  BY <1>k DEF SlotOK, Sound
<1>1. CASE OpenWindow
  BY <1>1, <1>0, ReportIsSound DEF OpenWindow
<1>2. CASE SyncPause
  <2>1. CASE UNCHANGED <<block, status>>
    BY <2>1, <1>0, <1>k DEF Sound
  <2>2. \A b \in {Blocked("manual_pause_entries", "none"), Cleared(block, "manual_pause_entries")} :
          Sound(b)
    BY <1>0, WrittenIsSound DEF Reason
  <2> QED
    BY <1>2, <2>1, <2>2, ReportIsSound DEF SyncPause
<1>3. CASE SyncRisk
  <2>1. \A b \in {Blocked("max_mtm_daily_loss", "none"), Blocked("kpi_monitor", "none"),
                  Cleared(block, "kpi_monitor")} : Sound(b)
    BY <1>0, WrittenIsSound DEF Reason, Daily
  <2> QED
    BY <1>3, <2>1, ReportIsSound DEF SyncRisk
<1>4. CASE SyncGate
  <2>1. \A b \in {Blocked("optimizer_live_safety_gate", "none"),
                  Cleared(block, "optimizer_live_safety_gate")} : Sound(b)
    BY <1>0, WrittenIsSound DEF Reason
  <2>2. CASE UNCHANGED <<block, status>>
    BY <2>2, <1>0, <1>k DEF Sound
  <2> QED
    BY <1>4, <2>1, <2>2, ReportIsSound DEF SyncGate
<1>5. CASE CloseWindow \/ Restart \/ CountRefusal \/ ForgetStreak \/ MarketMoves \/ UNCHANGED vars
  <2>1. block' = block /\ (status' = status \/ status' = "none")
    BY <1>5 DEF CloseWindow, Restart, CountRefusal, ForgetStreak, MarketMoves, vars, saved, locals
  <2> QED
    BY <2>1, <1>0, <1>k
<1>6. CASE Evaluate("buy") \/ Evaluate("sell")
  <2>1. block' = Refreshed(block) /\ status' = status
    BY <1>6 DEF Evaluate
  <2> QED
    BY <2>1, <1>0, <1>k, WrittenIsSound
<1>7. CASE BlockAfterRefusal
  <2>1. order.tradeDate \in {"none", "today", "earlier"}
    BY DEF RestOK
  <2>2. /\ Sound(Blocked("risk_reject_streak", order.tradeDate))
        /\ Sound(Blocked("max_daily_loss", order.tradeDate))
    BY <2>1, WrittenIsSound DEF Reason, Daily
  <2>3. Sound(block') /\ status' = status
    BY <1>7, <1>0, <2>2 DEF BlockAfterRefusal
  <2> QED
    BY <2>3, <1>k
<1>8. CASE LiftStreakBlock
  <2>1. block' = Cleared(block, "risk_reject_streak") /\ status' = status
    BY <1>8 DEF LiftStreakBlock
  <2> QED
    BY <2>1, <1>0, <1>k, WrittenIsSound
<1>9. CASE NewDay
  <2>1. status' = status
    BY <1>9 DEF NewDay
  <2>2. CASE block = Unblocked
    BY <1>9, <2>1, <2>2, <1>0, <1>k DEF NewDay
  <2>3. CASE block # Unblocked
    <3>1. block' = [block EXCEPT !.tradeDate = Aged(@), !.setOn = "earlier"]
      BY <1>9, <2>3 DEF NewDay
    <3>2. block \in Blocks /\ block.reason # "none"
      BY <2>3, <1>0 DEF Sound
    <3>3. Aged(block.tradeDate) \in {"none", "today", "earlier"}
      BY <3>2 DEF Blocks, Aged
    <3>4. block' \in Blocks /\ block'.reason = block.reason
      BY <3>1, <3>2, <3>3 DEF Blocks
    <3> QED
      BY <2>1, <3>2, <3>4, <1>k DEF Sound
  <2> QED
    BY <2>2, <2>3
<1>10. CASE TimePasses
  <2>1. status' = status /\ block' = [block EXCEPT !.old = block.reason = "risk_reject_streak"]
    BY <1>10 DEF TimePasses, locals
  <2>2. CASE block.reason = "none"
    <3>1. block = Unblocked /\ (block.reason = "risk_reject_streak") = FALSE
      BY <2>2, <1>0 DEF Sound
    <3>2. block' = Unblocked
      BY <2>1, <3>1 DEF Unblocked
    <3> QED
      BY <2>1, <3>1, <3>2, <1>0, <1>k
  <2>3. CASE block.reason # "none"
    <3>1. block' \in Blocks /\ block'.reason = block.reason
      BY <2>1, <1>0 DEF Sound, Blocks
    <3> QED
      BY <2>1, <2>3, <3>1, <1>k DEF Sound
  <2> QED
    BY <2>2, <2>3
<1> QED
  BY <1>1, <1>2, <1>3, <1>4, <1>5, <1>6, <1>7, <1>8, <1>9, <1>10, Steps

(* Every step keeps the types of the other variables.                      *)
LEMMA RestStep == SlotOK /\ RestOK /\ [Next]_vars => RestOK'
<1> SUFFICES ASSUME SlotOK, RestOK, [Next]_vars PROVE RestOK'
  OBVIOUS
<1> USE LimitsAssumption, StreakAssumption, RestartAssumption DEF RestOK, Trading
<1>n. /\ NothingSeen \in [control : {"pause", "run", "unset"}, loss : BOOLEAN, approved : BOOLEAN]
      /\ NoOrder \in [side : {"buy", "sell", "none"}, tradeDate : {"none", "today", "earlier"},
                      rules : SUBSET {"entry_blocked", "daily_loss", "order_limit", "unfit"}]
  BY DEF NothingSeen, NoOrder
<1>1. CASE OpenWindow
  BY <1>1, <1>n DEF OpenWindow
<1>2. CASE SyncPause
  BY <1>2 DEF SyncPause
<1>3. CASE SyncRisk
  <2>1. (market \intersect {"mtm_loss", "open_loss"} # {}) \in BOOLEAN
    OBVIOUS
  <2> QED
    BY <1>3, <2>1 DEF SyncRisk
<1>4. CASE SyncGate
  BY <1>4 DEF SyncGate, Trading
<1>5. CASE CloseWindow
  BY <1>5, <1>n DEF CloseWindow, saved
<1>6. ASSUME NEW side \in {"buy", "sell"}, Evaluate(side) PROVE RestOK'
  <2>1. PICK rules \in {Rules(side, Refreshed(block)), Rules(side, Refreshed(block)) \union {"unfit"}} :
          /\ order' = [side |-> side, rules |-> rules, tradeDate |-> "today"]
          /\ at' = IF rules = {} THEN "passed" ELSE "refused"
    BY <1>6 DEF Evaluate
  <2>2. rules \in SUBSET {"entry_blocked", "daily_loss", "order_limit", "unfit"}
    BY DEF Rules
  <2> QED
    BY <1>6, <2>1, <2>2 DEF Evaluate, Trading
<1>7. CASE CountRefusal
  <2>1. \A n \in 0 .. MaxStreak : CountUp(n) \in 0 .. MaxStreak
    BY DEF CountUp
  <2>2. 1 \in 0 .. MaxStreak
    OBVIOUS
  <2>3. CASE Escalates
    <3>1. /\ streak' = [count |-> IF streak.old THEN 1 ELSE CountUp(streak.count), old |-> FALSE]
          /\ refused' = CountUp(refused)
      BY <1>7, <2>3 DEF CountRefusal
    <3>2. streak' \in [count : 0 .. MaxStreak, old : BOOLEAN] /\ refused' \in 0 .. MaxStreak
      BY <2>1, <2>2, <3>1
    <3> QED
      BY <1>7, <3>2 DEF CountRefusal
  <2>4. CASE ~Escalates
    BY <1>7, <2>4 DEF CountRefusal
  <2> QED
    BY <2>3, <2>4
<1>8. CASE BlockAfterRefusal \/ LiftStreakBlock
  <2>1. /\ at' = "trade" /\ order' = NoOrder /\ UNCHANGED <<market, gate, streak, seen, restarts>>
        /\ refused' = refused \/ refused' = 0
    BY <1>8 DEF BlockAfterRefusal, LiftStreakBlock
  <2> QED
    BY <2>1, <1>n
<1>9. CASE ForgetStreak
  BY <1>9 DEF ForgetStreak, Trading
<1>10. CASE Restart
  BY <1>10, <1>n DEF Restart, saved
<1>11. CASE MarketMoves
  <2>1. market' \in SUBSET Limits
    BY <1>11 DEF MarketMoves
  <2> QED
    BY <1>11, <2>1 DEF MarketMoves, saved, locals
<1>12. CASE NewDay
  <2>1. order' = [order EXCEPT !.tradeDate = Aged(@)]
    BY <1>12 DEF NewDay
  <2>2. Aged(order.tradeDate) \in {"none", "today", "earlier"}
    BY DEF Aged
  <2> QED
    BY <1>12, <2>1, <2>2 DEF NewDay
<1>13. CASE TimePasses
  <2>1. streak' = [streak EXCEPT !.old = streak.count > 0]
    BY <1>13 DEF TimePasses
  <2>2. (streak.count > 0) \in BOOLEAN
    OBVIOUS
  <2> QED
    BY <1>13, <2>1, <2>2 DEF TimePasses, locals
<1>14. CASE UNCHANGED vars
  BY <1>14 DEF vars, saved, locals
<1> QED
  BY <1>1, <1>2, <1>3, <1>4, <1>5, <1>6, <1>7, <1>8, <1>9, <1>10, <1>11, <1>12, <1>13,
     <1>14, Steps

(* The types, at the start.                                                *)
LEMMA InitOK == Init => SlotOK /\ RestOK
<1> SUFFICES ASSUME Init PROVE SlotOK /\ RestOK
  OBVIOUS
<1>1. SlotOK
  BY WrittenIsSound DEF Init, SlotOK
<1>2. RestOK
  BY StreakAssumption, RestartAssumption DEF Init, RestOK, NothingSeen, NoOrder
<1> QED
  BY <1>1, <1>2

(* The slot names a guard or is empty altogether; the counters stay within *)
(* their bounds.                                                           *)
THEOREM TypeCorrect == Spec => []TypeOK
<1>1. TypeOK <=> SlotOK /\ RestOK
  BY DEF TypeOK, SlotOK, RestOK, Sound
<1> QED
  BY <1>1, InitOK, SlotStep, RestStep, PTL DEF Spec
-----------------------------------------------------------------------------
(* What the guards have found stays in the slot while the others run: a    *)
(* pause is still there when the loss limits are looked at, and what either*)
(* of them found is still there when the gate is asked.                    *)
GateReason == "optimizer_live_safety_gate"

Objected == seen.control = "pause" \/ seen.loss \/ (gate /\ ~seen.approved)

GuardInv ==
  /\ at = "risk" /\ seen.control = "pause" => block.reason = "manual_pause_entries"
  /\ at = "gate" /\ (seen.control = "pause" \/ seen.loss) => status \notin {"none", GateReason}
  /\ at \in Trading /\ Objected => status # "none"

(* A count is earned, and so is the block that it led to; between forgetting*)
(* the count and lifting the block there is none.                          *)
StreakInv ==
  /\ streak.count <= refused
  /\ at = "uncounted" => streak.count = 0
  /\ block.reason = "risk_reject_streak" => refused = MaxStreak

(* The block for the daily loss at market prices has no date that could    *)
(* pass.                                                                   *)
UndatedInv == block.reason = "max_mtm_daily_loss" => block.tradeDate = "none"

GoodInv == SlotOK /\ RestOK /\ GuardInv /\ StreakInv /\ UndatedInv

(* What is written into the slot, and what status() says of it: an undated *)
(* block stays, and another guard's is not cleared.                        *)
LEMMA ReportSays ==
  ASSUME NEW b, Report(b), b.reason = "none" => b = Unblocked
  PROVE  /\ status' = block'.reason
         /\ ~Expired(b) => block' = b
         /\ block' = b \/ block' = Unblocked
  BY DEF Report, Refreshed, Unblocked

(* A block without a date does not expire.                                 *)
LEMMA UndatedStays ==
  ASSUME NEW reason \in Reason
  PROVE  /\ Blocked(reason, "none").reason = reason
         /\ ~Expired(Blocked(reason, "none"))
  BY DEF Blocked, Expired, Daily

(* Every step keeps what a guard that objected has written.                *)
LEMMA GuardStep == SlotOK /\ RestOK /\ GuardInv /\ [Next]_vars => GuardInv'
<1> SUFFICES ASSUME SlotOK, RestOK, GuardInv, [Next]_vars PROVE GuardInv'
  OBVIOUS
<1>0. Sound(block) /\ status \in Reason \union {"none"}
  BY DEF SlotOK
<1>p. /\ "manual_pause_entries" \in Reason /\ "max_mtm_daily_loss" \in Reason
      /\ "kpi_monitor" \in Reason /\ GateReason \in Reason
  BY DEF Reason, Daily, GateReason
<1>1. CASE OpenWindow \/ CloseWindow \/ Restart
  <2>1. at' \in {"open", "pause"}
    BY <1>1 DEF OpenWindow, CloseWindow, Restart
  <2> QED
    BY <2>1 DEF GuardInv, Trading
<1>2. CASE SyncPause
  <2>1. at' = "risk" /\ seen' = seen
    BY <1>2 DEF SyncPause
  <2>2. CASE seen.control = "pause"
    <3>1. Report(Blocked("manual_pause_entries", "none"))
      BY <1>2, <2>2 DEF SyncPause
    <3>2. block' = Blocked("manual_pause_entries", "none")
      BY <3>1, <1>p, UndatedStays, ReportSays
    <3>3. block'.reason = "manual_pause_entries"
      BY <3>2 DEF Blocked
    <3> QED
      BY <2>1, <3>3 DEF GuardInv, Trading
  <2> QED
    BY <2>1, <2>2 DEF GuardInv, Trading
<1>3. CASE SyncRisk
  <2>1. at = "risk" /\ at' = "gate" /\ seen'.control = seen.control
        /\ seen'.loss = (market \intersect {"mtm_loss", "open_loss"} # {})
    BY <1>3 DEF SyncRisk, RestOK
  <2>2. CASE seen'.loss
    <3>1. PICK reason \in {"max_mtm_daily_loss", "kpi_monitor"} : Report(Blocked(reason, "none"))
      BY <1>3, <2>1, <2>2 DEF SyncRisk
    <3>2. status' = Blocked(reason, "none").reason
      BY <3>1, <1>p, UndatedStays, ReportSays
    <3>3. status' = reason
      BY <3>2 DEF Blocked
    <3> QED
      BY <2>1, <3>3 DEF GuardInv, Trading, GateReason
  <2>3. CASE ~seen'.loss /\ seen.control = "pause"
    <3>1. Report(Cleared(block, "kpi_monitor"))
      BY <1>3, <2>1, <2>3 DEF SyncRisk
    <3>2. block.reason = "manual_pause_entries"
      BY <2>1, <2>3 DEF GuardInv
    <3>3. Report(block) /\ ~Expired(block)
      BY <3>1, <3>2 DEF Cleared, Expired, Daily
    <3>4. status' = "manual_pause_entries"
      BY <3>2, <3>3, ReportSays
    <3> QED
      BY <2>1, <3>4 DEF GuardInv, Trading, GateReason
  <2> QED
    BY <2>1, <2>2, <2>3 DEF GuardInv, Trading
<1>4. CASE SyncGate
  <2>1. /\ at = "gate" /\ at' = "trade" /\ gate' = gate /\ seen'.control = seen.control
        /\ seen'.loss = seen.loss /\ seen'.approved \in BOOLEAN
    BY <1>4 DEF SyncGate, RestOK
  <2>2. CASE gate /\ status \in {"none", GateReason} /\ ~seen'.approved
             /\ Report(Blocked(GateReason, "none"))
    <3>1. status' = Blocked(GateReason, "none").reason
      BY <2>2, <1>p, UndatedStays, ReportSays DEF GateReason
    <3>2. status' # "none"
      BY <3>1 DEF Blocked, GateReason
    <3> QED
      BY <2>1, <3>2 DEF GuardInv, Trading
  <2>3. CASE (gate => seen'.approved) /\ status = GateReason
    BY <2>1, <2>3 DEF GuardInv, Trading, Objected
  <2>4. CASE status # GateReason /\ (gate /\ status = "none" => seen'.approved) /\ status' = status
    BY <2>1, <2>4 DEF GuardInv, Trading, Objected
  <2> QED
    BY <1>4, <2>2, <2>3, <2>4 DEF SyncGate, GateReason, RestOK
<1>5. CASE Evaluate("buy") \/ Evaluate("sell") \/ CountRefusal \/ BlockAfterRefusal
           \/ ForgetStreak \/ LiftStreakBlock
  <2>1. at \in Trading /\ at' \in Trading /\ UNCHANGED <<gate, status, seen>>
    BY <1>5 DEF Evaluate, CountRefusal, BlockAfterRefusal, ForgetStreak, LiftStreakBlock, Trading
  <2> QED
    BY <2>1 DEF GuardInv, Trading, Objected
<1>6. CASE MarketMoves \/ NewDay \/ TimePasses \/ UNCHANGED vars
  <2>1. UNCHANGED <<gate, at, status, seen>>
    BY <1>6 DEF MarketMoves, NewDay, TimePasses, vars, locals
  <2>2. block.reason = "manual_pause_entries" => block'.reason = "manual_pause_entries"
    BY <1>0, <1>6
       DEF MarketMoves, NewDay, TimePasses, vars, saved, Sound, Blocks, Unblocked
  <2> QED
    BY <2>1, <2>2 DEF GuardInv, Objected
<1> QED
  BY <1>1, <1>2, <1>3, <1>4, <1>5, <1>6, Steps

(* Every step keeps the streak block earned.                               *)
LEMMA StreakStep == SlotOK /\ RestOK /\ StreakInv /\ [Next]_vars => StreakInv'
<1> SUFFICES ASSUME SlotOK, RestOK, StreakInv, [Next]_vars PROVE StreakInv'
  OBVIOUS
<1>0. /\ streak.count \in 0 .. MaxStreak /\ refused \in 0 .. MaxStreak
      /\ MaxStreak \in Nat \ {0} /\ Sound(block)
  BY StreakAssumption DEF RestOK, SlotOK
<1>k. ASSUME UNCHANGED <<streak, refused>>, at' = "uncounted" => at = "uncounted",
             block'.reason = "risk_reject_streak" => block.reason = "risk_reject_streak"
      PROVE  StreakInv'
  BY <1>k DEF StreakInv
<1>r. \A b : Refreshed(b).reason = "risk_reject_streak" => b.reason = "risk_reject_streak"
  BY DEF Refreshed, Unblocked
<1>w. ASSUME NEW b, Report(b),
             b.reason = "risk_reject_streak" => block.reason = "risk_reject_streak"
      PROVE  block'.reason = "risk_reject_streak" => block.reason = "risk_reject_streak"
  BY <1>w, <1>r DEF Report
<1>c. \A reason : Cleared(block, reason).reason = "risk_reject_streak"
                    => block.reason = "risk_reject_streak"
  BY DEF Cleared, Unblocked
<1>b. \A reason : Blocked(reason, "none").reason = reason
  BY DEF Blocked
<1>1. CASE OpenWindow
  BY <1>1, <1>k, <1>w DEF OpenWindow
<1>2. CASE SyncPause
  <2>1. block'.reason = "risk_reject_streak" => block.reason = "risk_reject_streak"
    <3>1. CASE UNCHANGED block
      BY <3>1
    <3>2. CASE Report(Blocked("manual_pause_entries", "none"))
      BY <3>2, <1>w, <1>b
    <3>3. CASE Report(Cleared(block, "manual_pause_entries"))
      BY <3>3, <1>w, <1>c
    <3> QED
      BY <1>2, <3>1, <3>2, <3>3 DEF SyncPause
  <2> QED
    BY <1>2, <2>1, <1>k DEF SyncPause
<1>3. CASE SyncRisk
  <2>1. block'.reason = "risk_reject_streak" => block.reason = "risk_reject_streak"
    <3>1. CASE \E reason \in {"max_mtm_daily_loss", "kpi_monitor"} : Report(Blocked(reason, "none"))
      BY <3>1, <1>w, <1>b
    <3>2. CASE Report(Cleared(block, "kpi_monitor"))
      BY <3>2, <1>w, <1>c
    <3> QED
      BY <1>3, <3>1, <3>2 DEF SyncRisk
  <2> QED
    BY <1>3, <2>1, <1>k DEF SyncRisk
<1>4. CASE SyncGate
  <2>1. block'.reason = "risk_reject_streak" => block.reason = "risk_reject_streak"
    <3>1. CASE UNCHANGED block
      BY <3>1
    <3>2. CASE Report(Blocked("optimizer_live_safety_gate", "none"))
      BY <3>2, <1>w, <1>b
    <3>3. CASE Report(Cleared(block, "optimizer_live_safety_gate"))
      BY <3>3, <1>w, <1>c
    <3> QED
      BY <1>4, <3>1, <3>2, <3>3 DEF SyncGate
  <2> QED
    BY <1>4, <2>1, <1>k DEF SyncGate
<1>5. CASE Evaluate("buy") \/ Evaluate("sell")
  BY <1>5, <1>k, <1>r DEF Evaluate
<1>6. CASE CountRefusal
  <2>1. at' = "counted" /\ block' = block
    BY <1>6 DEF CountRefusal
  <2>2. CASE Escalates
    <3>1. /\ streak'.count = IF streak.old THEN 1 ELSE CountUp(streak.count)
          /\ refused' = CountUp(refused)
      BY <1>6, <2>2 DEF CountRefusal
    <3>2. streak'.count <= refused' /\ (refused = MaxStreak => refused' = MaxStreak)
      BY <1>0, <3>1 DEF CountUp, StreakInv
    <3> QED
      BY <2>1, <3>2 DEF StreakInv
  <2>3. CASE ~Escalates
    BY <1>6, <2>1, <2>3, <1>k DEF CountRefusal
  <2> QED
    BY <2>2, <2>3
<1>7. CASE BlockAfterRefusal
  <2>1. at' = "trade" /\ UNCHANGED <<streak, refused>>
    BY <1>7 DEF BlockAfterRefusal
  <2>2. CASE streak.count >= MaxStreak
    BY <1>0, <2>1, <2>2 DEF StreakInv
  <2>3. CASE ~(streak.count >= MaxStreak)
    BY <1>7, <2>1, <2>3, <1>k DEF BlockAfterRefusal, Blocked
  <2> QED
    BY <2>2, <2>3
<1>8. CASE ForgetStreak
  BY <1>8, <1>0 DEF ForgetStreak, StreakInv
<1>9. CASE LiftStreakBlock
  <2>1. /\ at = "uncounted" /\ at' = "trade" /\ streak' = streak /\ refused' = 0
        /\ block' = Cleared(block, "risk_reject_streak")
    BY <1>9 DEF LiftStreakBlock
  <2>2. block'.reason # "risk_reject_streak"
    BY <2>1 DEF Cleared, Unblocked
  <2> QED
    BY <2>1, <2>2 DEF StreakInv
<1>10. CASE NewDay
  BY <1>10, <1>0, <1>k DEF NewDay, Sound, Blocks, Unblocked
<1>11. CASE TimePasses
  <2>1. block'.reason = block.reason
    BY <1>11, <1>0 DEF TimePasses, Sound, Blocks
  <2>2. streak'.count = streak.count /\ UNCHANGED <<at, refused>>
    BY <1>11 DEF TimePasses, RestOK, locals
  <2> QED
    BY <2>1, <2>2 DEF StreakInv
<1>12. CASE CloseWindow \/ Restart \/ MarketMoves \/ UNCHANGED vars
  BY <1>12, <1>k DEF CloseWindow, Restart, MarketMoves, vars, saved, locals
<1> QED
  BY <1>1, <1>2, <1>3, <1>4, <1>5, <1>6, <1>7, <1>8, <1>9, <1>10, <1>11, <1>12, Steps


(* What a step may write: the block as it was, an empty slot, or a block   *)
(* just made, which has a date only if a refused order made it.            *)
LEMMA Writes ==
  ASSUME SlotOK, RestOK, [Next]_vars
  PROVE  \/ block'.reason = block.reason /\ block'.tradeDate = block.tradeDate
         \/ block' = Unblocked
         \/ \E reason \in Reason : block' = Blocked(reason, "none")
         \/ \E reason \in {"risk_reject_streak", "max_daily_loss"} :
              block' = Blocked(reason, order.tradeDate)
         \/ NewDay
<1> DEFINE Made ==
      \/ block' = block
      \/ block' = Unblocked
      \/ \E reason \in Reason : block' = Blocked(reason, "none")
      \/ \E reason \in {"risk_reject_streak", "max_daily_loss"} :
           block' = Blocked(reason, order.tradeDate)
<1>0. Sound(block)
  BY DEF SlotOK
<1>1. ASSUME NEW reason \in Reason, Report(Blocked(reason, "none")) PROVE Made
  BY <1>1 DEF Report, Refreshed
<1>2. ASSUME NEW reason, Report(Cleared(block, reason)) PROVE Made
  BY <1>2 DEF Report, Refreshed, Cleared
<1>3. CASE OpenWindow
  <2>1. Made
    BY <1>3 DEF OpenWindow, Report, Refreshed
  <2> QED
    BY <2>1
<1>4. CASE SyncPause \/ SyncRisk \/ SyncGate
  <2>1. \/ \E reason \in Reason : Report(Blocked(reason, "none"))
        \/ \E reason \in Reason : Report(Cleared(block, reason))
        \/ block' = block
    BY <1>4 DEF SyncPause, SyncRisk, SyncGate, Reason, Daily
  <2>2. Made
    BY <2>1, <1>1, <1>2
  <2> QED
    BY <2>2
<1>5. CASE Evaluate("buy") \/ Evaluate("sell")
  BY <1>5 DEF Evaluate, Refreshed
<1>6. CASE BlockAfterRefusal
  BY <1>6 DEF BlockAfterRefusal
<1>7. CASE LiftStreakBlock
  BY <1>7 DEF LiftStreakBlock, Cleared
<1>8. CASE TimePasses
  BY <1>8, <1>0 DEF TimePasses, Sound, Blocks
<1>9. CASE \/ CloseWindow \/ Restart \/ CountRefusal \/ ForgetStreak \/ MarketMoves
           \/ UNCHANGED vars
  BY <1>9 DEF CloseWindow, Restart, CountRefusal, ForgetStreak, MarketMoves, vars, saved, locals
<1> QED
  BY <1>3, <1>4, <1>5, <1>6, <1>7, <1>8, <1>9, Steps

(* No step dates the block for the loss at market prices.                  *)
LEMMA UndatedStep == SlotOK /\ RestOK /\ UndatedInv /\ [Next]_vars => UndatedInv'
<1> SUFFICES ASSUME SlotOK, RestOK, UndatedInv, [Next]_vars PROVE UndatedInv'
  OBVIOUS
<1>1. CASE NewDay
  <2>1. block \in Blocks
    BY DEF SlotOK, Sound
  <2>2. CASE block = Unblocked
    BY <1>1, <2>2 DEF NewDay, UndatedInv
  <2>3. CASE block # Unblocked
    BY <1>1, <2>1, <2>3 DEF NewDay, UndatedInv, Blocks, Aged
  <2> QED
    BY <2>2, <2>3
<1> QED
  BY <1>1, Writes DEF UndatedInv, Unblocked, Blocked

(* The invariant always holds.                                             *)
LEMMA Always == Spec => []GoodInv
<1>1. Init => GuardInv /\ StreakInv /\ UndatedInv
  BY StreakAssumption DEF Init, GuardInv, StreakInv, UndatedInv, Unblocked, Trading
<1> QED
  BY <1>1, InitOK, SlotStep, RestStep, GuardStep, StreakStep, UndatedStep, PTL
     DEF GoodInv, Spec

(* runExecutionService: three guards write the one slot in turn, and a     *)
(* symbol is planned for buying only in a window in which none objected.   *)
THEOREM NoGuardOverruled == Spec => []NoGuardIsOverruled
<1>1. GoodInv => NoGuardIsOverruled
  BY DEF GoodInv, GuardInv, Objected, NoGuardIsOverruled, MayBuy
<1> QED
  BY <1>1, Always, PTL

(* bumpRiskRejectStreak, clearRiskRejectStreak: a streak block is earned,  *)
(* wherever the process ended between their writes.                        *)
THEOREM StreakEarned == Spec => []StreakBlockIsEarned
<1>1. GoodInv => StreakBlockIsEarned
  BY DEF GoodInv, StreakInv, StreakBlockIsEarned
<1> QED
  BY <1>1, Always, PTL
-----------------------------------------------------------------------------
(* Whoever empties the slot: the time of the block is over, or its own     *)
(* guard has found nothing.                                                *)
LEMMA WhoLifts ==
  ASSUME SlotOK, RestOK, [Next]_vars, block.reason # "none", block'.reason = "none"
  PROVE  \/ Expired(block)
         \/ block.reason = "manual_pause_entries" /\ at = "pause" /\ seen.control = "run"
         \/ block.reason = "kpi_monitor" /\ at = "risk" /\ "open_loss" \notin market
         \/ block.reason = GateReason /\ at = "gate" /\ (gate => seen'.approved)
         \/ block.reason = "risk_reject_streak" /\ at = "uncounted"
<1>0. Sound(block)
  BY DEF SlotOK
<1>1. ASSUME NEW reason \in Reason, Report(Blocked(reason, "none")) PROVE FALSE
  <2>1. block' = Blocked(reason, "none")
    BY <1>1, UndatedStays DEF Report, Refreshed
  <2> QED
    BY <2>1 DEF Blocked, Reason, Daily
<1>2. ASSUME NEW reason, Report(Cleared(block, reason))
      PROVE  block.reason = reason \/ Expired(block)
  BY <1>2 DEF Report, Refreshed, Cleared
<1>3. CASE OpenWindow
  BY <1>3 DEF OpenWindow, Report, Refreshed
<1>4. CASE SyncPause
  BY <1>4, <1>1, <1>2 DEF SyncPause, Reason
<1>5. CASE SyncRisk
  BY <1>5, <1>1, <1>2 DEF SyncRisk, Reason, Daily
<1>6. CASE SyncGate
  <2>1. at = "gate" /\ seen'.approved \in BOOLEAN
    BY <1>6 DEF SyncGate, RestOK
  <2>2. CASE block' = block
    BY <2>2
  <2>3. CASE Report(Blocked(GateReason, "none"))
    BY <2>3, <1>1 DEF GateReason, Reason
  <2>4. CASE (gate => seen'.approved) /\ Report(Cleared(block, GateReason))
    BY <2>1, <2>4, <1>2
  <2> QED
    BY <1>6, <2>2, <2>3, <2>4 DEF SyncGate, GateReason, RestOK
<1>7. CASE Evaluate("buy") \/ Evaluate("sell")
  BY <1>7 DEF Evaluate, Refreshed
<1>8. CASE BlockAfterRefusal
  BY <1>8 DEF BlockAfterRefusal, Blocked
<1>9. CASE LiftStreakBlock
  BY <1>9 DEF LiftStreakBlock, Cleared
<1>10. CASE NewDay \/ TimePasses
  BY <1>10, <1>0 DEF NewDay, TimePasses, Sound, Blocks
<1>11. CASE \/ CloseWindow \/ Restart \/ CountRefusal \/ ForgetStreak \/ MarketMoves
            \/ UNCHANGED vars
  BY <1>11 DEF CloseWindow, Restart, CountRefusal, ForgetStreak, MarketMoves, vars, saved, locals
<1> QED
  BY <1>3, <1>4, <1>5, <1>6, <1>7, <1>8, <1>9, <1>10, <1>11, Steps

(* clearEntryBlock, refreshEntryBlock: a block goes away only through the  *)
(* guard that set it or because its time is over, and the one for the loss *)
(* at market prices never does.                                            *)
THEOREM OnlyOwnerLifts == Spec => LiftedByOwner
<1> DEFINE Owned ==
      /\ LiftedOnlyIf("manual_pause_entries", at = "pause" /\ seen.control = "run")
      /\ LiftedOnlyIf("kpi_monitor", at = "risk" /\ "open_loss" \notin market)
      /\ LiftedOnlyIf("optimizer_live_safety_gate", at = "gate" /\ (gate => seen'.approved))
      /\ LiftedOnlyIf("max_daily_loss", block.tradeDate = "earlier")
      /\ LiftedOnlyIf("max_mtm_daily_loss", FALSE)
      /\ LiftedOnlyIf("risk_reject_streak", block.old \/ at = "uncounted")
<1>1. GoodInv /\ [Next]_vars => Owned
  <2> SUFFICES ASSUME GoodInv, [Next]_vars, block.reason # "none", block'.reason = "none"
               PROVE  Owned
    BY DEF LiftedOnlyIf
  <2>1. block.reason = "max_mtm_daily_loss" => ~Expired(block)
    BY DEF GoodInv, UndatedInv, Expired
  <2> QED
    BY <2>1, WhoLifts DEF GoodInv, LiftedOnlyIf, Expired, Daily, GateReason
<1>2. Spec => [][Owned]_vars
  <2>1. GoodInv /\ [Next]_vars => [Owned]_vars
    BY <1>1
  <2> QED
    BY <2>1, Always, PTL DEF Spec
<1> QED
  BY <1>2 DEF LiftedByOwner
=============================================================================
