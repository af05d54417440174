--------------------------- MODULE TraderService ---------------------------
(***************************************************************************)
(* The trader as a process: runExecutionService of src/app/run.js with the *)
(* settings it reads (src/app/strategy-settings.js), the list of markets it*)
(* keeps (MarketUniverse) and the streams of its windows (TickerStream).   *)
(* Round after round it reads the settings, minds the guards on entries,   *)
(* plans a window for every symbol held and one for the symbol to be       *)
(* entered, runs them one after the other, and refreshes the list. A signal*)
(* stops it; PM2 starts it again after a crash.                            *)
(*                                                                         *)
(* The guards other than the manual pause (the subject of EntryBlock) and  *)
(* what happens in a window but for its end (of RealtimeWindow) are        *)
(* choices; holdings come and go at any time. A socket that outlives its   *)
(* window is followed until the next window opens.                         *)
(***************************************************************************)
EXTENDS MarketUniverse, TickerStream, SequencesExt

CONSTANTS
  Holdable,    \* the symbols that may be held
  Configured,  \* execution.symbol of the configuration
  Wanted,      \* the symbols that the settings may name
  MaxFaults    \* bound: failed reads of the account, crashes

ASSUME ServiceAssumption ==
  /\ Holdable \subseteq Symbol /\ {Configured} \union Wanted \subseteq Symbol
  /\ MaxFaults \in Nat

VARIABLES
  pc,        \* where runExecutionService is
  stop,      \* stopRequested, and stopController.signal.aborted
  settings,  \* what the operator's settings file says
  manual,    \* is the entry block of the manual pause set? (on disk)
  target,    \* the symbol this round may enter, as a set: requestedSymbols
  plans,     \* the windows still to run in this round
  list,      \* marketUniverse.snapshot.symbols
  held,      \* the symbols held, worth an order at least
  open,      \* is a window open? Its plan is the first of plans
  jobs,      \* does it have jobs in its chain?
  overtaken, \* entry windows opened since the pause was asked for (history)
  faults     \* faults so far

round == <<target, plans>>
trader == <<pc, stop, manual, round, list>>
window == <<stream, open, jobs>>
world == <<settings, held>>
vars == <<trader, window, world, overtaken, faults>>

(* The template that the service writes leaves the pause unsaid.           *)
Settings == [enabled : BOOLEAN, pause : {"on", "off", "unsaid"}, symbol : Wanted]
Defaults == [enabled |-> TRUE, pause |-> "unsaid", symbol |-> Configured]

Init ==
  /\ pc = "start" /\ stop = FALSE
  /\ settings \in Settings
  /\ manual = FALSE
  /\ target = {} /\ plans = <<>>
  /\ list = NoList
  /\ held \in SUBSET Holdable
  /\ stream = NoStream /\ open = FALSE /\ jobs = FALSE
  /\ overtaken = 0
  /\ faults = 0

Fault == faults < MaxFaults /\ faults' = faults + 1
-----------------------------------------------------------------------------
(* trader.init, the preflight check and the first refresh of the list,     *)
(* whose failure is ignored.                                               *)
Start ==
  /\ pc = "start"
  /\ pc' = "read"
  /\ list' \in Lists \union {NoList}
  /\ UNCHANGED <<stop, world, manual, round, window, overtaken, faults>>

(* `while (!stopRequested)` is over.                                       *)
Leave ==
  /\ pc = "read" /\ stop
  /\ pc' = "ended"
  /\ UNCHANGED <<stop, world, manual, round, list, window, overtaken, faults>>

(* strategySettings.read: the file, or the defaults if it is stale or      *)
(* cannot be read; they say nothing of the pause, as the file may.         *)
Read == {settings, Defaults}

(* Mutant: the pause is minded from the next round on.                     *)
ReadSettingsSyncsLater ==
  /\ pc = "read" /\ ~stop
  /\ \E said \in Read, other \in BOOLEAN :
       LET paused == said.pause = "on" \/ (said.pause = "unsaid" /\ manual)
       IN  /\ manual' = IF said.enabled THEN paused ELSE manual
           /\ pc' = IF said.enabled THEN "plan" ELSE "refresh"
           /\ target' = IF manual \/ other THEN {} ELSE FilterSymbols(list, {said.symbol})
           /\ overtaken' = IF settings.pause = "on" /\ said.pause = "unsaid" THEN 0 ELSE overtaken
  /\ UNCHANGED <<stop, world, plans, list, window, faults>>

(* ... syncManualPause and the other guards; filterSymbols. Disabled by the*)
(* settings, the round has no windows at all. A pause that could not be    *)
(* read is not one the round has to mind.                                  *)
ReadSettings ==
  /\ pc = "read" /\ ~stop
  /\ \E said \in Read, other \in BOOLEAN :
       LET paused == said.pause = "on" \/ (said.pause = "unsaid" /\ manual)
       IN  /\ manual' = IF said.enabled THEN paused ELSE manual
           /\ pc' = IF said.enabled THEN "plan" ELSE "refresh"
           /\ target' = IF paused \/ other THEN {} ELSE FilterSymbols(list, {said.symbol})
           /\ overtaken' = IF settings.pause = "on" /\ said.pause = "unsaid" THEN 0 ELSE overtaken
  /\ UNCHANGED <<stop, world, plans, list, window, faults>>

Plan(symbol, entry) == [symbol |-> symbol, entry |-> entry]

(* Mutant: the configured symbol is never protected.                       *)
PlansWithoutConfigured(protected, requested) ==
  SetToSeq({Plan(s, FALSE) : s \in protected \ (requested \union {Configured})})
    \o SetToSeq({Plan(s, TRUE) : s \in requested})

(* buildExecutionPlans: exits of what is held first.                       *)
Plans(protected, requested) ==
  SetToSeq({Plan(s, FALSE) : s \in protected \ requested})
    \o SetToSeq({Plan(s, TRUE) : s \in requested})

(* resolveProtectedSymbols, from the account or, if the exchange does not  *)
(* answer, from what was saved of it last, of whatever age.                *)
MakePlans ==
  /\ pc = "plan" /\ pc' = "window"
  /\ \/ plans' = Plans(held, target) /\ UNCHANGED faults
     \/ Fault /\ \E saved \in SUBSET Holdable : plans' = Plans(saved, target)
  /\ target' = {}
  /\ UNCHANGED <<stop, world, manual, list, window, overtaken>>
-----------------------------------------------------------------------------
(* runStrategyRealtime opens the stream of the next window, or fails to;   *)
(* once the stop signal was given the stream is closed at once.            *)
OpenWindow ==
  /\ pc = "window" /\ plans # <<>> /\ ~open
  /\ \/ /\ open' = TRUE /\ UNCHANGED plans
        /\ stream' = IF stop THEN CloseSafely(Connecting) ELSE Connecting
        /\ overtaken' = IF Head(plans).entry /\ settings.pause = "on" /\ overtaken < 2
                          THEN overtaken + 1 ELSE overtaken
        /\ UNCHANGED faults
     \/ Fault /\ plans' = Tail(plans) /\ UNCHANGED <<open, stream, overtaken>>
  /\ UNCHANGED <<pc, stop, world, manual, target, list, jobs>>

(* windowSec is over, or onError: the socket reports an error.             *)
EndWindow ==
  /\ open
  /\ stream' = CloseSafely(stream)
  /\ UNCHANGED <<trader, world, open, jobs, overtaken, faults>>

(* What the socket does, in a window or after one.                         *)
SocketMoves ==
  /\ OnOpen \/ Receive \/ OnClose
  /\ UNCHANGED <<trader, world, open, jobs, overtaken, faults>>

(* The timer of closeSafely fires.                                         *)
GiveUpClose ==
  /\ ForcedClose
  /\ UNCHANGED <<trader, world, open, jobs, overtaken, faults>>

(* A decoded message is a tick, and onTicker chains a job to the window it *)
(* was opened for (which does not mind those chained too late); or it is an*)
(* error, which closes the stream; or it is of no interest.                *)
ReadMessage ==
  /\ stream.reading > 0
  /\ \/ stream' = Decoded(stream) /\ jobs' = (jobs \/ (open /\ ~stream.ended))
     \/ stream' = CloseSafely(Decoded(stream)) /\ UNCHANGED jobs
     \/ stream' = Decoded(stream) /\ UNCHANGED jobs
  /\ UNCHANGED <<trader, world, open, overtaken, faults>>

JobsDone ==
  /\ jobs /\ jobs' = FALSE
  /\ UNCHANGED <<trader, world, stream, open, overtaken, faults>>

(* Mutant: `await processing` is missing.                                  *)
ReturnWithJobs ==
  /\ open /\ stream.ended
  /\ open' = FALSE
  /\ plans' = Tail(plans)
  /\ UNCHANGED <<pc, stop, world, manual, target, list, stream, jobs, overtaken, faults>>

(* Mutant: the window does not wait for the stream to be closed.           *)
ReturnOnCloseCall ==
  /\ open /\ stream.closed /\ ~jobs
  /\ open' = FALSE
  /\ plans' = Tail(plans)
  /\ UNCHANGED <<pc, stop, world, manual, target, list, stream, jobs,
                 overtaken, faults>>

(* runStrategyRealtime returns after `await streamHandle.closed` and `await*)
(* processing`; the next plan has its turn.                                *)
Return ==
  /\ open /\ stream.ended /\ ~jobs
  /\ open' = FALSE
  /\ plans' = Tail(plans)
  /\ UNCHANGED <<pc, stop, world, manual, target, list, stream, jobs,
                 overtaken, faults>>

(* The round is over: maybeRefresh, if there is no list or the time has    *)
(* come. A refresh that fails leaves the list as it is. Then a short sleep.*)
EndRound ==
  /\ \/ pc = "window" /\ plans = <<>>
     \/ pc = "refresh"
  /\ pc' = "read"
  /\ list' \in Lists \union {list}
  /\ UNCHANGED <<stop, world, manual, round, window, overtaken, faults>>
-----------------------------------------------------------------------------
(* SIGTERM or SIGINT: `abort` closes the stream that is open.              *)
Signal ==
  /\ pc \notin {"start", "ended"} /\ ~stop
  /\ stop' = TRUE
  /\ stream' = IF open THEN CloseSafely(stream) ELSE stream
  /\ UNCHANGED <<pc, world, manual, round, list, open, jobs, overtaken, faults>>

Reset ==
  /\ pc' = "start" /\ stop' = FALSE
  /\ target' = {} /\ plans' = <<>> /\ list' = NoList
  /\ stream' = NoStream /\ open' = FALSE /\ jobs' = FALSE

(* The process is killed or an error escapes the loop (main().catch), and  *)
(* PM2 starts it again; what is on disk stays.                             *)
Crash ==
  /\ pc # "ended" /\ Fault
  /\ Reset
  /\ UNCHANGED <<world, manual, overtaken>>

(* The operator starts the service that a signal has ended.                *)
StartAgain ==
  /\ pc = "ended"
  /\ Reset
  /\ UNCHANGED <<world, manual, overtaken, faults>>

(* The operator writes the settings.                                       *)
WriteSettings ==
  /\ settings' \in Settings
  /\ overtaken' = 0
  /\ UNCHANGED <<trader, window, held, faults>>

(* Orders are filled; coins are moved or traded by hand.                   *)
HoldingsChange ==
  /\ held' \in SUBSET Holdable
  /\ UNCHANGED <<trader, window, settings, overtaken, faults>>

Loop == Start \/ Leave \/ ReadSettings \/ MakePlans \/ OpenWindow \/ Return \/ EndRound
Window == EndWindow \/ SocketMoves \/ GiveUpClose \/ ReadMessage \/ JobsDone
Outside == Signal \/ Crash \/ StartAgain \/ WriteSettings \/ HoldingsChange

Next == Loop \/ Window \/ Outside

Spec == Init /\ [][Next]_vars

(* Promises settle and timers fire; the socket owes nothing.               *)
FairSpec ==
  /\ Spec
  /\ WF_vars(Loop) /\ WF_vars(JobsDone)
  /\ WF_vars(EndWindow) /\ WF_vars(GiveUpClose)
-----------------------------------------------------------------------------
TypeOK ==
  /\ pc \in {"start", "read", "plan", "window", "refresh", "ended"}
  /\ stop \in BOOLEAN /\ settings \in Settings /\ manual \in BOOLEAN
  /\ target \subseteq Symbol
  /\ plans \in Seq([symbol : Symbol, entry : BOOLEAN])
  /\ list = NoList \/ list \subseteq Symbol
  /\ held \subseteq Holdable
  /\ stream \in [socket : {"none", "connecting", "open", "closing", "dead"}, closed : BOOLEAN,
                 ended : BOOLEAN, forced : BOOLEAN, slow : BOOLEAN,
                 reading : 0 .. MaxReading]
  /\ {open, jobs} \subseteq BOOLEAN
  /\ jobs => open
  /\ open => pc = "window" /\ plans # <<>>
  /\ overtaken \in 0 .. 2 /\ faults \in 0 .. MaxFaults

Watching(s) == open /\ Head(plans).symbol = s /\ ~stream.closed

(* README 3.B and USAGE_KO.md: what is held is watched for an exit, also   *)
(* while entries are blocked, the market is off the list, or the account   *)
(* could not be read for a while: window after window, as long as the      *)
(* settings leave the execution enabled.                                   *)
HeldAreWatched ==
  \A s \in Holdable :
    <>[](s \in held /\ settings.enabled /\ ~stop /\ pc # "ended") => []<>Watching(s)

(* A stop signal ends the service, through all windows of the round and    *)
(* whatever their sockets do.                                              *)
SignalEndsService == stop ~> pc = "ended" \/ ~stop

(* syncManualPause comes before the plans of the round: a pause that the   *)
(* operator asked for, and that can be read, is overtaken by the entry     *)
(* window of one round at most, however long its windows last.             *)
PauseOvertakenOnce == overtaken <= 1

(* excludeSymbols comes before all else: an excluded symbol is entered     *)
(* only while there is no list, or an empty one.                           *)
ExcludedNotEntered ==
  \A i \in DOMAIN plans :
    plans[i].entry /\ plans[i].symbol \in Exclude => list \in {NoList, {}}

(* Each window minds its own jobs: a message may still make a job of a     *)
(* window that waits for no more of them only if the peer did not answer   *)
(* close() in time, or if it was being decoded when the stream closed.     *)
JobsEndWithTheirWindow ==
  (~open \/ stream.ended) /\ (Alive(stream) \/ stream.reading > 0)
    => stream.forced \/ stream.slow
=============================================================================
