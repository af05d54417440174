----------------------------- MODULE Optimizer -----------------------------
(***************************************************************************)
(* The optimizer as a process: src/app/optimize.js under PM2, which starts *)
(* it again an hour after it ended and kills it at every full hour, and    *)
(* beside one that is started by hand. It takes a lock file, reads the     *)
(* list of markets the trader has written (or fetches and writes one       *)
(* itself), searches for parameters, writes its report and removes the     *)
(* lock. The search is one step: it finds something to report or does not. *)
(***************************************************************************)
EXTENDS Naturals, FiniteSets

CONSTANTS
  Process,     \* the optimizers
  Trader,      \* the other process that writes the list of markets
  ListContent, \* what a list may hold: "some" symbols, or ("empty") none
  UseUniverse, \* optimizer.useMarketUniverseSymbols
  MayOverrun,  \* may a search take longer than the lock lives?
  MaxFaults    \* bound: kills, failed writes

ASSUME OptimizerAssumption ==
  /\ Trader \notin Process /\ "nobody" \notin Process /\ ListContent \subseteq {"some", "empty"}
  /\ UseUniverse \in BOOLEAN /\ MayOverrun \in BOOLEAN /\ MaxFaults \in Nat

VARIABLES
  at,       \* at[o]: where optimizer o is
  lock,     \* the lock file: whose it is, and whether it is older than lockTtlSec
  robbed,   \* did a lock grow old under a live holder, or was a young one
            \* deleted as stale? (history)
  faults,   \* faults so far
  list, listTemp, listFd, listOverlap,         \* the file of the markets
  report, reportTemp, reportFd, reportOverlap  \* the file of the report

List == INSTANCE ReplacedFile WITH
  Writer <- Process \union {Trader}, Name <- {"list.tmp"},
  NameOf <- [w \in Process \union {Trader} |-> "list.tmp"],
  Content <- ListContent, Cleans <- FALSE,
  file <- list, temp <- listTemp, fd <- listFd, overlap <- listOverlap

Report == INSTANCE ReplacedFile WITH
  Writer <- Process, Name <- Process, NameOf <- [o \in Process |-> o],
  Content <- {"report"}, Cleans <- TRUE,
  file <- report, temp <- reportTemp, fd <- reportFd, overlap <- reportOverlap

listVars == <<list, listTemp, listFd, listOverlap>>
reportVars == <<report, reportTemp, reportFd, reportOverlap>>
vars == <<at, lock, robbed, faults, listVars, reportVars>>

NoLock == [by |-> "nobody", old |-> FALSE]

Init ==
  /\ at = [o \in Process |-> "down"]
  /\ lock = NoLock
  /\ robbed = FALSE /\ faults = 0
  /\ List!Init /\ Report!Init

Fault == faults < MaxFaults /\ faults' = faults + 1
Goes(o, from, to) == at[o] = from /\ at' = [at EXCEPT ![o] = to]
-----------------------------------------------------------------------------
(* Mutant: the flag wx is missing.                                         *)
TakeLockShared(o) ==
  /\ Goes(o, "down", "load")
  /\ lock' = [by |-> o, old |-> FALSE]
  /\ UNCHANGED <<robbed, faults, listVars, reportVars>>

(* The process is started, or tries again: acquireOptimizeLock creates the *)
(* lock file with flag wx.                                                 *)
TakeLock(o) ==
  /\ lock = NoLock
  /\ Goes(o, "down", "load")
  /\ lock' = [by |-> o, old |-> FALSE]
  /\ UNCHANGED <<robbed, faults, listVars, reportVars>>

(* EEXIST.                                                                 *)
LockExists(o) ==
  /\ lock # NoLock
  /\ Goes(o, "down", "stat")
  /\ UNCHANGED <<lock, robbed, faults, listVars, reportVars>>

(* Mutant: a lock is never stale.                                          *)
StatLockAlwaysBusy(o) ==
  /\ \/ lock # NoLock /\ Goes(o, "stat", "down")
     \/ lock = NoLock /\ Goes(o, "stat", "unlink")
  /\ UNCHANGED <<lock, robbed, faults, listVars, reportVars>>

(* fs.stat: a lock that is young is respected, and the run is skipped. One *)
(* that is old, or gone by now, is deleted.                                *)
StatLock(o) ==
  /\ \/ lock # NoLock /\ ~lock.old /\ Goes(o, "stat", "down")
     \/ (lock = NoLock \/ lock.old) /\ Goes(o, "stat", "unlink")
  /\ UNCHANGED <<lock, robbed, faults, listVars, reportVars>>

(* fs.unlink deletes what is there now.                                    *)
Unlink(o) ==
  /\ Goes(o, "unlink", "down")
  /\ lock' = NoLock
  /\ robbed' = (robbed \/ (lock # NoLock /\ ~lock.old))
  /\ UNCHANGED <<faults, listVars, reportVars>>
-----------------------------------------------------------------------------
(* loadMarketUniverseSymbols: the symbols of the file will do; what does   *)
(* not parse leaves the configured ones; no file, or none in it, asks for a*)
(* refresh (maybeRefresh, forced), which may fail.                         *)
Load(o) ==
  /\ \/ (~UseUniverse \/ list \in {"some", "torn"}) /\ Goes(o, "load", "search")
     \/ UseUniverse /\ list \in {"absent", "empty", "torn"} /\ Goes(o, "load", "boot")
  /\ UNCHANGED <<lock, robbed, faults, listVars, reportVars>>

(* Mutant: the refresh is not awaited.                                     *)
BootNotAwaited(o) ==
  /\ Goes(o, "boot", "search")
  /\ UNCHANGED <<lock, robbed, faults, listVars, reportVars>>

(* The markets cannot be fetched, and there is no other list.              *)
BootFails(o) ==
  /\ listFd[o].step = "closed"
  /\ Goes(o, "boot", "search")
  /\ UNCHANGED <<lock, robbed, faults, listVars, reportVars>>

(* The write fails, or the temporary file was renamed by another writer.   *)
ListFails(w) ==
  /\ List!Fail(w)
  /\ IF listTemp["list.tmp"] = "absent" THEN UNCHANGED faults ELSE Fault

(* writeSnapshot of the refreshed list.                                    *)
BootWrites(o) ==
  /\ at[o] = "boot"
  /\ (\E content \in ListContent : List!Open(o, content)) \/ List!Fill(o)
  /\ UNCHANGED <<at, lock, robbed, faults, reportVars>>

BootEnds(o) ==
  /\ Goes(o, "boot", "search")
  /\ \/ List!Rename(o) /\ UNCHANGED faults
     \/ ListFails(o)
  /\ UNCHANGED <<lock, robbed, reportVars>>

(* optimizeTradingStrategies; without candles or candidates there is no    *)
(* report.                                                                 *)
Search(o) ==
  /\ Goes(o, "search", "write") \/ Goes(o, "search", "release")
  /\ UNCHANGED <<lock, robbed, faults, listVars, reportVars>>

(* writeJson of the report.                                                *)
ReportWrites(o) ==
  /\ at[o] = "write"
  /\ Report!Open(o, "report") \/ Report!Fill(o)
  /\ UNCHANGED <<at, lock, robbed, faults, listVars>>

ReportEnds(o) ==
  /\ Goes(o, "write", "release")
  /\ \/ Report!Rename(o) /\ UNCHANGED faults
     \/ Report!Fail(o) /\ Fault
  /\ UNCHANGED <<lock, robbed, listVars>>

(* releaseOptimizeLock, in the finally clause: the lock is deleted by name.*)
Release(o) ==
  /\ Goes(o, "release", "down")
  /\ lock' = NoLock
  /\ UNCHANGED <<robbed, faults, listVars, reportVars>>

(* cron_restart kills the process, wherever it is.                         *)
Kill(o) ==
  /\ at[o] # "down" /\ Fault
  /\ at' = [at EXCEPT ![o] = "down"]
  /\ List!Abandon(o) /\ Report!Abandon(o)
  /\ UNCHANGED <<lock, robbed>>

Holds(o) == at[o] \in {"load", "boot", "search", "write", "release"}
Orphaned == lock # NoLock /\ ~Holds(lock.by)

(* lockTtlSec passes.                                                      *)
LockAges ==
  /\ lock # NoLock /\ ~lock.old
  /\ Orphaned \/ MayOverrun
  /\ lock' = [lock EXCEPT !.old = TRUE]
  /\ robbed' = (robbed \/ ~Orphaned)
  /\ UNCHANGED <<at, faults, listVars, reportVars>>

(* The trader refreshes the list.                                          *)
TraderWrites ==
  /\ \/ (\E content \in ListContent : List!Open(Trader, content)) /\ UNCHANGED faults
     \/ (List!Fill(Trader) \/ List!Rename(Trader)) /\ UNCHANGED faults
     \/ ListFails(Trader)
  /\ UNCHANGED <<at, lock, robbed, reportVars>>

Step(o) ==
  \/ TakeLock(o) \/ LockExists(o) \/ StatLock(o) \/ Unlink(o)
  \/ Load(o) \/ BootFails(o) \/ BootWrites(o) \/ BootEnds(o)
  \/ Search(o) \/ ReportWrites(o) \/ ReportEnds(o) \/ Release(o)

Next ==
  \/ \E o \in Process : Step(o) \/ Kill(o)
  \/ LockAges \/ TraderWrites

Spec == Init /\ [][Next]_vars

(* Processes run and are started again, and the files of the dead age.     *)
FairSpec == Spec /\ (\A o \in Process : WF_vars(Step(o))) /\ WF_vars(Orphaned /\ LockAges)
-----------------------------------------------------------------------------
TypeOK ==
  /\ at \in [Process -> {"down", "stat", "unlink", "load", "boot",
                         "search", "write", "release"}]
  /\ lock \in [by : Process \union {"nobody"}, old : BOOLEAN]
  /\ \A o \in Process : /\ listFd[o].step # "closed" => at[o] = "boot"
                        /\ reportFd[o].step # "closed" => at[o] = "write"
  /\ List!TypeOK /\ Report!TypeOK
  /\ robbed \in BOOLEAN
  /\ faults \in 0 .. MaxFaults

(* The lock: two optimizers search at once only if a search took longer    *)
(* than its lock lives, or if one of them deleted a lock it had not seen.  *)
OneAtATime ==
  \A o, p \in Process : Holds(o) /\ Holds(p) /\ o # p => robbed

(* USAGE_KO.md: files are replaced atomically. The trader's gate reads a   *)
(* whole report even when two optimizers write theirs at once.             *)
ReportIsWhole == report # "torn"

(* The list of markets, whose temporary file has one name only, is whole   *)
(* unless the trader and an optimizer, or two optimizers, wrote it at once.*)
ListIsWhole == List!WholeUnlessShared

(* Research goes on: whatever was killed, and whatever lock it left behind,*)
(* a search is begun again and again.                                      *)
ResearchGoesOn == []<>(\E o \in Process : at[o] = "search")
=============================================================================
