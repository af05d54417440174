-------------------------- MODULE OptimizerProofs --------------------------
(***************************************************************************)
(* Proofs about Optimizer, for any processes, contents and bounds.         *)
(***************************************************************************)
EXTENDS Optimizer, TLAPS

Where == {"down", "stat", "unlink", "load", "boot", "search", "write", "release"}

(* Until the lock is robbed, whoever holds it is the one it names, and it  *)
(* is young.                                                               *)
LockInv ==
  /\ at \in [Process -> Where]
  /\ lock \in [by : Process \union {"nobody"}, old : BOOLEAN]
  /\ robbed \in BOOLEAN
  /\ ~robbed => \A o \in Process : Holds(o) => lock.by = o /\ ~lock.old

(* The lock, at the start.                                                 *)
LEMMA LockInit == Init => LockInv
<1> SUFFICES ASSUME Init PROVE LockInv
  OBVIOUS
<1>1. lock = [by |-> "nobody", old |-> FALSE] /\ robbed = FALSE
  BY DEF Init, NoLock
<1>2. at \in [Process -> {"down"}]
  BY DEF Init
<1> QED
  BY <1>1, <1>2 DEF LockInv, Holds, Where

(* Steps that leave the lock alone and hold no more than before.           *)
LEMMA LockUntouched ==
  ASSUME LockInv, UNCHANGED <<lock, robbed>>,
         at' \in [Process -> Where],
         \A o \in Process : Holds(o)' => Holds(o)
  PROVE  LockInv'
  BY DEF LockInv, Holds, Where

(* Every step keeps the lock with the one it names.                        *)
LEMMA LockStep == LockInv /\ [Next]_vars => LockInv'
<1> SUFFICES ASSUME LockInv, [Next]_vars PROVE LockInv'
  OBVIOUS
<1> USE OptimizerAssumption
<1>1. ASSUME NEW o \in Process, TakeLock(o) PROVE LockInv'
  BY <1>1 DEF TakeLock, Goes, LockInv, Holds, Where, NoLock
<1>2. ASSUME NEW o \in Process, Unlink(o) PROVE LockInv'
  BY <1>2 DEF Unlink, Goes, LockInv, Holds, Where, NoLock
<1>3. ASSUME NEW o \in Process, Release(o) PROVE LockInv'
  BY <1>3 DEF Release, Goes, LockInv, Holds, Where, NoLock
<1>4. CASE LockAges
  BY <1>4 DEF LockAges, LockInv, Orphaned, Holds, Where, NoLock
<1>5. ASSUME NEW o \in Process,
             LockExists(o) \/ StatLock(o) \/ Load(o) \/ BootFails(o) \/ BootWrites(o)
      PROVE  LockInv'
  BY <1>5, LockUntouched
     DEF LockExists, StatLock, Load, BootFails, BootWrites, Goes, LockInv, Holds, Where
<1>6. ASSUME NEW o \in Process,
             BootEnds(o) \/ Search(o) \/ ReportWrites(o) \/ ReportEnds(o) \/ Kill(o)
      PROVE  LockInv'
  BY <1>6, LockUntouched
     DEF BootEnds, Search, ReportWrites, ReportEnds, Kill, Goes, LockInv, Holds, Where
<1>7. CASE TraderWrites
  BY <1>7, LockUntouched DEF TraderWrites, LockInv, Holds, Where
<1>8. CASE UNCHANGED vars
  BY <1>8, LockUntouched DEF vars, LockInv, Holds, Where
<1> QED
  BY <1>1, <1>2, <1>3, <1>4, <1>5, <1>6, <1>7, <1>8 DEF Next, Step

(* Two optimizers work at once only if a search overran the life of its    *)
(* lock, or a lock was deleted unseen.                                     *)
THEOREM OneOptimizer == Spec => []OneAtATime
<1>1. LockInv => OneAtATime
  BY DEF LockInv, OneAtATime
<1> QED
  BY <1>1, LockInit, LockStep, PTL DEF Spec
-----------------------------------------------------------------------------
(* The report: every temporary file has one writer, which renames it only  *)
(* after it has filled it.                                                 *)
ReportInv ==
  /\ report # "torn"
  /\ reportFd \in [Process -> [step : {"closed", "opened", "filled"}, at : {"temp", "gone"},
                               new : {"report", "absent"}, shared : {FALSE}]]
  /\ reportTemp \in [Process -> {"report", "absent", "torn"}]
  /\ \A o \in Process :
       /\ reportFd[o].step = "opened" =>
            reportFd[o].new = "report" /\ reportFd[o].at = "temp"
       /\ reportFd[o].step = "filled" => reportTemp[o] # "torn"

(* The report, at the start.                                               *)
LEMMA ReportInit == Init => ReportInv
  BY DEF Init, Report!Init, Report!Closed, ReportInv

(* Nobody shares the temporary file of a report.                           *)
LEMMA OwnNames == \A o \in Process : Report!With(o) = {}
  BY DEF Report!With

(* Every step keeps the report whole.                                      *)
LEMMA ReportStep == ReportInv /\ [Next]_vars => ReportInv'
<1> SUFFICES ASSUME ReportInv, [Next]_vars PROVE ReportInv'
  OBVIOUS
<1> USE DEF ReportInv
<1>1. ASSUME NEW o \in Process, Report!Open(o, "report") PROVE ReportInv'
  <2>1. reportTemp' = [reportTemp EXCEPT ![o] = "torn"] /\ report' = report
    BY <1>1 DEF Report!Open
  <2>2. reportFd' = [v \in Process |->
                      IF v = o THEN [step |-> "opened", at |-> "temp", new |-> "report",
                                     shared |-> FALSE]
                      ELSE reportFd[v]]
    BY <1>1, OwnNames DEF Report!Open
  <2> QED
    BY <2>1, <2>2
<1>2. ASSUME NEW o \in Process, Report!Fill(o) PROVE ReportInv'
  <2>1. reportFd[o].new = "report" /\ reportFd[o].shared = FALSE /\ reportFd[o].at # "file"
    BY <1>2 DEF Report!Fill
  <2>2. report' = report
    BY <1>2, <2>1 DEF Report!Fill
  <2>3. reportFd' = [reportFd EXCEPT ![o].step = "filled"]
    BY <1>2 DEF Report!Fill
  <2>4. reportFd[o].at = "temp" => reportTemp' = [reportTemp EXCEPT ![o] = "report"]
    BY <1>2, <2>1 DEF Report!Fill
  <2>5. reportFd[o].at = "temp"
    BY <1>2 DEF Report!Fill
  <2>6. reportTemp' = [reportTemp EXCEPT ![o] = "report"]
    BY <2>4, <2>5
  <2>7. \A p \in Process :
          p # o => reportFd'[p] = reportFd[p] /\ reportTemp'[p] = reportTemp[p]
    BY <2>3, <2>6
  <2>8. reportFd'[o].step = "filled" /\ reportTemp'[o] = "report"
    BY <2>3, <2>6
  <2>9. reportFd' \in [Process -> [step : {"closed", "opened", "filled"},
                                   at : {"temp", "gone"},
                                   new : {"report", "absent"}, shared : {FALSE}]]
    BY <2>3
  <2>10. reportTemp' \in [Process -> {"report", "absent", "torn"}]
    BY <2>6
  <2> HIDE DEF ReportInv
  <2>11. report # "torn" /\ \A p \in Process :
           /\ reportFd[p].step = "opened" =>
                reportFd[p].new = "report" /\ reportFd[p].at = "temp"
           /\ reportFd[p].step = "filled" => reportTemp[p] # "torn"
    BY DEF ReportInv
  <2> QED
    BY <2>2, <2>7, <2>8, <2>9, <2>10, <2>11 DEF ReportInv
<1>3. ASSUME NEW o \in Process, Report!Rename(o) PROVE ReportInv'
  BY <1>3 DEF Report!Rename, Report!Moved, Report!Closed
<1>4. ASSUME NEW o \in Process, Report!Fail(o) PROVE ReportInv'
  BY <1>4, OwnNames DEF Report!Fail, Report!Closed
<1>5. ASSUME NEW o \in Process, Report!Abandon(o) PROVE ReportInv'
  BY <1>5 DEF Report!Abandon, Report!Closed
<1>6. CASE UNCHANGED reportVars
  BY <1>6 DEF reportVars
<1>7. ASSUME NEW o \in Process, Step(o) PROVE ReportInv'
  <2>1. CASE ReportWrites(o)
    BY <2>1, <1>1, <1>2 DEF ReportWrites
  <2>2. CASE ReportEnds(o)
    BY <2>2, <1>3, <1>4 DEF ReportEnds
  <2>3. CASE TakeLock(o) \/ LockExists(o) \/ StatLock(o) \/ Unlink(o) \/ Load(o)
    BY <2>3, <1>6 DEF TakeLock, LockExists, StatLock, Unlink, Load
  <2>4. CASE BootFails(o) \/ BootWrites(o) \/ BootEnds(o) \/ Search(o) \/ Release(o)
    BY <2>4, <1>6 DEF BootFails, BootWrites, BootEnds, Search, Release
  <2> QED
    BY <1>7, <2>1, <2>2, <2>3, <2>4 DEF Step
<1>8. ASSUME NEW o \in Process, Kill(o) PROVE ReportInv'
  BY <1>8, <1>5 DEF Kill
<1>9. CASE LockAges \/ TraderWrites \/ UNCHANGED vars
  BY <1>9, <1>6 DEF LockAges, TraderWrites, vars
<1> QED
  BY <1>7, <1>8, <1>9 DEF Next

(* Nobody ever reads half a report, whoever writes his at the same time.   *)
THEOREM ReportAlwaysWhole == Spec => []ReportIsWhole
<1>1. ReportInv => ReportIsWhole
  BY DEF ReportInv, ReportIsWhole
<1> QED
  BY <1>1, ReportInit, ReportStep, PTL DEF Spec
-----------------------------------------------------------------------------
(* The list of markets: until two writers overlap, at most one has the     *)
(* temporary file open, and what it renames is filled.                     *)
ListWriter == Process \union {Trader}

ListTypes ==
  /\ listFd \in [ListWriter -> [step : {"closed", "opened", "filled"},
                                at : {"temp", "file", "gone"},
                                new : ListContent \union {"absent"}, shared : BOOLEAN]]
  /\ listTemp \in [{"list.tmp"} -> ListContent \union {"absent", "torn"}]
  /\ listOverlap \in BOOLEAN
  /\ \A w \in ListWriter : listFd[w].step = "opened" => listFd[w].new \in ListContent

Apart ==
  /\ list # "torn"
  /\ \A w \in ListWriter :
       /\ listFd[w].step # "closed" => listFd[w].at = "temp" /\ ~listFd[w].shared
       /\ listFd[w].step = "filled" => listTemp["list.tmp"] # "torn"
  /\ \A v, w \in ListWriter :
       listFd[v].step # "closed" /\ listFd[w].step # "closed" => v = w

ListInv == ListTypes /\ (~listOverlap => Apart)

(* The list, at the start.                                                 *)
LEMMA ListInit == Init => ListInv
<1> SUFFICES ASSUME Init PROVE ListInv
  OBVIOUS
<1>1. list = "absent" /\ listTemp = [n \in {"list.tmp"} |-> "absent"] /\ listOverlap = FALSE
  BY DEF Init, List!Init
<1>2. listFd = [w \in ListWriter |-> [step |-> "closed", at |-> "gone", new |-> "absent",
                                      shared |-> FALSE]]
  BY DEF Init, List!Init, List!Closed, ListWriter
<1> QED
  BY <1>1, <1>2 DEF ListInv, ListTypes, Apart

(* Opening the temporary file of the list keeps its invariant.             *)
LEMMA ListOpen ==
  ASSUME ListInv, NEW w \in ListWriter, NEW c \in ListContent, List!Open(w, c)
  PROVE  ListInv'
<1> USE DEF ListWriter
<1>1. ListTypes'
  <2>1. listTemp' = [listTemp EXCEPT !["list.tmp"] = "torn"] /\ listOverlap' \in BOOLEAN
    BY DEF List!Open, ListInv, ListTypes
  <2>2. PICK shared \in BOOLEAN, others \in SUBSET ListWriter :
          listFd' = [v \in ListWriter |->
                       IF v = w THEN [step |-> "opened", at |-> "temp", new |-> c,
                                      shared |-> shared]
                       ELSE IF v \in others THEN [listFd[v] EXCEPT !.shared = TRUE]
                       ELSE listFd[v]]
    <3>1. List!With(w) \in SUBSET ListWriter
      BY DEF List!With
    <3> QED
      BY <3>1 DEF List!Open
  <2>3. listFd' \in [ListWriter -> [step : {"closed", "opened", "filled"},
                                    at : {"temp", "file", "gone"},
                                    new : ListContent \union {"absent"}, shared : BOOLEAN]]
    <3> DEFINE Fd == [step : {"closed", "opened", "filled"}, at : {"temp", "file", "gone"},
                      new : ListContent \union {"absent"}, shared : BOOLEAN]
    <3>1. \A v \in ListWriter : listFd[v] \in Fd /\ [listFd[v] EXCEPT !.shared = TRUE] \in Fd
      BY DEF ListInv, ListTypes
    <3>2. [step |-> "opened", at |-> "temp", new |-> c, shared |-> shared] \in Fd
      OBVIOUS
    <3> HIDE DEF Fd
    <3>3. listFd' \in [ListWriter -> Fd]
      BY <2>2, <3>1, <3>2
    <3> QED
      BY <3>3 DEF Fd
  <2>4. \A v \in ListWriter : listFd'[v].step = "opened" => listFd'[v].new \in ListContent
    BY <2>2 DEF ListInv, ListTypes
  <2> QED
    BY <2>1, <2>3, <2>4 DEF ListInv, ListTypes
<1>2. ASSUME ~listOverlap' PROVE Apart'
  <2>1. Apart /\ List!With(w) = {}
    BY <1>2 DEF ListInv, ListTypes, List!Open
  <2>2. \A v \in ListWriter \ {w} : listFd[v].step = "closed"
    BY <2>1 DEF Apart, List!With, ListInv, ListTypes
  <2> QED
    BY <2>1, <2>2 DEF List!Open, Apart, ListInv, ListTypes
<1> QED
  BY <1>1, <1>2 DEF ListInv

(* Filling it does.                                                        *)
LEMMA ListFill ==
  ASSUME ListInv, NEW w \in ListWriter, List!Fill(w)
  PROVE  ListInv'
<1> USE DEF ListWriter
<1>1. ListTypes'
  BY DEF ListInv, ListTypes, List!Fill
<1>2. ASSUME ~listOverlap' PROVE Apart'
  BY <1>2, OptimizerAssumption DEF ListInv, ListTypes, Apart, List!Fill
<1> QED
  BY <1>1, <1>2 DEF ListInv

(* Renaming it does.                                                       *)
LEMMA ListRename ==
  ASSUME ListInv, NEW w \in ListWriter, List!Rename(w)
  PROVE  ListInv'
<1> USE DEF ListWriter, List!Rename, List!Moved, List!Closed
<1>1. ListTypes'
  BY DEF ListInv, ListTypes
<1>2. ASSUME ~listOverlap' PROVE Apart'
  BY <1>2 DEF ListInv, ListTypes, Apart
<1> QED
  BY <1>1, <1>2 DEF ListInv

(* Giving it up does.                                                      *)
LEMMA ListFailOrAbandon ==
  ASSUME ListInv, NEW w \in ListWriter, List!Fail(w) \/ List!Abandon(w)
  PROVE  ListInv'
<1> USE DEF ListWriter, List!Closed
<1>1. CASE List!Fail(w)
  BY <1>1 DEF ListInv, ListTypes, Apart, List!Fail
<1>2. CASE List!Abandon(w)
  BY <1>2 DEF ListInv, ListTypes, Apart, List!Abandon
<1> QED
  BY <1>1, <1>2

(* Every step does.                                                        *)
LEMMA ListStep == ListInv /\ [Next]_vars => ListInv'
<1> SUFFICES ASSUME ListInv, [Next]_vars PROVE ListInv'
  OBVIOUS
<1>1. CASE UNCHANGED listVars
  BY <1>1 DEF listVars, ListInv, ListTypes, Apart
<1>2. ASSUME NEW o \in Process, Step(o) PROVE ListInv'
  <2> o \in ListWriter
    BY DEF ListWriter
  <2>1. CASE BootWrites(o)
    BY <2>1, ListOpen, ListFill DEF BootWrites
  <2>2. CASE BootEnds(o)
    BY <2>2, ListRename, ListFailOrAbandon DEF BootEnds, ListFails
  <2>3. CASE TakeLock(o) \/ LockExists(o) \/ StatLock(o) \/ Unlink(o) \/ Load(o)
    BY <2>3, <1>1 DEF TakeLock, LockExists, StatLock, Unlink, Load
  <2>4. CASE BootFails(o) \/ Search(o) \/ ReportWrites(o) \/ ReportEnds(o) \/ Release(o)
    BY <2>4, <1>1 DEF BootFails, Search, ReportWrites, ReportEnds, Release
  <2> QED
    BY <1>2, <2>1, <2>2, <2>3, <2>4 DEF Step
<1>3. ASSUME NEW o \in Process, Kill(o) PROVE ListInv'
  <2> o \in ListWriter
    BY DEF ListWriter
  <2> QED
    BY <1>3, ListFailOrAbandon DEF Kill
<1>4. CASE TraderWrites
  <2> Trader \in ListWriter
    BY DEF ListWriter
  <2> QED
    BY <1>4, ListOpen, ListFill, ListRename, ListFailOrAbandon DEF TraderWrites, ListFails
<1>5. CASE LockAges \/ UNCHANGED vars
  BY <1>5, <1>1 DEF LockAges, vars
<1> QED
  BY <1>2, <1>3, <1>4, <1>5 DEF Next

(* The list of markets is torn only if two writers overlapped.             *)
THEOREM ListWholeUnlessShared == Spec => []ListIsWhole
<1>1. ListInv => ListIsWhole
  BY DEF ListInv, Apart, ListIsWhole, List!WholeUnlessShared
<1> QED
  BY <1>1, ListInit, ListStep, PTL DEF Spec
-----------------------------------------------------------------------------
(* Types: of the files, and of who is where in writing them.               *)
ListFds == [step : {"closed", "opened", "filled"}, at : {"temp", "file", "gone"},
            new : ListContent \union {"absent"}, shared : BOOLEAN]

PlaceInv ==
  /\ list \in ListContent \union {"absent", "torn"}
  /\ report \in {"report", "absent", "torn"} /\ reportOverlap \in BOOLEAN
  /\ faults \in 0 .. MaxFaults
  /\ \A o \in Process : /\ listFd[o].step # "closed" => at[o] = "boot"
                        /\ reportFd[o].step # "closed" => at[o] = "write"

AllInv == LockInv /\ ReportInv /\ ListInv /\ PlaceInv

(* The invariants contain the types.                                       *)
LEMMA AllTyped == AllInv => TypeOK
<1> SUFFICES ASSUME AllInv PROVE TypeOK
  OBVIOUS
<1>1. List!TypeOK
  BY DEF AllInv, PlaceInv, ListInv, ListTypes, ListWriter, List!TypeOK
<1>2. Report!TypeOK
  <2>1. reportFd \in [Process -> [step : {"closed", "opened", "filled"},
                                  at : {"temp", "file", "gone"},
                                  new : {"report"} \union {"absent"}, shared : BOOLEAN]]
    BY DEF AllInv, ReportInv
  <2> QED
    BY <2>1 DEF AllInv, PlaceInv, ReportInv, Report!TypeOK
<1> QED
  BY <1>1, <1>2 DEF AllInv, LockInv, PlaceInv, Where, TypeOK

(* What a step in writing the list does to the writers, and what is in the *)
(* file then.                                                              *)
OthersWait(w) == \A v \in ListWriter \ {w} : listFd'[v].step = listFd[v].step
ListTyped == list \in ListContent \union {"absent", "torn"}

(* A writer of the list that goes on leaves the others alone.              *)
LEMMA ListGoesOn ==
  ASSUME ListInv, PlaceInv, NEW w \in ListWriter,
         (\E c \in ListContent : List!Open(w, c)) \/ List!Fill(w)
  PROVE  OthersWait(w) /\ ListTyped'
<1> USE DEF ListWriter, OthersWait, ListTyped
<1>0. listFd \in [ListWriter -> ListFds]
  BY DEF ListInv, ListTypes, ListFds
<1>1. ASSUME NEW c \in ListContent, List!Open(w, c) PROVE OthersWait(w) /\ ListTyped'
  BY <1>0, <1>1 DEF List!Open, PlaceInv, ListFds
<1>2. CASE List!Fill(w)
  BY <1>0, <1>2 DEF List!Fill, PlaceInv, ListFds
<1> QED
  BY <1>1, <1>2

(* So does one that ends, and it is done.                                  *)
LEMMA ListEnds ==
  ASSUME ListInv, PlaceInv, NEW w \in ListWriter,
         List!Rename(w) \/ List!Fail(w) \/ List!Abandon(w)
  PROVE  OthersWait(w) /\ ListTyped' /\ listFd'[w].step = "closed"
<1> USE DEF ListWriter, OthersWait, ListTyped
<1>0. listFd \in [ListWriter -> ListFds] /\ listTemp["list.tmp"] \in ListContent \union {"absent", "torn"}
  BY DEF ListInv, ListTypes, ListFds
<1>1. CASE List!Rename(w)
  BY <1>0, <1>1 DEF List!Rename, List!Moved, List!Closed, PlaceInv, ListFds
<1>2. CASE List!Fail(w)
  BY <1>0, <1>2 DEF List!Fail, List!Closed, PlaceInv, ListFds
<1>3. CASE List!Abandon(w)
  BY <1>0, <1>3 DEF List!Abandon, List!Closed, PlaceInv, ListFds
<1> QED
  BY <1>1, <1>2, <1>3

(* The same of the report.                                                 *)
ReportOthers(o) == \A p \in Process \ {o} : reportFd'[p].step = reportFd[p].step
ReportTyped == report \in {"report", "absent", "torn"} /\ reportOverlap \in BOOLEAN

(* The writers of reports leave each other alone.                          *)
LEMMA ReportMoves ==
  ASSUME ReportInv, PlaceInv, NEW o \in Process
  PROVE  /\ Report!Open(o, "report") \/ Report!Fill(o) => ReportOthers(o) /\ ReportTyped'
         /\ Report!Rename(o) \/ Report!Fail(o) \/ Report!Abandon(o) =>
              ReportOthers(o) /\ ReportTyped' /\ reportFd'[o].step = "closed"
<1> USE DEF ReportOthers, ReportTyped
<1>0. /\ reportFd \in [Process -> [step : {"closed", "opened", "filled"}, at : {"temp", "gone"},
                                   new : {"report", "absent"}, shared : {FALSE}]]
      /\ reportTemp[o] \in {"report", "absent", "torn"}
      /\ ReportTyped
  BY DEF ReportInv, PlaceInv
<1>1. ASSUME Report!Open(o, "report") PROVE ReportOthers(o) /\ ReportTyped'
  <2>1. /\ report' = report /\ reportOverlap' \in BOOLEAN
        /\ reportFd' = [v \in Process |->
                         IF v = o THEN [step |-> "opened", at |-> "temp", new |-> "report",
                                        shared |-> FALSE]
                         ELSE reportFd[v]]
    BY <1>0, <1>1, OwnNames DEF Report!Open
  <2> QED
    BY <1>0, <2>1
<1>2. ASSUME Report!Fill(o) PROVE ReportOthers(o) /\ ReportTyped'
  <2>1. /\ report' = report /\ reportOverlap' = reportOverlap
        /\ reportFd' = [reportFd EXCEPT ![o].step = "filled"]
    BY <1>0, <1>2 DEF Report!Fill
  <2> QED
    BY <1>0, <2>1
<1>3. CASE Report!Rename(o)
  BY <1>0, <1>3 DEF Report!Rename, Report!Moved, Report!Closed
<1>4. CASE Report!Fail(o)
  BY <1>0, <1>4, OwnNames DEF Report!Fail, Report!Closed
<1>5. CASE Report!Abandon(o)
  BY <1>0, <1>5 DEF Report!Abandon, Report!Closed
<1> QED
  BY <1>1, <1>2, <1>3, <1>4, <1>5

(* A fault leaves the count of faults in its bounds.                       *)
LEMMA FaultTyped == ASSUME PlaceInv, Fault \/ UNCHANGED faults PROVE faults' \in 0 .. MaxFaults
  BY OptimizerAssumption DEF PlaceInv, Fault

(* Every step keeps writing and the place in the program together.         *)
LEMMA PlaceStep == AllInv /\ [Next]_vars => PlaceInv'
<1> SUFFICES ASSUME AllInv, [Next]_vars PROVE PlaceInv'
  OBVIOUS
<1>0. LockInv /\ ReportInv /\ ListInv /\ PlaceInv
  BY DEF AllInv
<1>1. ASSUME NEW o \in Process,
             \/ TakeLock(o) \/ LockExists(o) \/ StatLock(o) \/ Unlink(o) \/ Load(o)
             \/ BootFails(o) \/ Search(o) \/ Release(o)
      PROVE  PlaceInv'
  <2>1. UNCHANGED <<faults, listVars, reportVars>>
    BY <1>1 DEF TakeLock, LockExists, StatLock, Unlink, Load, BootFails, Search, Release
  <2>2. PICK from \in Where, to \in Where :
          Goes(o, from, to) /\ from # "write" /\ (from = "boot" => listFd[o].step = "closed")
    BY <1>1 DEF TakeLock, LockExists, StatLock, Unlink, Load, BootFails, Search, Release, Where
  <2> QED
    BY <1>0, <2>1, <2>2 DEF PlaceInv, LockInv, Goes, listVars, reportVars
<1>2. ASSUME NEW o \in Process, BootWrites(o) PROVE PlaceInv'
  <2>0. o \in ListWriter /\ Process \subseteq ListWriter
    BY DEF ListWriter
  <2>1. /\ at[o] = "boot" /\ UNCHANGED <<at, faults, reportVars>>
        /\ OthersWait(o) /\ ListTyped'
    BY <1>0, <1>2, <2>0, ListGoesOn DEF BootWrites
  <2> QED
    BY <1>0, <2>0, <2>1 DEF PlaceInv, OthersWait, ListTyped, reportVars
<1>3. ASSUME NEW o \in Process, BootEnds(o) PROVE PlaceInv'
  <2>0. o \in ListWriter /\ Process \subseteq ListWriter
    BY DEF ListWriter
  <2>1. /\ Goes(o, "boot", "search") /\ UNCHANGED reportVars
        /\ OthersWait(o) /\ ListTyped' /\ listFd'[o].step = "closed"
    BY <1>0, <1>3, <2>0, ListEnds DEF BootEnds, ListFails
  <2>2. faults' \in 0 .. MaxFaults
    BY <1>0, <1>3, FaultTyped DEF BootEnds, ListFails
  <2> QED
    BY <1>0, <2>0, <2>1, <2>2 DEF PlaceInv, LockInv, Goes, OthersWait, ListTyped, reportVars
<1>4. ASSUME NEW o \in Process, ReportWrites(o) PROVE PlaceInv'
  <2>1. /\ at[o] = "write" /\ UNCHANGED <<at, faults, listVars>>
        /\ ReportOthers(o) /\ ReportTyped'
    BY <1>0, <1>4, ReportMoves DEF ReportWrites
  <2> QED
    BY <1>0, <2>1 DEF PlaceInv, ReportOthers, ReportTyped, listVars
<1>5. ASSUME NEW o \in Process, ReportEnds(o) PROVE PlaceInv'
  <2>1. /\ Goes(o, "write", "release") /\ UNCHANGED listVars
        /\ ReportOthers(o) /\ ReportTyped' /\ reportFd'[o].step = "closed"
    BY <1>0, <1>5, ReportMoves DEF ReportEnds
  <2>2. faults' \in 0 .. MaxFaults
    BY <1>0, <1>5, FaultTyped DEF ReportEnds
  <2> QED
    BY <1>0, <2>1, <2>2 DEF PlaceInv, LockInv, Goes, ReportOthers, ReportTyped, listVars
<1>6. ASSUME NEW o \in Process, Kill(o) PROVE PlaceInv'
  <2>0. o \in ListWriter /\ Process \subseteq ListWriter
    BY DEF ListWriter
  <2>1. /\ at' = [at EXCEPT ![o] = "down"]
        /\ OthersWait(o) /\ ListTyped' /\ listFd'[o].step = "closed"
        /\ ReportOthers(o) /\ ReportTyped' /\ reportFd'[o].step = "closed"
    BY <1>0, <1>6, <2>0, ListEnds, ReportMoves DEF Kill
  <2>2. faults' \in 0 .. MaxFaults
    BY <1>0, <1>6, FaultTyped DEF Kill
  <2> QED
    BY <1>0, <2>0, <2>1, <2>2
       DEF PlaceInv, LockInv, OthersWait, ListTyped, ReportOthers, ReportTyped
<1>7. CASE TraderWrites
  <2>0. Trader \in ListWriter /\ Process \subseteq ListWriter \ {Trader}
    BY OptimizerAssumption DEF ListWriter
  <2>1. OthersWait(Trader) /\ ListTyped' /\ UNCHANGED <<at, reportVars>>
    BY <1>0, <1>7, <2>0, ListGoesOn, ListEnds DEF TraderWrites, ListFails
  <2>2. faults' \in 0 .. MaxFaults
    BY <1>0, <1>7, FaultTyped DEF TraderWrites, ListFails
  <2> QED
    BY <1>0, <2>0, <2>1, <2>2 DEF PlaceInv, OthersWait, ListTyped, reportVars
<1>8. CASE LockAges \/ UNCHANGED vars
  BY <1>0, <1>8 DEF LockAges, vars, listVars, reportVars, PlaceInv
<1> QED
  BY <1>1, <1>2, <1>3, <1>4, <1>5, <1>6, <1>7, <1>8 DEF Next, Step

(* They are together at the start.                                         *)
LEMMA PlaceInit == Init => PlaceInv
<1> SUFFICES ASSUME Init PROVE PlaceInv
  OBVIOUS
<1>1. /\ list = "absent" /\ report = "absent" /\ reportOverlap = FALSE /\ faults = 0
      /\ \A o \in Process : listFd[o].step = "closed" /\ reportFd[o].step = "closed"
  BY DEF Init, List!Init, Report!Init, List!Closed, Report!Closed
<1>2. FALSE \in BOOLEAN /\ 0 \in 0 .. MaxFaults
  BY OptimizerAssumption
<1> QED
  BY <1>1, <1>2 DEF PlaceInv

(* Every variable keeps its type, and whoever has a file open is at the    *)
(* step of acquire, boot and report that writes it: the finally clause     *)
(* never runs past a write that is under way.                              *)
THEOREM TypeCorrect == Spec => []TypeOK
<1>1. Init => AllInv
  BY LockInit, ReportInit, ListInit, PlaceInit DEF AllInv
<1>2. AllInv /\ [Next]_vars => AllInv'
  BY LockStep, ReportStep, ListStep, PlaceStep DEF AllInv
<1> QED
  BY <1>1, <1>2, AllTyped, PTL DEF Spec
=============================================================================
