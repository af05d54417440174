CONSTANTS
  p1 = p1
  p2 = p2
  t1 = t1
  t2 = t2
  Proc <- OneProc
  Task <- TwoTasks
  ProcOf <- BothTasksOfOne
  MaxUpdates = 2
  MaxFaults = 3
  FaultKinds <- CrashOrTask
  HoldersMayStall = FALSE
  DeadPid = DeadPid
  NoPid = NoPid
  Unread = Unread
  NoLock = NoLock
SPECIFICATION FairSpec
INVARIANT LoneProcessNeverSteals
PROPERTY EveryUpdateCompletes
CHECK_DEADLOCK FALSE
