CONSTANTS
  p1 = p1
  p2 = p2
  t1 = t1
  t2 = t2
  Proc <- TwoProcs
  Task <- TwoTasks
  ProcOf <- OneTaskEach
  MaxUpdates = 1
  MaxFaults = 2
  FaultKinds <- AllFaults
  HoldersMayStall = TRUE
  DeadPid = DeadPid
  NoPid = NoPid
  Unread = Unread
  NoLock = NoLock
SPECIFICATION Spec
INVARIANTS
  TypeOK
  ExclusiveUnlessStolen
  AckedIsOnDisk
PROPERTY ImplementsAtomicStore
CHECK_DEADLOCK FALSE
