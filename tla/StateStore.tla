----------------------------- MODULE StateStore -----------------------------
(***************************************************************************)
(* The persistent state of the trader (src/core/store.js): a JSON file     *)
(* that the tasks of one or several processes read, modify and replace     *)
(* under a lock file. A task is a caller of update(): the callers of one   *)
(* process share its pid and this.state, and nothing in the store stops a  *)
(* process from having several updates under way.                          *)
(*                                                                         *)
(* The lock is a file created with the exclusive flag. A task that finds   *)
(* it there reads its age and the pid inside it, and deletes the file when *)
(* the pid belongs to no process or the file is older than lockStaleMs.    *)
(* Creating, inspecting and deleting the lock are separate system calls,   *)
(* so they interleave; a process may be killed between two of them and     *)
(* started again under a new pid. Pids are not reused.                     *)
(*                                                                         *)
(* The state is the set of updates it contains: update k of task t is the  *)
(* pair <<t, k>>. What a mutator does to the JSON is left out; that it is  *)
(* applied to the state just read, and replaces the whole file, is not.    *)
(***************************************************************************)
EXTENDS Naturals, FiniteSets

CONSTANTS
  Proc,             \* the processes that share the state file
  Task,             \* their concurrent tasks
  ProcOf,           \* ProcOf[t]: the process of task t
  MaxUpdates,       \* bound: updates each task performs
  MaxFaults,        \* bound: crashes and failed writes, in total
  FaultKinds,       \* the faults that happen: "crash", "stamp", "task"
  HoldersMayStall,  \* may a live holder keep the lock longer than lockStaleMs?
  DeadPid,          \* a pid that belongs to no process any more
  NoPid,            \* the pid read from a lock file nobody has written yet
  Unread,           \* the lock file has not been read
  NoLock            \* there is no lock file

ASSUME BoundsAssumption ==
  /\ MaxUpdates \in Nat
  /\ MaxFaults \in Nat
  /\ FaultKinds \subseteq {"crash", "stamp", "task"}
  /\ HoldersMayStall \in BOOLEAN

ASSUME TaskAssumption == ProcOf \in [Task -> Proc]

ASSUME PidAssumption ==
  /\ DeadPid \notin Proc /\ NoPid \notin Proc /\ Unread \notin Proc
  /\ DeadPid \notin Task
  /\ DeadPid # NoPid /\ DeadPid # Unread /\ NoPid # Unread

Update == Task \X (1 .. MaxUpdates)

(* The lock file: the task that made this very file (a task that died is   *)
(* nobody), the pid written in it, and whether lockStaleMs has passed.     *)
LockRecord == [creator : Task \union {DeadPid},
               pid     : Proc \union {DeadPid, NoPid},
               old     : BOOLEAN]

ASSUME NoLockAssumption == NoLock \notin LockRecord

VARIABLES
  pc,       \* pc[t]: the system call task t performs next
  ready,    \* ready[p]: init() of p's store has returned
  count,    \* count[t]: updates of t that returned
  mem,      \* mem[t]: the state t has read and changed, until t has written it
  seenAge,  \* seenAge[t]: outcome of t's stat of the lock file
  seenPid,  \* seenPid[t]: pid t read from the lock file
  lock,     \* the lock file
  created,  \* does the state file exist?
  disk,     \* what it contains
  acked,    \* the updates whose promise resolved
  faults,   \* faults so far
  stolen    \* has a lock been deleted under a live holder? (history)

vars == <<pc, ready, count, mem, seenAge, seenPid, lock, created, disk, acked, faults, stolen>>

Holding == {"stamp", "load", "write", "rename", "unlock", "unlock_failed"}
Phase == Holding \union {"idle", "open", "inspect", "steal", "backoff", "dead"}

Holds(t) == pc[t] \in Holding
Goto(t, phase) == pc' = [pc EXCEPT ![t] = phase]
ThisUpdate(t) == <<t, count[t] + 1>>
Ready(t) == ready[ProcOf[t]]
TasksOf(p) == {t \in Task : ProcOf[t] = p}

(* The lock file is the one some task in T made, and that task relies on it. *)
LiveHolder(T) == lock # NoLock /\ \E t \in T : Holds(t) /\ lock.creator = t

Init ==
  /\ pc = [t \in Task |-> "dead"]
  /\ ready = [p \in Proc |-> FALSE]
  /\ count = [t \in Task |-> 0]
  /\ mem = [t \in Task |-> {}]
  /\ seenAge = [t \in Task |-> "unread"]
  /\ seenPid = [t \in Task |-> Unread]
  /\ lock = NoLock
  /\ created = FALSE
  /\ disk = {}
  /\ acked = {}
  /\ faults = 0
  /\ stolen = FALSE
-----------------------------------------------------------------------------
(* A process starts, or is started again by its supervisor: a new store,   *)
(* and one task runs its init() before anything else uses it.              *)
Start(p) ==
  /\ \A t \in TasksOf(p) : pc[t] = "dead"
  /\ \E i \in TasksOf(p) :
       pc' = [t \in Task |-> IF t = i THEN "open" ELSE IF t \in TasksOf(p) THEN "idle" ELSE pc[t]]
  /\ ready' = [ready EXCEPT ![p] = FALSE]
  /\ UNCHANGED <<count, mem, seenAge, seenPid, lock, created, disk, acked, faults, stolen>>

(* update(): called again by the program once the previous call is over.   *)
Begin(t) ==
  /\ pc[t] = "idle" /\ Ready(t) /\ count[t] < MaxUpdates
  /\ Goto(t, "open")
  /\ UNCHANGED <<ready, count, mem, seenAge, seenPid, lock, created, disk, acked, faults, stolen>>

(* Mutant: the lock file is opened without the exclusive flag.             *)
OpenLockShared(t) ==
  /\ pc[t] = "open"
  /\ lock' = [creator |-> t, pid |-> NoPid, old |-> FALSE]
  /\ Goto(t, "stamp")
  /\ UNCHANGED <<ready, count, mem, seenAge, seenPid, created, disk, acked, faults, stolen>>

(* withLock: fs.open(lockFile, "wx") succeeds ...                          *)
OpenLock(t) ==
  /\ pc[t] = "open" /\ lock = NoLock
  /\ lock' = [creator |-> t, pid |-> NoPid, old |-> FALSE]
  /\ Goto(t, "stamp")
  /\ UNCHANGED <<ready, count, mem, seenAge, seenPid, created, disk, acked, faults, stolen>>

(* ... or fails with EEXIST, and recoverStaleLock starts its two reads.    *)
OpenBusy(t) ==
  /\ pc[t] = "open" /\ lock # NoLock
  /\ Goto(t, "inspect")
  /\ UNCHANGED <<ready, count, mem, seenAge, seenPid, lock, created, disk, acked, faults, stolen>>

(* The pid goes into the file t opened. If that file was deleted meanwhile *)
(* the write goes to the unlinked file.                                    *)
StampLock(t) ==
  /\ pc[t] = "stamp"
  /\ lock' = IF lock # NoLock /\ lock.creator = t
                THEN [lock EXCEPT !.pid = ProcOf[t], !.old = FALSE] ELSE lock
  /\ Goto(t, "load")
  /\ UNCHANGED <<ready, count, mem, seenAge, seenPid, created, disk, acked, faults, stolen>>

(* Mutant: init() starts from the initial state even when there is a file. *)
LoadInitOverwrites(t) ==
  /\ pc[t] = "load"
  /\ mem' = [mem EXCEPT ![t] = IF Ready(t) THEN disk \union {ThisUpdate(t)} ELSE {}]
  /\ Goto(t, "write")
  /\ UNCHANGED <<ready, count, seenAge, seenPid, lock, created, disk, acked, faults, stolen>>

(* The lock's holder reads the state file. init() keeps what it finds and  *)
(* writes only a missing file; update() applies its mutator.               *)
Load(t) ==
  /\ pc[t] = "load"
  /\ mem' = [mem EXCEPT ![t] = IF Ready(t) THEN disk \union {ThisUpdate(t)} ELSE disk]
  /\ Goto(t, IF Ready(t) \/ ~created THEN "write" ELSE "unlock")
  /\ UNCHANGED <<ready, count, seenAge, seenPid, lock, created, disk, acked, faults, stolen>>

(* Mutant: the state file itself is truncated and written.                 *)
WriteInPlace(t) ==
  /\ pc[t] = "write"
  /\ disk' = {}
  /\ Goto(t, "rename")
  /\ UNCHANGED <<ready, count, mem, seenAge, seenPid, lock, created, acked, faults, stolen>>

(* persistUnsafe: the state goes to a temporary file of its own name ...   *)
WriteTemp(t) ==
  /\ pc[t] = "write"
  /\ Goto(t, "rename")
  /\ UNCHANGED <<ready, count, mem, seenAge, seenPid, lock, created, disk, acked, faults, stolen>>

(* ... which then replaces the state file at once.                         *)
RenameTemp(t) ==
  /\ pc[t] = "rename"
  /\ created' = TRUE
  /\ disk' = mem[t]
  /\ mem' = [mem EXCEPT ![t] = {}]
  /\ Goto(t, "unlock")
  /\ UNCHANGED <<ready, count, seenAge, seenPid, lock, acked, faults, stolen>>

(* Mutant: the return of init() is taken for the end of an update.         *)
UnlockCountsInit(t) ==
  /\ pc[t] = "unlock"
  /\ lock' = NoLock
  /\ stolen' = (stolen \/ LiveHolder(Task \ {t}))
  /\ ready' = [ready EXCEPT ![ProcOf[t]] = TRUE]
  /\ count' = [count EXCEPT ![t] = @ + 1]
  /\ acked' = acked \union {ThisUpdate(t)}
  /\ Goto(t, "idle")
  /\ UNCHANGED <<mem, seenAge, seenPid, created, disk, faults>>

(* The finally block deletes the lock file by name, whoever made it.       *)
Unlock(t) ==
  /\ pc[t] = "unlock"
  /\ lock' = NoLock
  /\ stolen' = (stolen \/ LiveHolder(Task \ {t}))
  /\ ready' = [ready EXCEPT ![ProcOf[t]] = TRUE]
  /\ IF Ready(t)
       THEN /\ count' = [count EXCEPT ![t] = @ + 1]
            /\ acked' = acked \union {ThisUpdate(t)}
       ELSE UNCHANGED <<count, acked>>
  /\ Goto(t, "idle")
  /\ UNCHANGED <<mem, seenAge, seenPid, created, disk, faults>>
-----------------------------------------------------------------------------
(* recoverStaleLock: the stat and the read are issued together and finish  *)
(* in either order, each seeing the lock file of its own moment.           *)
StatLock(t) ==
  /\ pc[t] = "inspect" /\ seenAge[t] = "unread"
  /\ seenAge' = [seenAge EXCEPT ![t] = IF lock = NoLock THEN "gone"
                                       ELSE IF lock.old THEN "old" ELSE "fresh"]
  /\ UNCHANGED <<pc, ready, count, mem, seenPid, lock, created, disk, acked, faults, stolen>>

ReadLock(t) ==
  /\ pc[t] = "inspect" /\ seenPid[t] = Unread
  /\ seenPid' = [seenPid EXCEPT ![t] = IF lock = NoLock THEN NoPid ELSE lock.pid]
  /\ UNCHANGED <<pc, ready, count, mem, seenAge, lock, created, disk, acked, faults, stolen>>

(* Mutants: a lock without a pid counts as dead; the age is not looked at. *)
LooksStaleWhenEmpty(t) == seenPid[t] \in {DeadPid, NoPid} \/ seenAge[t] = "old"
LooksStaleByPidOnly(t) == seenPid[t] = DeadPid

(* The pid is dead, or the file has reached lockStaleMs.                   *)
LooksStale(t) == seenPid[t] = DeadPid \/ seenAge[t] = "old"

(* Both answers are in (or the stat failed, which is enough): the lock is  *)
(* judged on what was read, and the answers are forgotten.                 *)
JudgeLock(t) ==
  /\ pc[t] = "inspect"
  /\ \/ seenAge[t] = "gone" /\ Goto(t, "backoff")
     \/ /\ seenAge[t] \in {"fresh", "old"} /\ seenPid[t] # Unread
        /\ Goto(t, IF LooksStale(t) THEN "steal" ELSE "backoff")
  /\ seenAge' = [seenAge EXCEPT ![t] = "unread"]
  /\ seenPid' = [seenPid EXCEPT ![t] = Unread]
  /\ UNCHANGED <<ready, count, mem, lock, created, disk, acked, faults, stolen>>

(* The lock file is deleted by name, then withLock tries again at once.    *)
StealLock(t) ==
  /\ pc[t] = "steal"
  /\ lock' = NoLock
  /\ stolen' = (stolen \/ LiveHolder(Task))
  /\ Goto(t, "open")
  /\ UNCHANGED <<ready, count, mem, seenAge, seenPid, created, disk, acked, faults>>

(* sleep(lockRetryMs) ...                                                  *)
Retry(t) ==
  /\ pc[t] = "backoff"
  /\ Goto(t, "open")
  /\ UNCHANGED <<ready, count, mem, seenAge, seenPid, lock, created, disk, acked, faults, stolen>>
-----------------------------------------------------------------------------
(* A process ends. Whoever looks at its pid from now on finds it dead,     *)
(* also those that have read it already.                                   *)
Bury(p) ==
  /\ pc' = [t \in Task |-> IF t \in TasksOf(p) THEN "dead" ELSE pc[t]]
  /\ mem' = [t \in Task |-> IF t \in TasksOf(p) THEN {} ELSE mem[t]]
  /\ seenAge' = [t \in Task |-> IF t \in TasksOf(p) THEN "unread" ELSE seenAge[t]]
  /\ seenPid' = [t \in Task |-> IF t \in TasksOf(p) THEN Unread
                                 ELSE IF seenPid[t] = p THEN DeadPid ELSE seenPid[t]]

Orphaned(l, p) ==
  IF l = NoLock THEN l
  ELSE [creator |-> IF l.creator \in TasksOf(p) THEN DeadPid ELSE l.creator,
        pid     |-> IF l.pid = p THEN DeadPid ELSE l.pid,
        old     |-> l.old]

(* withLock throws. A rejected update() leaves the process running, a      *)
(* rejected init() ends it (run.js: main().catch -> process.exit).         *)
Reject(t) ==
  IF Ready(t)
    THEN /\ Goto(t, "idle")
         /\ mem' = [mem EXCEPT ![t] = {}]
         /\ UNCHANGED <<seenAge, seenPid>>
    ELSE Bury(ProcOf[t])

(* ... or "State lock timeout" once lockTimeoutMs is over.                 *)
GiveUp(t) ==
  /\ pc[t] = "backoff"
  /\ Reject(t)
  /\ lock' = IF Ready(t) THEN lock ELSE Orphaned(lock, ProcOf[t])
  /\ UNCHANGED <<ready, count, created, disk, acked, faults, stolen>>

Fault(kind) == kind \in FaultKinds /\ faults < MaxFaults /\ faults' = faults + 1

(* Writing the pid fails: the throw leaves withLock before its try block,  *)
(* and the lock file stays behind, empty.                                  *)
StampFails(t) ==
  /\ pc[t] = "stamp" /\ Fault("stamp")
  /\ Reject(t)
  /\ lock' = IF Ready(t) THEN lock ELSE Orphaned(lock, ProcOf[t])
  /\ UNCHANGED <<ready, count, created, disk, acked, stolen>>

(* Reading, parsing or writing the state fails: the lock is released.      *)
TaskFails(t) ==
  /\ pc[t] \in {"load", "write", "rename"} /\ Fault("task")
  /\ Goto(t, "unlock_failed")
  /\ UNCHANGED <<ready, count, mem, seenAge, seenPid, lock, created, disk, acked, stolen>>

UnlockFailed(t) ==
  /\ pc[t] = "unlock_failed"
  /\ lock' = NoLock
  /\ stolen' = (stolen \/ LiveHolder(Task \ {t}))
  /\ Reject(t)
  /\ UNCHANGED <<ready, count, created, disk, acked, faults>>

Crash(p) ==
  /\ \E t \in TasksOf(p) : pc[t] # "dead"
  /\ Fault("crash")
  /\ Bury(p)
  /\ lock' = Orphaned(lock, p)
  /\ UNCHANGED <<ready, count, created, disk, acked, stolen>>

(* lockStaleMs passes over the lock file. A prompt holder is done by then. *)
AgeLock ==
  /\ lock # NoLock /\ ~lock.old
  /\ HoldersMayStall \/ ~LiveHolder(Task)
  /\ lock' = [lock EXCEPT !.old = TRUE]
  /\ UNCHANGED <<pc, ready, count, mem, seenAge, seenPid, created, disk, acked, faults, stolen>>
-----------------------------------------------------------------------------
Works(t) ==
  \/ Begin(t) \/ OpenLock(t) \/ OpenBusy(t) \/ StampLock(t) \/ Load(t)
  \/ WriteTemp(t) \/ RenameTemp(t) \/ Unlock(t) \/ UnlockFailed(t)
  \/ StatLock(t) \/ ReadLock(t) \/ JudgeLock(t) \/ StealLock(t) \/ Retry(t)

Fails(t) == GiveUp(t) \/ StampFails(t) \/ TaskFails(t)

Next ==
  \/ AgeLock
  \/ \E p \in Proc : Start(p) \/ Crash(p)
  \/ \E t \in Task : Works(t) \/ Fails(t)

Spec == Init /\ [][Next]_vars

(* The event loop of a live process serves its tasks, the supervisor       *)
(* starts a dead one again, and time passes. Nothing has to fail.          *)
FairSpec ==
  /\ Spec
  /\ WF_vars(AgeLock)
  /\ \A p \in Proc : WF_vars(Start(p))
  /\ \A t \in Task : WF_vars(Works(t))
-----------------------------------------------------------------------------
TypeOK ==
  /\ pc \in [Task -> Phase]
  /\ ready \in [Proc -> BOOLEAN]
  /\ count \in [Task -> 0 .. MaxUpdates]
  /\ mem \in [Task -> SUBSET Update]
  /\ seenAge \in [Task -> {"unread", "fresh", "old", "gone"}]
  /\ seenPid \in [Task -> Proc \union {DeadPid, NoPid, Unread}]
  /\ lock \in LockRecord \union {NoLock}
  /\ created \in BOOLEAN
  /\ disk \in SUBSET Update
  /\ acked \in SUBSET Update
  /\ faults \in 0 .. MaxFaults
  /\ stolen \in BOOLEAN

(* withLock: as long as no lock was deleted under a live holder, at most   *)
(* one task is between creating the lock file and deleting it, through any *)
(* crashes, failed writes and recoveries of dead processes' locks.         *)
ExclusiveUnlessStolen ==
  ~stolen => \A t, u \in Task : Holds(t) /\ Holds(u) => t = u

(* update(): as long as no lock was deleted under a live holder, every     *)
(* update whose promise resolved is in the state file, whatever crashes    *)
(* and other tasks' updates came after it.                                 *)
AckedIsOnDisk == ~stolen => acked \subseteq disk

(* recoverStaleLock in one process: when holders are prompt and the pid is *)
(* always written, concurrent tasks never delete a lock that is in use,    *)
(* however often the process is killed and started again: what it left     *)
(* behind is removed by the init() of its successor, alone.                *)
LoneProcessNeverSteals ==
  (\A p, q \in Proc : p = q) /\ ~HoldersMayStall /\ "stamp" \notin FaultKinds => ~stolen

(* The store behaves as AtomicStore (up to the first stolen lock): the     *)
(* file only grows, one update at a time, and acknowledgements come after. *)
Abstract == INSTANCE AtomicStore WITH file <- disk

ImplementsAtomicStore ==
  /\ Abstract!Init
  /\ [][~stolen' => Abstract!Next]_<<disk, acked>>

(* recoverStaleLock and the restart: whatever is left behind by a crash at *)
(* any point, every task eventually gets all its updates done, and no lock *)
(* file blocks it for ever.                                                *)
EveryUpdateCompletes == \A t \in Task : <>(count[t] = MaxUpdates)
=============================================================================
