-------------------------- MODULE StateStoreProofs --------------------------
(***************************************************************************)
(* Proofs about StateStore, for any processes, tasks and bounds.           *)
(***************************************************************************)
EXTENDS StateStore, TLAPS

Active(t) == pc[t] \notin {"idle", "dead"}

(* Until init() returns, one task of the process is doing anything at all. *)
InitAlone ==
  \A t, u \in Task :
    Active(t) /\ Active(u) /\ ProcOf[t] = ProcOf[u] /\ ~Ready(t) => t = u

(* A task in update() has an update left to do.                            *)
RoomLeft == \A t \in Task : Active(t) /\ Ready(t) => count[t] < MaxUpdates

BaseInv == TypeOK /\ InitAlone /\ RoomLeft

(* The induction for the types starts.                                     *)
LEMMA BaseInit == Init => BaseInv
<1> SUFFICES ASSUME Init PROVE BaseInv
  OBVIOUS
<1>1. TypeOK
  <2>1. count \in [Task -> 0 .. MaxUpdates] /\ faults \in 0 .. MaxFaults
    BY BoundsAssumption DEF Init
  <2>2. pc \in [Task -> Phase]
    BY DEF Init, Phase
  <2>3. mem \in [Task -> SUBSET Update] /\ ready \in [Proc -> BOOLEAN]
    BY DEF Init
  <2>4. seenAge \in [Task -> {"unread", "fresh", "old", "gone"}]
        /\ seenPid \in [Task -> Proc \union {DeadPid, NoPid, Unread}]
    BY DEF Init
  <2> QED
    BY <2>1, <2>2, <2>3, <2>4 DEF Init, TypeOK
<1>2. InitAlone /\ RoomLeft
  BY DEF Init, InitAlone, RoomLeft, Active
<1> QED
  BY <1>1, <1>2 DEF BaseInv

(* Every step keeps the types: count needs RoomLeft, the rest only itself. *)
LEMMA TypeStep == BaseInv /\ [Next]_vars => TypeOK'
<1> SUFFICES ASSUME BaseInv, [Next]_vars PROVE TypeOK'
  OBVIOUS
<1> USE BoundsAssumption, TaskAssumption, PidAssumption, NoLockAssumption
    DEF BaseInv, TypeOK, Goto, Phase, Holding, Ready, ThisUpdate, Update, LockRecord
<1>1. CASE AgeLock
  BY <1>1 DEF AgeLock
<1>2. ASSUME NEW p \in Proc, Start(p) PROVE TypeOK'
  BY <1>2 DEF Start
<1>3. ASSUME NEW p \in Proc, Crash(p) PROVE TypeOK'
  BY <1>3 DEF Crash, Bury, Fault, Orphaned
<1>4. ASSUME NEW t \in Task, Begin(t) PROVE TypeOK'
  BY <1>4 DEF Begin
<1>5. ASSUME NEW t \in Task, OpenLock(t) PROVE TypeOK'
  BY <1>5 DEF OpenLock
<1>6. ASSUME NEW t \in Task, OpenBusy(t) PROVE TypeOK'
  BY <1>6 DEF OpenBusy
<1>7. ASSUME NEW t \in Task, StampLock(t) PROVE TypeOK'
  BY <1>7 DEF StampLock
<1>8. ASSUME NEW t \in Task, Load(t) PROVE TypeOK'
  <2>1. Ready(t) => ThisUpdate(t) \in Update
    BY <1>8 DEF Load, RoomLeft, Active
  <2> QED
    BY <1>8, <2>1 DEF Load
<1>9. ASSUME NEW t \in Task, WriteTemp(t) PROVE TypeOK'
  BY <1>9 DEF WriteTemp
<1>10. ASSUME NEW t \in Task, RenameTemp(t) PROVE TypeOK'
  BY <1>10 DEF RenameTemp
<1>11. ASSUME NEW t \in Task, Unlock(t) PROVE TypeOK'
  <2>1. Ready(t) => ThisUpdate(t) \in Update /\ count[t] < MaxUpdates
    BY <1>11 DEF Unlock, RoomLeft, Active
  <2> QED
    BY <1>11, <2>1 DEF Unlock, LiveHolder
<1>12. ASSUME NEW t \in Task, UnlockFailed(t) PROVE TypeOK'
  BY <1>12 DEF UnlockFailed, Reject, Bury, LiveHolder
<1>13. ASSUME NEW t \in Task, StatLock(t) PROVE TypeOK'
  BY <1>13 DEF StatLock
<1>14. ASSUME NEW t \in Task, ReadLock(t) PROVE TypeOK'
  BY <1>14 DEF ReadLock
<1>15. ASSUME NEW t \in Task, JudgeLock(t) PROVE TypeOK'
  BY <1>15 DEF JudgeLock
<1>16. ASSUME NEW t \in Task, StealLock(t) PROVE TypeOK'
  BY <1>16 DEF StealLock, LiveHolder
<1>17. ASSUME NEW t \in Task, Retry(t) PROVE TypeOK'
  BY <1>17 DEF Retry
<1>18. ASSUME NEW t \in Task, GiveUp(t) PROVE TypeOK'
  BY <1>18 DEF GiveUp, Reject, Bury, Orphaned
<1>19. ASSUME NEW t \in Task, StampFails(t) PROVE TypeOK'
  BY <1>19 DEF StampFails, Reject, Bury, Orphaned, Fault
<1>20. ASSUME NEW t \in Task, TaskFails(t) PROVE TypeOK'
  BY <1>20 DEF TaskFails, Fault
<1>21. CASE UNCHANGED vars
  BY <1>21 DEF vars
<1> QED
  BY <1>1, <1>2, <1>3, <1>4, <1>5, <1>6, <1>7, <1>8, <1>9, <1>10, <1>11, <1>12, <1>13,
     <1>14, <1>15, <1>16, <1>17, <1>18, <1>19, <1>20, <1>21 DEF Next, Works, Fails

(* Every step keeps init() alone and leaves room for the update under way. *)
LEMMA AloneStep == BaseInv /\ [Next]_vars => InitAlone' /\ RoomLeft'
<1> SUFFICES ASSUME BaseInv, [Next]_vars PROVE InitAlone' /\ RoomLeft'
  OBVIOUS
<1> USE BoundsAssumption, TaskAssumption
    DEF BaseInv, TypeOK, InitAlone, RoomLeft, Active, Goto, Ready
<1>1. CASE AgeLock
  BY <1>1 DEF AgeLock
<1>2. ASSUME NEW p \in Proc, Start(p) PROVE InitAlone' /\ RoomLeft'
  BY <1>2 DEF Start, TasksOf
<1>3. ASSUME NEW p \in Proc, Crash(p) PROVE InitAlone' /\ RoomLeft'
  BY <1>3 DEF Crash, Bury, TasksOf
<1>4. ASSUME NEW t \in Task, Begin(t) PROVE InitAlone' /\ RoomLeft'
  BY <1>4 DEF Begin
<1>5. ASSUME NEW t \in Task, OpenLock(t) PROVE InitAlone' /\ RoomLeft'
  BY <1>5 DEF OpenLock
<1>6. ASSUME NEW t \in Task, OpenBusy(t) PROVE InitAlone' /\ RoomLeft'
  BY <1>6 DEF OpenBusy
<1>7. ASSUME NEW t \in Task, StampLock(t) PROVE InitAlone' /\ RoomLeft'
  BY <1>7 DEF StampLock
<1>8. ASSUME NEW t \in Task, Load(t) PROVE InitAlone' /\ RoomLeft'
  BY <1>8 DEF Load
<1>9. ASSUME NEW t \in Task, WriteTemp(t) PROVE InitAlone' /\ RoomLeft'
  BY <1>9 DEF WriteTemp
<1>10. ASSUME NEW t \in Task, RenameTemp(t) PROVE InitAlone' /\ RoomLeft'
  BY <1>10 DEF RenameTemp
<1>11. ASSUME NEW t \in Task, Unlock(t) PROVE InitAlone' /\ RoomLeft'
  BY <1>11 DEF Unlock
<1>12. ASSUME NEW t \in Task, UnlockFailed(t) PROVE InitAlone' /\ RoomLeft'
  BY <1>12 DEF UnlockFailed, Reject, Bury, TasksOf
<1>13. ASSUME NEW t \in Task, StatLock(t) PROVE InitAlone' /\ RoomLeft'
  BY <1>13 DEF StatLock
<1>14. ASSUME NEW t \in Task, ReadLock(t) PROVE InitAlone' /\ RoomLeft'
  BY <1>14 DEF ReadLock
<1>15. ASSUME NEW t \in Task, JudgeLock(t) PROVE InitAlone' /\ RoomLeft'
  BY <1>15 DEF JudgeLock
<1>16. ASSUME NEW t \in Task, StealLock(t) PROVE InitAlone' /\ RoomLeft'
  BY <1>16 DEF StealLock
<1>17. ASSUME NEW t \in Task, Retry(t) PROVE InitAlone' /\ RoomLeft'
  BY <1>17 DEF Retry
<1>18. ASSUME NEW t \in Task, GiveUp(t) PROVE InitAlone' /\ RoomLeft'
  BY <1>18 DEF GiveUp, Reject, Bury, TasksOf
<1>19. ASSUME NEW t \in Task, StampFails(t) PROVE InitAlone' /\ RoomLeft'
  BY <1>19 DEF StampFails, Reject, Bury, TasksOf
<1>20. ASSUME NEW t \in Task, TaskFails(t) PROVE InitAlone' /\ RoomLeft'
  BY <1>20 DEF TaskFails
<1>21. CASE UNCHANGED vars
  BY <1>21 DEF vars
<1> QED
  BY <1>1, <1>2, <1>3, <1>4, <1>5, <1>6, <1>7, <1>8, <1>9, <1>10, <1>11, <1>12, <1>13,
     <1>14, <1>15, <1>16, <1>17, <1>18, <1>19, <1>20, <1>21 DEF Next, Works, Fails

(* So BaseInv is an invariant.                                             *)
LEMMA BaseAlways == Spec => []BaseInv
<1>1. BaseInv /\ [Next]_vars => BaseInv'
  BY TypeStep, AloneStep DEF BaseInv
<1> QED
  BY BaseInit, <1>1, PTL DEF Spec

(* The variables keep their types: no counter of the model, and no update  *)
(* of the code, leaves its bounds in any interleaving, crash or restart.   *)
THEOREM TypeCorrect == Spec => []TypeOK
<1>1. BaseInv => TypeOK
  BY DEF BaseInv
<1> QED
  BY BaseAlways, <1>1, PTL
-----------------------------------------------------------------------------
(* The invariant behind mutual exclusion: whoever thinks it holds the lock *)
(* made the very file that is there.                                       *)
LockIsMine == \A t \in Task : Holds(t) => lock # NoLock /\ lock.creator = t

(* ... behind the lost updates: what a holder is about to write is what    *)
(* the state file contains now, and its own update.                        *)
CopyIsCurrent ==
  \A t \in Task : pc[t] \in {"write", "rename"} =>
    mem[t] = IF Ready(t) THEN disk \union {ThisUpdate(t)} ELSE disk

WrittenIsOnDisk == \A t \in Task : pc[t] = "unlock" /\ Ready(t) => ThisUpdate(t) \in disk

SafeWhile == LockIsMine /\ CopyIsCurrent /\ WrittenIsOnDisk /\ acked \subseteq disk
SafeInv == ~stolen => SafeWhile

(* The induction for the lock starts.                                      *)
LEMMA SafeInit == Init => SafeInv
BY DEF Init, SafeInv, SafeWhile, LockIsMine, CopyIsCurrent, WrittenIsOnDisk, Holds, Holding

(* The death of a process takes its claims to the lock with it.            *)
LEMMA SafeBury ==
  ASSUME BaseInv, SafeWhile, NEW p \in Proc, Bury(p), lock' = Orphaned(lock, p),
         UNCHANGED <<ready, count, disk, acked>>
  PROVE  SafeWhile'
<1> USE TaskAssumption DEF BaseInv, TypeOK, Bury, TasksOf
<1>1. \A t \in Task : pc'[t] # "dead" =>
        pc'[t] = pc[t] /\ mem'[t] = mem[t] /\ t \notin TasksOf(p)
  OBVIOUS
<1>2. ASSUME lock # NoLock, lock.creator \in Task, lock.creator \notin TasksOf(p)
      PROVE  lock' # NoLock /\ lock'.creator = lock.creator
  BY <1>2, NoLockAssumption, PidAssumption DEF Orphaned, LockRecord
<1>3. LockIsMine'
  BY <1>1, <1>2 DEF SafeWhile, LockIsMine, Holds, Holding
<1>4. CopyIsCurrent' /\ WrittenIsOnDisk'
  BY <1>1 DEF SafeWhile, CopyIsCurrent, WrittenIsOnDisk, Ready, ThisUpdate
<1> QED
  BY <1>3, <1>4 DEF SafeWhile

(* Every step keeps the claims about the lock and the file.                *)
LEMMA SafeStep == BaseInv /\ SafeInv /\ [Next]_vars => SafeInv'
<1> SUFFICES ASSUME BaseInv, SafeInv, [Next]_vars, ~stolen' PROVE SafeWhile'
  BY DEF SafeInv
<1> USE TaskAssumption, NoLockAssumption, PidAssumption
    DEF BaseInv, TypeOK, SafeInv, SafeWhile, LockIsMine, CopyIsCurrent, WrittenIsOnDisk,
        Holds, Holding, Goto, Ready, ThisUpdate, LockRecord
<1>1. CASE AgeLock
  BY <1>1 DEF AgeLock
<1>2. ASSUME NEW p \in Proc, Start(p) PROVE SafeWhile'
  BY <1>2 DEF Start, TasksOf
<1>3. ASSUME NEW p \in Proc, Crash(p) PROVE SafeWhile'
  BY <1>3, SafeBury DEF Crash
<1>4. ASSUME NEW t \in Task, Begin(t) PROVE SafeWhile'
  BY <1>4 DEF Begin
<1>5. ASSUME NEW t \in Task, OpenLock(t) PROVE SafeWhile'
  <2>1. lock' # NoLock /\ lock'.creator = t
    <3>1. lock' \in LockRecord
      BY <1>5 DEF OpenLock
    <3> QED
      BY <1>5, <3>1 DEF OpenLock
  <2>2. \A u \in Task : Holds(u)' => u = t
    BY <1>5 DEF OpenLock
  <2>3. CopyIsCurrent' /\ WrittenIsOnDisk'
    BY <1>5 DEF OpenLock
  <2> QED
    BY <1>5, <2>1, <2>2, <2>3 DEF OpenLock
<1>6. ASSUME NEW t \in Task, OpenBusy(t) PROVE SafeWhile'
  BY <1>6 DEF OpenBusy
<1>7. ASSUME NEW t \in Task, StampLock(t) PROVE SafeWhile'
  BY <1>7 DEF StampLock
<1>8. ASSUME NEW t \in Task, Load(t) PROVE SafeWhile'
  BY <1>8 DEF Load
<1>9. ASSUME NEW t \in Task, WriteTemp(t) PROVE SafeWhile'
  BY <1>9 DEF WriteTemp
<1>10. ASSUME NEW t \in Task, RenameTemp(t) PROVE SafeWhile'
  BY <1>10 DEF RenameTemp
<1>11. ASSUME NEW t \in Task, Unlock(t) PROVE SafeWhile'
  BY <1>11 DEF Unlock, LiveHolder
<1>12. ASSUME NEW t \in Task, UnlockFailed(t) PROVE SafeWhile'
  BY <1>12 DEF UnlockFailed, Reject, Bury, TasksOf, LiveHolder
<1>13. ASSUME NEW t \in Task, StatLock(t) PROVE SafeWhile'
  BY <1>13 DEF StatLock
<1>14. ASSUME NEW t \in Task, ReadLock(t) PROVE SafeWhile'
  BY <1>14 DEF ReadLock
<1>15. ASSUME NEW t \in Task, JudgeLock(t) PROVE SafeWhile'
  BY <1>15 DEF JudgeLock
<1>16. ASSUME NEW t \in Task, StealLock(t) PROVE SafeWhile'
  BY <1>16 DEF StealLock, LiveHolder
<1>17. ASSUME NEW t \in Task, Retry(t) PROVE SafeWhile'
  BY <1>17 DEF Retry
<1>18. ASSUME NEW t \in Task, GiveUp(t) PROVE SafeWhile'
  <2>1. CASE Ready(t)
    BY <1>18, <2>1 DEF GiveUp, Reject
  <2>2. CASE ~Ready(t)
    BY <1>18, <2>2, SafeBury DEF GiveUp, Reject
  <2> QED
    BY <2>1, <2>2
<1>19. ASSUME NEW t \in Task, StampFails(t) PROVE SafeWhile'
  <2>1. CASE Ready(t)
    BY <1>19, <2>1 DEF StampFails, Reject
  <2>2. CASE ~Ready(t)
    BY <1>19, <2>2, SafeBury DEF StampFails, Reject
  <2> QED
    BY <2>1, <2>2
<1>20. ASSUME NEW t \in Task, TaskFails(t) PROVE SafeWhile'
  BY <1>20 DEF TaskFails
<1>21. CASE UNCHANGED vars
  BY <1>21 DEF vars
<1> QED
  BY <1>1, <1>2, <1>3, <1>4, <1>5, <1>6, <1>7, <1>8, <1>9, <1>10, <1>11, <1>12, <1>13,
     <1>14, <1>15, <1>16, <1>17, <1>18, <1>19, <1>20, <1>21 DEF Next, Works, Fails

(* So SafeInv is an invariant.                                             *)
LEMMA SafeAlways == Spec => []SafeInv
<1>1. SafeInv /\ UNCHANGED vars => SafeInv'
  BY DEF SafeInv, SafeWhile, LockIsMine, CopyIsCurrent, WrittenIsOnDisk, Holds, Ready, ThisUpdate, vars
<1> QED
  BY BaseAlways, SafeInit, SafeStep, PTL DEF Spec

(* Mutual exclusion: two tasks can both be inside withLock only after one  *)
(* deleted the lock file of the other, whatever crashes and fails.         *)
THEOREM MutualExclusion == Spec => []ExclusiveUnlessStolen
<1>1. SafeInv => ExclusiveUnlessStolen
  BY DEF SafeInv, SafeWhile, LockIsMine, ExclusiveUnlessStolen
<1> QED
  BY SafeAlways, <1>1, PTL

(* Durability: an update whose promise resolved is not lost to any crash,  *)
(* failed write or later update, unless a live holder's lock was deleted.  *)
THEOREM NoLostUpdate == Spec => []AckedIsOnDisk
<1>1. SafeInv => AckedIsOnDisk
  BY DEF SafeInv, SafeWhile, AckedIsOnDisk
<1> QED
  BY SafeAlways, <1>1, PTL
-----------------------------------------------------------------------------
(* A step is a step of AtomicStore or changes neither file nor answers.    *)
LEMMA AbstractStep ==
  BaseInv /\ SafeInv /\ [Next]_vars => [~stolen' => Abstract!Next]_<<disk, acked>>
<1> SUFFICES ASSUME BaseInv, SafeInv, [Next]_vars, ~stolen',
                    ~ UNCHANGED <<disk, acked>>
             PROVE  Abstract!Next
  OBVIOUS
<1>1. PICK t \in Task : RenameTemp(t) \/ Unlock(t)
  BY DEF Next, Works, Fails, vars, AgeLock, Start, Crash, Begin, OpenLock, OpenBusy, StampLock,
         Load, WriteTemp, UnlockFailed, StatLock, ReadLock, JudgeLock, StealLock, Retry, GiveUp,
         StampFails, TaskFails
<1>2. CASE RenameTemp(t)
  <2>1. ~stolen /\ SafeWhile
    BY <1>2 DEF RenameTemp, SafeInv
  <2>2. Ready(t)
    BY <1>2, <2>1 DEF RenameTemp, SafeWhile, CopyIsCurrent
  <2>3. ThisUpdate(t) \in Update
    BY <1>2, <2>2, BoundsAssumption
       DEF RenameTemp, BaseInv, RoomLeft, Active, TypeOK, ThisUpdate, Update
  <2>4. disk' = disk \union {ThisUpdate(t)} /\ UNCHANGED acked
    BY <1>2, <2>1, <2>2 DEF RenameTemp, SafeWhile, CopyIsCurrent
  <2> QED
    BY <2>3, <2>4 DEF Abstract!Next, Abstract!Commit
<1>3. CASE Unlock(t)
  <2>1. ~stolen /\ SafeWhile
    BY <1>3 DEF Unlock, SafeInv
  <2>2. Ready(t) /\ acked' = acked \union {ThisUpdate(t)} /\ UNCHANGED disk
    BY <1>3 DEF Unlock
  <2>3. ThisUpdate(t) \in Update
    BY <1>3, <2>2, BoundsAssumption
       DEF Unlock, BaseInv, RoomLeft, Active, TypeOK, ThisUpdate, Update
  <2>4. ThisUpdate(t) \in disk
    BY <1>3, <2>1, <2>2 DEF Unlock, SafeWhile, WrittenIsOnDisk
  <2> QED
    BY <2>2, <2>3, <2>4 DEF Abstract!Next, Abstract!Ack
<1> QED
  BY <1>1, <1>2, <1>3

(* Up to the first stolen lock the store is an AtomicStore: its file grows *)
(* by one whole update at a time, and is acknowledged only afterwards.     *)
THEOREM StoreImplementsAtomicStore == Spec => ImplementsAtomicStore
<1>1. Init => Abstract!Init
  BY DEF Init, Abstract!Init
<1> QED
  BY BaseAlways, SafeAlways, AbstractStep, <1>1, PTL DEF Spec, ImplementsAtomicStore
-----------------------------------------------------------------------------
LoneWorld ==
  (\A p, q \in Proc : p = q) /\ ~HoldersMayStall /\ "stamp" \notin FaultKinds

(* In a lone process a lock file made by a task alive is in use and looks  *)
(* it; one left behind by a predecessor is there only until init() is over.*)
MadeIsHeld ==
  lock # NoLock /\ lock.creator \in Task =>
    Holds(lock.creator) /\ lock.pid # DeadPid /\ ~lock.old

LeftoverOnlyDuringInit ==
  lock # NoLock /\ lock.creator = DeadPid => \A t \in Task : pc[t] # "dead" => ~Ready(t)

StaleOnlyDuringInit ==
  \A t \in Task : /\ LooksStale(t) => pc[t] = "inspect" /\ ~Ready(t)
                  /\ pc[t] = "steal" => ~Ready(t)

LoneInv == ~stolen /\ MadeIsHeld /\ LeftoverOnlyDuringInit /\ StaleOnlyDuringInit

(* The induction for a lone process starts.                                *)
LEMMA LoneInit == Init => LoneInv
BY PidAssumption
   DEF Init, LoneInv, MadeIsHeld, LeftoverOnlyDuringInit, StaleOnlyDuringInit, LooksStale

(* The death of the lone process leaves nobody who could steal.            *)
LEMMA LoneBury ==
  ASSUME LoneWorld, BaseInv, LoneInv, NEW p \in Proc, Bury(p), lock' = Orphaned(lock, p),
         UNCHANGED <<ready, stolen>>
  PROVE  LoneInv'
<1>1. TasksOf(p) = Task
  BY TaskAssumption DEF LoneWorld, TasksOf
<1>2. \A t \in Task : pc'[t] = "dead" /\ seenAge'[t] = "unread" /\ seenPid'[t] = Unread
  BY <1>1 DEF Bury
<1>3. lock' # NoLock => lock'.creator = DeadPid
  BY <1>1 DEF Orphaned, BaseInv, TypeOK, LockRecord
<1>4. MadeIsHeld'
  BY <1>3, PidAssumption DEF MadeIsHeld
<1>5. LeftoverOnlyDuringInit' /\ StaleOnlyDuringInit'
  BY <1>2, PidAssumption DEF LeftoverOnlyDuringInit, StaleOnlyDuringInit, LooksStale
<1> QED
  BY <1>4, <1>5 DEF LoneInv

(* Every step of a lone process keeps its claims about the lock.           *)
LEMMA LoneStep ==
  LoneWorld /\ BaseInv /\ SafeInv /\ LoneInv /\ [Next]_vars => LoneInv'
<1> SUFFICES ASSUME LoneWorld, BaseInv, SafeInv, LoneInv, [Next]_vars PROVE LoneInv'
  OBVIOUS
<1>0. \A t, u \in Task : ProcOf[t] = ProcOf[u]
  BY TaskAssumption DEF LoneWorld
<1> USE TaskAssumption, NoLockAssumption, PidAssumption, <1>0
    DEF BaseInv, TypeOK, InitAlone, Active, SafeInv, SafeWhile, LockIsMine,
        LoneInv, MadeIsHeld, LeftoverOnlyDuringInit, StaleOnlyDuringInit, LooksStale,
        Holds, Holding, Goto, Ready, LockRecord
<1>1. CASE AgeLock
  BY <1>1 DEF AgeLock, LiveHolder, LoneWorld
<1>2. ASSUME NEW p \in Proc, Start(p) PROVE LoneInv'
  BY <1>2 DEF Start, TasksOf
<1>3. ASSUME NEW p \in Proc, Crash(p) PROVE LoneInv'
  BY <1>3, LoneBury DEF Crash
<1>4. ASSUME NEW t \in Task, Begin(t) PROVE LoneInv'
  BY <1>4 DEF Begin
<1>5. ASSUME NEW t \in Task, OpenLock(t) PROVE LoneInv'
  BY <1>5 DEF OpenLock
<1>6. ASSUME NEW t \in Task, OpenBusy(t) PROVE LoneInv'
  BY <1>6 DEF OpenBusy
<1>7. ASSUME NEW t \in Task, StampLock(t) PROVE LoneInv'
  BY <1>7 DEF StampLock
<1>8. ASSUME NEW t \in Task, Load(t) PROVE LoneInv'
  BY <1>8 DEF Load
<1>9. ASSUME NEW t \in Task, WriteTemp(t) PROVE LoneInv'
  BY <1>9 DEF WriteTemp
<1>10. ASSUME NEW t \in Task, RenameTemp(t) PROVE LoneInv'
  BY <1>10 DEF RenameTemp
<1>11. ASSUME NEW t \in Task, Unlock(t) PROVE LoneInv'
  BY <1>11 DEF Unlock, LiveHolder
<1>12. ASSUME NEW t \in Task, UnlockFailed(t) PROVE LoneInv'
  <2>1. CASE Ready(t)
    BY <1>12, <2>1 DEF UnlockFailed, Reject, LiveHolder
  <2>2. CASE ~Ready(t)
    BY <1>12, <2>2 DEF UnlockFailed, Reject, LiveHolder, Bury, TasksOf
  <2> QED
    BY <2>1, <2>2
<1>13. ASSUME NEW t \in Task, StatLock(t) PROVE LoneInv'
  BY <1>13 DEF StatLock
<1>14. ASSUME NEW t \in Task, ReadLock(t) PROVE LoneInv'
  BY <1>14 DEF ReadLock
<1>15. ASSUME NEW t \in Task, JudgeLock(t) PROVE LoneInv'
  BY <1>15 DEF JudgeLock
<1>16. ASSUME NEW t \in Task, StealLock(t) PROVE LoneInv'
  BY <1>16 DEF StealLock, LiveHolder
<1>17. ASSUME NEW t \in Task, Retry(t) PROVE LoneInv'
  BY <1>17 DEF Retry
<1>18. ASSUME NEW t \in Task, GiveUp(t) PROVE LoneInv'
  <2>1. CASE Ready(t)
    BY <1>18, <2>1 DEF GiveUp, Reject
  <2>2. CASE ~Ready(t)
    BY <1>18, <2>2, LoneBury DEF GiveUp, Reject
  <2> QED
    BY <2>1, <2>2
<1>19. ASSUME NEW t \in Task, StampFails(t) PROVE LoneInv'
  BY <1>19 DEF StampFails, Fault, LoneWorld
<1>20. ASSUME NEW t \in Task, TaskFails(t) PROVE LoneInv'
  BY <1>20 DEF TaskFails
<1>21. CASE UNCHANGED vars
  BY <1>21 DEF vars
<1> QED
  BY <1>1, <1>2, <1>3, <1>4, <1>5, <1>6, <1>7, <1>8, <1>9, <1>10, <1>11, <1>12, <1>13,
     <1>14, <1>15, <1>16, <1>17, <1>18, <1>19, <1>20, <1>21 DEF Next, Works, Fails

(* One trader process, however many tasks it runs and however often it is  *)
(* killed: while its holders are prompt and can write their pid, none of   *)
(* its tasks deletes the lock of another, so the two theorems above hold   *)
(* of it without their proviso.                                            *)
THEOREM LoneProcessIsSafe == Spec => []LoneProcessNeverSteals
<1>1. CASE LoneWorld
  <2>1. LoneInv => LoneProcessNeverSteals
    BY DEF LoneInv, LoneProcessNeverSteals
  <2> QED
    BY <1>1, BaseAlways, SafeAlways, LoneInit, LoneStep, <2>1, PTL DEF Spec
<1>2. CASE ~LoneWorld
  <2>1. LoneProcessNeverSteals
    BY <1>2 DEF LoneWorld, LoneProcessNeverSteals
  <2> QED
    BY <2>1, PTL
<1> QED
  BY <1>1, <1>2
=============================================================================
