---------------------------- MODULE MCStateStore ----------------------------
(* Instances of StateStore: two processes that update one at a time (the   *)
(* trader and a second one started by hand), and one process with two      *)
(* updates under way.                                                      *)
EXTENDS StateStore, TLC

CONSTANTS p1, p2, t1, t2

TwoProcs == {p1, p2}
OneProc == {p1}
TwoTasks == {t1, t2}
OneTaskEach == t1 :> p1 @@ t2 :> p2
BothTasksOfOne == t1 :> p1 @@ t2 :> p1
AllFaults == {"crash", "stamp", "task"}
CrashOrTask == {"crash", "task"}
=============================================================================
