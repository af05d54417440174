---------------------------- MODULE AtomicStore ----------------------------
(***************************************************************************)
(* What StateStore promises its callers: every update is applied to the    *)
(* state file in one indivisible step, on top of everything applied        *)
(* before, and an update is reported as done only after it was applied.    *)
(* An update is an opaque identifier; the file is the set of updates whose *)
(* effect it contains.                                                     *)
(***************************************************************************)
CONSTANT Update

VARIABLES
  file,    \* the updates the state file contains
  acked    \* the updates whose caller was told that they succeeded

vars == <<file, acked>>

Init ==
  /\ file = {}
  /\ acked = {}

\* An update takes effect: nothing that was in the file disappears.
Commit(u) ==
  /\ file' = file \union {u}
  /\ UNCHANGED acked

\* The caller learns of it, which it may only do after the update took effect.
Ack(u) ==
  /\ u \in file
  /\ acked' = acked \union {u}
  /\ UNCHANGED file

Next == \E u \in Update : Commit(u) \/ Ack(u)

Spec == Init /\ [][Next]_vars
============================================================================
