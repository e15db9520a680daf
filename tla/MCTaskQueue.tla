---------------------------- MODULE MCTaskQueue ----------------------------
(***************************************************************************)
(* Instances of TaskQueue for TLC: the daemon and, in a process beside it, *)
(* a worker; one task at once and one for later, of the same priority.     *)
(***************************************************************************)
EXTENDS TaskQueue, TLC

CONSTANTS t1, t2, daemon, w2

PriorityDef == [t \in Tasks |-> 0]

ScheduledForDef == [t \in Tasks |-> IF t = t2 THEN 2 ELSE 0]

\* The daemon's worker and handlers share one SQLiteQueue; w2 is a process of its own.
ConnDef == [u \in Users |-> IF u = w2 THEN w2 ELSE daemon]

=============================================================================
