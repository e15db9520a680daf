--------------------------- MODULE TaskLifecycle ---------------------------
(***************************************************************************)
(* What yakyoke promises about a task, whatever thread or process does the *)
(* work: the life of one row of the tasks table as a client of the HTTP    *)
(* API may rely on it.  A task is submitted once, claimed at most once,    *)
(* its result is published while it is being worked on (or after it was    *)
(* cancelled under the worker's feet), and it ends in exactly one terminal *)
(* state: done only with a published result, failed only without one.      *)
(***************************************************************************)
EXTENDS Models

CONSTANT Tasks        \* task ids

VARIABLES
  status,             \* [Tasks -> Status or "absent"]
  published           \* the tasks whose result_path is set

vars == <<status, published>>

TypeOK ==
  /\ status \in [Tasks -> Status \cup {"absent"}]
  /\ published \in SUBSET Tasks

Init ==
  /\ status = [t \in Tasks |-> "absent"]
  /\ published = {}

Move(t, from, to) ==
  /\ status[t] \in from
  /\ status' = [status EXCEPT ![t] = to]

Submit(t) == Move(t, {"absent"}, "pending") /\ UNCHANGED published
Claim(t)  == Move(t, {"pending"}, "running") /\ UNCHANGED published
Cancel(t) == Move(t, Cancellable, "cancelled") /\ UNCHANGED published

Publish(t) ==
  /\ status[t] \in {"running", "cancelled"}
  /\ published' = published \cup {t}
  /\ UNCHANGED status

Finish(t) ==
  /\ t \in published
  /\ Move(t, {"running"}, "done")
  /\ UNCHANGED published

Fail(t) ==
  /\ t \notin published
  /\ Move(t, {"running"}, "failed")
  /\ UNCHANGED published

Next ==
  \E t \in Tasks :
    Submit(t) \/ Claim(t) \/ Cancel(t) \/ Publish(t) \/ Finish(t) \/ Fail(t)

Spec == Init /\ [][Next]_vars

=============================================================================
