----------------------------- MODULE TaskQueue -----------------------------
(***************************************************************************)
(* The queue (queue.py) call by call: several workers that claim, settle   *)
(* and crash, and API threads that cancel, each through the connection of  *)
(* its SQLiteQueue.  Users may share a connection, as the daemon's worker  *)
(* and its handlers do, or have one each, as separate processes would.     *)
(*                                                                         *)
(* SQLite is external, and modelled as queue.py uses it.  An UPDATE ...    *)
(* RETURNING that found a row keeps its statement open until fetchone()    *)
(* has taken the row; the connection autocommits when no write statement   *)
(* of it is open.  Until then the connection holds the write lock, its own *)
(* statements see its changes, and its end takes them back.  A statement   *)
(* that needs the lock waits (module Daemon has the failing ones).         *)
(*                                                                         *)
(* Priority and ScheduledFor are columns that claim_next reads and no API  *)
(* sets yet.  A time is a number, read from one clock.                     *)
(***************************************************************************)
EXTENDS Models, Integers, FiniteSets

CONSTANTS
  Tasks,         \* task ids
  Workers,       \* worker threads
  Callers,       \* handler threads that cancel
  Conns,         \* connections of SQLiteQueue objects
  ConnOf,        \* the connection each worker and caller uses
  None,          \* no task, no connection
  Priority,      \* Task.priority
  ScheduledFor,  \* Task.scheduled_for; 0 is NULL
  MaxClock,      \* bound: clock readings
  MaxCrashes     \* bound: processes that crash

Users == Workers \cup Callers

ASSUME QueueAssumption ==
  /\ Workers \cap Callers = {}
  /\ None \notin Tasks \cup Conns
  /\ ConnOf \in [Users -> Conns]
  /\ Priority \in [Tasks -> Int] /\ ScheduledFor \in [Tasks -> Nat]
  /\ MaxClock \in Nat /\ MaxCrashes \in Nat

VARIABLES
  rows,       \* the committed tasks table
  view,       \* the same with the uncommitted changes of the lock's holder
  lock,       \* the connection that holds the write lock between two calls
  published,  \* the tasks whose result_path is committed
  created,    \* Task.created_at, 0 before the Task is constructed
  clock,      \* the wall clock
  pc,         \* where each worker and caller is
  task,       \* the task each is about
  at,         \* the time each has read for its statement
  crashes,    \* how many processes have crashed
  starts,     \* history: how many times each task was handed to a worker
  told,       \* history: the tasks whose DELETE was answered true
  before      \* history: the tasks answered with 201 when this one was constructed

db      == <<rows, view, lock>>
users   == <<pc, task, at>>
history == <<starts, told, before>>
vars    == <<db, published, created, clock, users, crashes, history>>

Row == [status : Status \cup {"absent"}, started_at : Nat, completed_at : Nat]

\* A task that is still waiting has no times yet.
Unstarted(r) ==
  r.status \in {"absent", "pending"} => r.started_at = 0 /\ r.completed_at = 0

TypeOK ==
  /\ rows \in [Tasks -> Row] /\ view \in [Tasks -> Row]
  /\ \A t \in Tasks : Unstarted(rows[t]) /\ Unstarted(view[t])
  /\ lock \in Conns \cup {None}
  /\ published \in SUBSET Tasks
  /\ created \in [Tasks -> Nat] /\ clock \in Nat
  /\ pc \in [Users -> {"idle", "claim", "fetch", "work", "publish", "ack", "done", "failed",
                    "cancel"}]
  /\ task \in [Users -> Tasks \cup {None}]
  /\ at \in [Users -> Nat]
  /\ crashes \in 0 .. MaxCrashes
  /\ starts \in [Tasks -> Nat]
  /\ told \in SUBSET Tasks
  /\ before \in [Tasks -> SUBSET Tasks]

Init ==
  /\ rows = [t \in Tasks |-> [status |-> "absent", started_at |-> 0, completed_at |-> 0]]
  /\ view = rows /\ lock = None
  /\ published = {}
  /\ created = [t \in Tasks |-> 0] /\ clock = 0
  /\ pc = [u \in Users |-> "idle"]
  /\ task = [u \in Users |-> None]
  /\ at = [u \in Users |-> 0]
  /\ crashes = 0
  /\ starts = [t \in Tasks |-> 0] /\ told = {} /\ before = [t \in Tasks |-> {}]

-----------------------------------------------------------------------------
(* SQLite *)

\* The statements other than u's that are open on u's connection.
Open(u) == {w \in Workers \ {u} : pc[w] = "fetch" /\ ConnOf[w] = ConnOf[u]}

\* u's connection has the write lock, or can get it.
CanWrite(u) == lock \in {None, ConnOf[u]}

\* A finished statement of u leaves the table as new: it is committed, unless an
\* open statement of the connection puts the commit off.
Finished(u, new) ==
  /\ view' = new
  /\ IF Open(u) = {} THEN rows' = new /\ lock' = None
                     ELSE lock' = ConnOf[u] /\ UNCHANGED rows

\* A task's row is given status s and the time x.
Settled(t, s, x) == [view EXCEPT ![t] = [@ EXCEPT !.status = s, !.completed_at = x]]

\* u goes to place l with task t, having read time x.
Goto(u, l, t, x) ==
  /\ pc' = [pc EXCEPT ![u] = l]
  /\ task' = [task EXCEPT ![u] = t]
  /\ at' = [at EXCEPT ![u] = x]

-----------------------------------------------------------------------------
(* Submission, through a storage connection of its own *)

\* POST /tasks constructs the Task ...
Construct(t) ==
  /\ created[t] = 0 /\ clock < MaxClock
  /\ clock' = clock + 1
  /\ created' = [created EXCEPT ![t] = clock']
  /\ before' = [before EXCEPT ![t] = {u \in Tasks : rows[u].status # "absent"}]
  /\ UNCHANGED <<db, published, users, crashes, starts, told>>

\* ... and commits its row, before it answers.
Insert(t) ==
  /\ created[t] # 0 /\ rows[t].status = "absent"
  /\ lock = None
  /\ rows' = [rows EXCEPT ![t].status = "pending"]
  /\ view' = rows'
  /\ UNCHANGED <<lock, published, created, clock, users, crashes, history>>

Tick ==
  /\ clock < MaxClock
  /\ clock' = clock + 1
  /\ UNCHANGED <<db, published, created, users, crashes, history>>

-----------------------------------------------------------------------------
(* A worker *)

\* claim_next reads the time before its statement waits for the lock.
ReadNow(w) ==
  /\ pc[w] = "idle"
  /\ Goto(w, "claim", None, clock)
  /\ UNCHANGED <<db, published, created, clock, crashes, history>>

\* Seeded fault: WHERE status = 'pending' is missing.
AnyDue(x) ==
  {t \in Tasks : view[t].status \in Cancellable /\ ScheduledFor[t] <= x}

\* The rows the subselect's WHERE clause lets through.
Due(x) == {t \in Tasks : view[t].status = "pending" /\ ScheduledFor[t] <= x}

\* Seeded fault: ORDER BY created_at DESC.
YoungerFirst(t, u) ==
  Priority[t] > Priority[u] \/ (Priority[t] = Priority[u] /\ created[t] >= created[u])

\* ORDER BY priority DESC, created_at ASC.
NotAfter(t, u) ==
  Priority[t] > Priority[u] \/ (Priority[t] = Priority[u] /\ created[t] <= created[u])

\* execute() of the UPDATE ... RETURNING changes the row and leaves it to be fetched.
Claim(w) ==
  /\ pc[w] = "claim" /\ CanWrite(w)
  /\ \E t \in Due(at[w]) :
       /\ \A u \in Due(at[w]) : NotAfter(t, u)
       /\ view' = [view EXCEPT ![t] = [@ EXCEPT !.status = "running", !.started_at = at[w]]]
       /\ lock' = ConnOf[w] /\ UNCHANGED rows
       /\ Goto(w, "fetch", t, at[w])
  /\ UNCHANGED <<published, created, clock, crashes, history>>

\* It found no row and is finished: back to the poll interval.
ClaimNothing(w) ==
  /\ pc[w] = "claim" /\ CanWrite(w)
  /\ Due(at[w]) = {}
  /\ Finished(w, view)
  /\ Goto(w, "idle", None, 0)
  /\ UNCHANGED <<published, created, clock, crashes, history>>

\* Seeded fault: the cursor is not run to its end, and the statement stays open.
FetchOpen(w) ==
  /\ pc[w] = "fetch"
  /\ starts' = [starts EXCEPT ![task[w]] = @ + 1]
  /\ Goto(w, "work", task[w], 0)
  /\ UNCHANGED <<db, published, created, clock, crashes, told, before>>

\* fetchone() takes the row and runs the statement to its end; the task is w's.
Fetch(w) ==
  /\ pc[w] = "fetch"
  /\ Finished(w, view)
  /\ starts' = [starts EXCEPT ![task[w]] = @ + 1]
  /\ Goto(w, "work", task[w], 0)
  /\ UNCHANGED <<published, created, clock, crashes, told, before>>

\* The agent's run ends, in a text or in an exception; nack then reads the time.
AgentEnds(w) ==
  /\ pc[w] = "work"
  /\ Goto(w, "publish", task[w], 0) \/ Goto(w, "failed", task[w], clock)
  /\ UNCHANGED <<db, published, created, clock, crashes, history>>

\* storage.update_task commits result_path, through the storage connection.
Publish(w) ==
  /\ pc[w] = "publish" /\ lock = None
  /\ published' = published \cup {task[w]}
  /\ Goto(w, "ack", task[w], 0)
  /\ UNCHANGED <<db, created, clock, crashes, history>>

\* Seeded fault: ack sets completed_at to the time of the claim.
ReadEndOnce(w) ==
  /\ pc[w] = "ack"
  /\ Goto(w, "done", task[w], rows[task[w]].started_at)
  /\ UNCHANGED <<db, published, created, clock, crashes, history>>

\* ack reads the time ...
ReadEnd(w) ==
  /\ pc[w] = "ack"
  /\ Goto(w, "done", task[w], clock)
  /\ UNCHANGED <<db, published, created, clock, crashes, history>>

\* Seeded fault: the guard on the status is missing.
SettleUnguarded(w) ==
  /\ pc[w] \in {"done", "failed"} /\ CanWrite(w)
  /\ Finished(w, Settled(task[w], pc[w], at[w]))
  /\ Goto(w, "idle", None, 0)
  /\ UNCHANGED <<published, created, clock, crashes, history>>

\* Seeded fault: the guard names the wrong status.
SettleMissed(w) ==
  /\ pc[w] \in {"done", "failed"} /\ CanWrite(w)
  /\ Finished(w, IF view[task[w]].status = "pending"
                 THEN Settled(task[w], pc[w], at[w]) ELSE view)
  /\ Goto(w, "idle", None, 0)
  /\ UNCHANGED <<published, created, clock, crashes, history>>

\* Seeded fault: nack puts the task back into the queue.
SettleRequeues(w) ==
  /\ pc[w] \in {"done", "failed"} /\ CanWrite(w)
  /\ Finished(w, IF view[task[w]].status = "running"
                 THEN Settled(task[w], IF pc[w] = "done" THEN "done" ELSE "pending", at[w])
                 ELSE view)
  /\ Goto(w, "idle", None, 0)
  /\ UNCHANGED <<published, created, clock, crashes, history>>

\* ... and ack and nack update the row if it is still running.
Settle(w) ==
  /\ pc[w] \in {"done", "failed"} /\ CanWrite(w)
  /\ Finished(w, IF view[task[w]].status = "running"
                 THEN Settled(task[w], pc[w], at[w]) ELSE view)
  /\ Goto(w, "idle", None, 0)
  /\ UNCHANGED <<published, created, clock, crashes, history>>

-----------------------------------------------------------------------------
(* DELETE /tasks/{id} *)

\* The handler has found a row that is not finished; cancel reads the time.
ReadCancel(a, t) ==
  /\ pc[a] = "idle" /\ rows[t].status \in Cancellable
  /\ Goto(a, "cancel", t, clock)
  /\ UNCHANGED <<db, published, created, clock, crashes, history>>

\* queue.cancel; the row count is the answer.
Cancel(a) ==
  /\ pc[a] = "cancel" /\ CanWrite(a)
  /\ IF view[task[a]].status \in Cancellable
     THEN /\ Finished(a, Settled(task[a], "cancelled", at[a]))
          /\ told' = told \cup {task[a]}
     ELSE Finished(a, view) /\ UNCHANGED told
  /\ Goto(a, "idle", None, 0)
  /\ UNCHANGED <<published, created, clock, crashes, starts, before>>

-----------------------------------------------------------------------------

\* The process of connection c crashes and starts again: its users are where
\* they began, and its uncommitted changes are gone.
Crash(c) ==
  /\ crashes < MaxCrashes
  /\ crashes' = crashes + 1
  /\ LET of(u) == ConnOf[u] = c IN
       /\ pc' = [u \in Users |-> IF of(u) THEN "idle" ELSE pc[u]]
       /\ task' = [u \in Users |-> IF of(u) THEN None ELSE task[u]]
       /\ at' = [u \in Users |-> IF of(u) THEN 0 ELSE at[u]]
  /\ IF lock = c THEN view' = rows /\ lock' = None ELSE UNCHANGED <<view, lock>>
  /\ UNCHANGED <<rows, published, created, clock, history>>

WorkerStep(w) ==
  \/ ReadNow(w) \/ Claim(w) \/ ClaimNothing(w) \/ Fetch(w)
  \/ AgentEnds(w) \/ Publish(w) \/ ReadEnd(w) \/ Settle(w)

Next ==
  \/ \E t \in Tasks : Construct(t) \/ Insert(t)
  \/ Tick
  \/ \E w \in Workers : WorkerStep(w)
  \/ \E a \in Callers : Cancel(a) \/ \E t \in Tasks : ReadCancel(a, t)
  \/ \E c \in Conns : Crash(c)

Spec == Init /\ [][Next]_vars

\* Every worker thread is scheduled, its agent's runs end, and a DELETE that has
\* reached the queue is carried out.
Fairness ==
  /\ \A w \in Workers : WF_vars(WorkerStep(w))
  /\ \A a \in Callers : WF_vars(Cancel(a))

FairSpec == Spec /\ Fairness

-----------------------------------------------------------------------------
(* Properties *)

\* The atomic claim: no task is in the hands of two workers or handed out twice,
\* although a claim is visible to its own connection before it is committed and
\* may be taken back.
ClaimedOnce ==
  /\ \A t \in Tasks : starts[t] <= 1
  /\ \A v, w \in Workers : task[v] = task[w] /\ task[v] # None => v = w

\* What a worker works on is committed as its own or cancelled under its feet,
\* so that no crash hands it out again.
WorkIsCommitted ==
  \A w \in Workers : pc[w] \in {"work", "publish", "ack", "done", "failed"} =>
    rows[task[w]].status \in {"running", "cancelled"}

\* No task is started before its time, and the times of a finished task are in
\* order, although each is read before its statement waits for the lock: started_at
\* may lie before created_at, completed_at lies before neither.
TimesOrdered ==
  \A t \in Tasks : rows[t].status \in {"running", "done", "failed"} =>
    /\ ScheduledFor[t] <= rows[t].started_at
    /\ rows[t].status # "running" =>
         /\ rows[t].started_at <= rows[t].completed_at
         /\ created[t] <= rows[t].completed_at

Claims(w, t) == pc[w] = "claim" /\ pc'[w] = "fetch" /\ task'[w] = t

\* "The highest-priority, oldest pending task that's eligible": a task that was
\* answered before another was even submitted is not passed over for it, unless it
\* was not due when the worker looked or the other one is more urgent.
NoOvertaking ==
  [][\A w \in Workers, t \in Tasks : Claims(w, t) =>
       \A u \in before[t] :
         \/ view[u].status # "pending"
         \/ ScheduledFor[u] > at[w]
         \/ Priority[t] > Priority[u]]_vars

\* The queue implements the promise of TaskLifecycle for each task, with commits as
\* its steps: one commit may carry a claim and a cancellation of other tasks.
Lifecycle(t) == INSTANCE TaskLifecycle WITH
  Tasks     <- {t},
  status    <- [u \in {t} |-> rows[u].status],
  published <- published \cap {t}

ImplementsLifecycle ==
  /\ \A t \in Tasks : Lifecycle(t)!Init
  /\ [][\A t \in Tasks : [Lifecycle(t)!Next]_<<rows[t].status, t \in published>>]_vars

\* A due task is settled in the end, by whichever worker; only a crash may leave it
\* running, and a crash before its claim was committed leaves it to the next worker.
AllSettled ==
  \A t \in Tasks : rows[t].status = "pending" /\ ScheduledFor[t] <= clock ~>
    rows[t].status \in Terminal \/ (rows[t].status = "running" /\ crashes > 0)

\* "State survives daemon restarts": once no statement is open any more, a crash
\* between included, a task whose DELETE was answered true is cancelled.
CancelSurvives == lock = None => \A t \in told : rows[t].status = "cancelled"

=============================================================================
