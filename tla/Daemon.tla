------------------------------- MODULE Daemon -------------------------------
(***************************************************************************)
(* The yakyoke daemon process: FastAPI handler threads and one worker      *)
(* thread that meet in a SQLite file, through two connections that all     *)
(* threads share without a lock (storage.py and queue.py both pass         *)
(* check_same_thread=False).                                               *)
(*                                                                         *)
(* Every storage write is the three statements BEGIN IMMEDIATE, INSERT or  *)
(* UPDATE, COMMIT, and claim_next is an execute() and a fetchone(), each a *)
(* step of its own: another thread's statement on the same connection may  *)
(* come between them.  The queue's other statements are one step each.     *)
(* The agent's run is one nondeterministic outcome here; module AgentLoop  *)
(* details it.                                                             *)
(*                                                                         *)
(* SQLite is external and modelled as the code uses it: a connection has   *)
(* at most one open transaction, whose writes that connection alone sees;  *)
(* a second BEGIN raises; a writer on the other connection waits for the   *)
(* write lock, and raises when its 30 s busy timeout expires, which looks  *)
(* like a write that the disk refuses.  A queue statement autocommits, but *)
(* not while a claim of the connection has its row still to be fetched:    *)
(* until then the connection keeps the lock and its changes to itself.     *)
(***************************************************************************)
EXTENDS Models, Integers, FiniteSets

CONSTANTS
  Tasks,         \* task ids; uuid4 makes each submission's id fresh
  Handlers,      \* threads of the HTTP server's pool
  Worker,        \* the background worker thread
  NoTask,        \* no task at hand
  MaxBoots,      \* bound: how many times the process is started
  BlankModels,   \* is the configured default model empty (then a task's may be)
  DiskFaults     \* may a write fail: refused by the disk, or out of time for the lock

ASSUME DaemonAssumption ==
  /\ Worker \notin Handlers
  /\ NoTask \notin Tasks
  /\ MaxBoots \in Nat \ {0}
  /\ BlankModels \in BOOLEAN
  /\ DiskFaults \in BOOLEAN

Threads == Handlers \cup {Worker}

VARIABLES
  rows,       \* the committed tasks table
  view,       \* the table as the storage connection sees it
  inTx,       \* is a transaction open on the storage connection
  queue,      \* the table as the queue's connection sees it
  created,    \* Task.created_at, read from the clock at construction
  clock,      \* the wall clock; it moves when a Task is constructed
  result,     \* what each task's workspace holds at result.md
  pc,         \* where each thread is
  sql,        \* the storage write a thread is making
  task,       \* the task a thread's call is about
  phase,      \* life of the process
  boots,      \* how many times the process has been started
  starts,     \* history: how many times each task was handed to the worker
  life,       \* history: the life of the process in which it was claimed
  told,       \* history: what clients were answered about each task
  seen        \* history: the status a client last read of each task

db      == <<rows, view, inTx, queue>>
threads == <<pc, sql, task>>
process == <<phase, boots>>
claims  == <<starts, life>>
history == <<claims, told, seen>>
vars    == <<db, created, clock, result, threads, process, history>>

Row == [status : Status \cup {"absent"}, result_path : BOOLEAN]

AbsentRow == [status |-> "absent", result_path |-> FALSE]

TxPc     == {"begin", "exec", "commit"}
HandlerPc == {"off", "idle", "cancel"} \cup TxPc
WorkerPc == {"off", "poll", "fetch", "load", "agent", "nack", "persist", "ack",
             "stopped", "dead"} \cup TxPc

Answer == {"created", "create_failed", "cancelled", "result_unreadable"}

\* Files: no workspace yet, workspace without result.md, and what is there.
ResultFile == {"none", "empty", "file", "dir"}

TypeOK ==
  /\ rows \in [Tasks -> Row] /\ view \in [Tasks -> Row] /\ queue \in [Tasks -> Row]
  /\ inTx \in BOOLEAN
  /\ created \in [Tasks -> Nat] /\ clock \in Nat
  /\ result \in [Tasks -> ResultFile]
  /\ pc \in [Threads -> HandlerPc \cup WorkerPc]
  /\ sql \in [Threads -> {"none", "insert", "model", "result_path"}]
  /\ task \in [Threads -> Tasks \cup {NoTask}]
  /\ phase \in {"up", "stopping", "queue_closed", "closed", "down"}
  /\ boots \in 1 .. MaxBoots
  /\ starts \in [Tasks -> Nat] /\ life \in [Tasks -> 0 .. MaxBoots]
  /\ told \in [Tasks -> SUBSET Answer]
  /\ seen \in [Tasks -> Status \cup {"absent", "unseen"}]

\* create_app and lifespan startup on an empty database.
Init ==
  /\ rows = [t \in Tasks |-> AbsentRow] /\ view = rows /\ queue = rows
  /\ inTx = FALSE
  /\ created = [t \in Tasks |-> 0] /\ clock = 0
  /\ result = [t \in Tasks |-> "none"]
  /\ pc = [th \in Threads |-> IF th = Worker THEN "poll" ELSE "idle"]
  /\ sql = [th \in Threads |-> "none"]
  /\ task = [th \in Threads |-> NoTask]
  /\ phase = "up" /\ boots = 1
  /\ starts = [t \in Tasks |-> 0] /\ life = starts
  /\ told = [t \in Tasks |-> {}]
  /\ seen = [t \in Tasks |-> "unseen"]

-----------------------------------------------------------------------------
(* Building blocks *)

QueueOpen   == phase \in {"up", "stopping"}
StorageOpen == phase \in {"up", "stopping", "queue_closed"}

\* Thread th goes on at place l with its current task.
Goto(th, l) == pc' = [pc EXCEPT ![th] = l] /\ UNCHANGED <<sql, task>>

\* Thread th goes to place l to make storage write s about task t.
Call(th, l, s, t) ==
  /\ pc' = [pc EXCEPT ![th] = l]
  /\ sql' = [sql EXCEPT ![th] = s]
  /\ task' = [task EXCEPT ![th] = t]

\* Thread th ends its call or its task at place l.
Leave(th, l) == Call(th, l, "none", NoTask)

Tell(t, a) == told' = [told EXCEPT ![t] = @ \cup {a}]

\* A claim whose row has still to be fetched: the queue's connection has changes
\* that are not committed, and with them the write lock.
ClaimOpen == queue # rows

\* The queue's connection commits what it has, for all to see.
CommitQueue ==
  /\ rows' = queue
  /\ view' = IF inTx THEN view ELSE queue
  /\ UNCHANGED <<inTx, queue>>

\* A statement of the queue's connection sets t's status, and is committed unless
\* an open claim puts the commit off.  It needs the write lock, which an open
\* storage transaction holds.
SetStatus(t, s) ==
  /\ queue' = [queue EXCEPT ![t].status = s]
  /\ IF ClaimOpen THEN UNCHANGED <<rows, view>> ELSE rows' = queue' /\ view' = queue'
  /\ UNCHANGED inTx

\* The same for a statement whose WHERE clause names the states it applies to.
SetStatusWhere(t, from, s) ==
  IF queue[t].status \in from THEN SetStatus(t, s) ELSE UNCHANGED db

-----------------------------------------------------------------------------
(* SQLiteStorage._tx, its three statements and its error paths *)

\* The exception leaves the handler as HTTP 500; in the worker nothing
\* catches it, and the thread ends.
Raise(th) ==
  IF th = Worker
  THEN Leave(th, "dead") /\ UNCHANGED told
  ELSE Leave(th, "idle") /\ Tell(task[th], "create_failed")

Begin(th) ==
  /\ pc[th] = "begin" /\ StorageOpen
  /\ ~inTx /\ ~ClaimOpen
  /\ inTx' = TRUE
  /\ Goto(th, "exec")
  /\ UNCHANGED <<rows, view, queue, created, clock, result, process, history>>

\* Seeded fault: BEGIN inside the try, so that a refused BEGIN rolls back.
BeginRollsBack(th) ==
  /\ pc[th] = "begin"
  /\ inTx \/ DiskFaults \/ ~StorageOpen
  /\ view' = rows /\ inTx' = FALSE
  /\ Raise(th)
  /\ UNCHANGED <<rows, queue, created, clock, result, process, claims, seen>>

\* BEGIN stands before the try: a failing one rolls nothing back.
BeginRaises(th) ==
  /\ pc[th] = "begin"
  /\ inTx \/ DiskFaults \/ ~StorageOpen
  /\ Raise(th)
  /\ UNCHANGED <<db, created, clock, result, process, claims, seen>>

\* The row that thread th's INSERT or UPDATE leaves; a model is not modelled.
Written(th) ==
  CASE sql[th] = "insert"      -> [AbsentRow EXCEPT !.status = "pending"]
    [] sql[th] = "model"       -> view[task[th]]
    [] sql[th] = "result_path" -> [view[task[th]] EXCEPT !.result_path = TRUE]

\* Outside a transaction the statement would commit by itself.
Exec(th) ==
  /\ pc[th] = "exec" /\ StorageOpen
  /\ view' = [view EXCEPT ![task[th]] = Written(th)]
  /\ rows' = IF inTx THEN rows ELSE view'
  /\ queue' = rows'
  /\ Goto(th, "commit")
  /\ UNCHANGED <<inTx, created, clock, result, process, history>>

\* After COMMIT a handler answers 201; the worker starts the agent, or acks.
Commit(th) ==
  /\ pc[th] = "commit" /\ inTx
  /\ rows' = view /\ queue' = view /\ inTx' = FALSE
  /\ IF th = Worker
     THEN /\ Call(th, IF sql[th] = "model" THEN "agent" ELSE "ack",
                  "none", task[th])
          /\ UNCHANGED told
     ELSE Leave(th, "idle") /\ Tell(task[th], "created")
  /\ UNCHANGED <<view, created, clock, result, process, claims, seen>>

\* Seeded fault: no ROLLBACK.
TxAbandoned(th) ==
  /\ pc[th] \in {"exec", "commit"} /\ DiskFaults
  /\ Raise(th)
  /\ UNCHANGED <<db, created, clock, result, process, claims, seen>>

\* A statement inside the try fails: ROLLBACK, and the exception goes on.
TxRaises(th) ==
  /\ pc[th] \in {"exec", "commit"}
  /\ \/ DiskFaults
     \/ ~StorageOpen
     \/ pc[th] = "commit" /\ ~inTx
  /\ view' = rows /\ inTx' = FALSE
  /\ Raise(th)
  /\ UNCHANGED <<rows, queue, created, clock, result, process, claims, seen>>

-----------------------------------------------------------------------------
(* HTTP handlers; a new request needs an idle thread of a serving process *)

Serves(h) == phase = "up" /\ pc[h] = "idle"

\* POST /tasks: construct the Task and make its workspace, then storage.create_task.
CreateTask(h, t) ==
  /\ Serves(h)
  /\ result[t] = "none"
  /\ result' = [result EXCEPT ![t] = "empty"]
  /\ clock' = clock + 1
  /\ created' = [created EXCEPT ![t] = clock']
  /\ Call(h, "begin", "insert", t)
  /\ UNCHANGED <<db, process, history>>

\* A client knows the id from its 201 or from a listing.
Known(t) == "created" \in told[t] \/ seen[t] # "unseen"

\* GET /tasks/{id} reads through the storage connection; "absent" is a 404.
GetTask(h, t) ==
  /\ Serves(h) /\ Known(t)
  /\ seen' = [seen EXCEPT ![t] = view[t].status]
  /\ UNCHANGED <<db, created, clock, result, threads, process, claims, told>>

\* storage.list_tasks: the newest n rows of status s; SQLite takes a negative
\* limit for none, and nothing checks the one a client sends.
Newest(s, n) ==
  LET matching == {t \in Tasks : view[t].status # "absent" /\ s \in {"any", view[t].status}}
  IN {t \in matching :
        n < 0 \/ Cardinality({u \in matching : created[u] > created[t]}) < n}

\* GET /tasks with any status filter and a limit.
ListTasks(h) ==
  /\ Serves(h)
  /\ \E s \in {"any"} \cup Status, n \in {-1, 1} :
       seen' = [t \in Tasks |-> IF t \in Newest(s, n) THEN view[t].status ELSE seen[t]]
  /\ UNCHANGED <<db, created, clock, result, threads, process, claims, told>>

\* GET /tasks/{id}/result reads the file that result_path names.
GetResult(h, t) ==
  /\ Serves(h)
  /\ Known(t) /\ view[t].result_path
  /\ IF result[t] = "file" THEN UNCHANGED told ELSE Tell(t, "result_unreadable")
  /\ UNCHANGED <<db, created, clock, result, threads, process, claims, seen>>

\* DELETE /tasks/{id}: the check for 404 and 409 ...
CancelTask(h, t) ==
  /\ Serves(h) /\ Known(t)
  /\ view[t].status \in Cancellable
  /\ Call(h, "cancel", "none", t)
  /\ UNCHANGED <<db, created, clock, result, process, history>>

\* ... and queue.cancel, on the connection of the worker's claims; its row count is
\* the answer, and a false one says nothing of the task.
QueueCancel(h) ==
  /\ pc[h] = "cancel" /\ ~inTx
  /\ SetStatusWhere(task[h], Cancellable, "cancelled")
  /\ IF queue[task[h]].status \in Cancellable THEN Tell(task[h], "cancelled")
     ELSE UNCHANGED told
  /\ Leave(h, "idle")
  /\ UNCHANGED <<created, clock, result, process, claims, seen>>

\* Its UPDATE fails: HTTP 500, which tells the client nothing.
CancelRaises(h) ==
  /\ pc[h] = "cancel" /\ DiskFaults
  /\ Leave(h, "idle")
  /\ UNCHANGED <<db, created, clock, result, process, history>>

-----------------------------------------------------------------------------
(* The worker thread: Worker.run_forever and Worker._run_one *)

\* Seeded fault: a running task may be claimed.
ClaimableRunning == {t \in Tasks : queue[t].status \in Cancellable}

Claimable == {t \in Tasks : queue[t].status = "pending"}

\* queue.claim_next executes its UPDATE ... RETURNING, which changes the oldest
\* pending task and keeps its id to be fetched.  The API leaves every priority 0
\* and every scheduled_for NULL; module TaskQueue has them.
ClaimNext ==
  /\ pc[Worker] = "poll" /\ QueueOpen /\ ~inTx
  /\ \E t \in Claimable :
       /\ \A u \in Claimable : created[t] <= created[u]
       /\ queue' = [queue EXCEPT ![t].status = "running"]
       /\ Call(Worker, "fetch", "none", t)
  /\ UNCHANGED <<rows, view, inTx, created, clock, result, process, history>>

\* fetchone() runs the statement to its end, which commits it and whatever a handler
\* has changed meanwhile, and hands the task to the worker.
Fetch ==
  /\ pc[Worker] = "fetch" /\ QueueOpen
  /\ CommitQueue
  /\ starts' = [starts EXCEPT ![task[Worker]] = @ + 1]
  /\ life' = [life EXCEPT ![task[Worker]] = boots]
  /\ Goto(Worker, "load")
  /\ UNCHANGED <<created, clock, result, process, told, seen>>

\* claim_next returns None: wait for the poll interval and look again.
ClaimNothing ==
  /\ pc[Worker] = "poll" /\ QueueOpen /\ ~inTx
  /\ Claimable = {}
  /\ UNCHANGED vars

\* run_forever leaves its loop.
StopPolling ==
  /\ pc[Worker] = "poll" /\ phase # "up"
  /\ Leave(Worker, "stopped")
  /\ UNCHANGED <<db, created, clock, result, process, history>>

\* storage.get_task, then _patch_model for a task without a model.
LoadTask ==
  /\ pc[Worker] = "load" /\ StorageOpen
  /\ \/ Goto(Worker, "agent")
     \/ BlankModels /\ Call(Worker, "begin", "model", task[Worker])
  /\ UNCHANGED <<db, created, clock, result, process, history>>

\* A tool call of the agent makes result.md, or a directory of that name.
AgentWrites(f) ==
  /\ pc[Worker] = "agent" /\ result[task[Worker]] = "empty"
  /\ result' = [result EXCEPT ![task[Worker]] = f]
  /\ UNCHANGED <<db, created, clock, threads, process, history>>

\* agent.run ends with a text or an exception.
AgentEnds ==
  /\ pc[Worker] = "agent"
  /\ Goto(Worker, "persist") \/ Goto(Worker, "nack")
  /\ UNCHANGED <<db, created, clock, result, process, history>>

\* Seeded fault: the test for an existing result.md is inverted.
PersistResultInverted ==
  /\ pc[Worker] = "persist"
  /\ result' = [result EXCEPT ![task[Worker]] = IF @ = "empty" THEN @ ELSE "file"]
  /\ Call(Worker, "begin", "result_path", task[Worker])
  /\ UNCHANGED <<db, created, clock, process, history>>

\* Write result.md if nothing of that name exists, then storage.update_task.
PersistResult ==
  /\ pc[Worker] = "persist"
  /\ result' = [result EXCEPT ![task[Worker]] = IF @ = "empty" THEN "file" ELSE @]
  /\ Call(Worker, "begin", "result_path", task[Worker])
  /\ UNCHANGED <<db, created, clock, process, history>>

\* Seeded fault: ack without its guard on the status.
AckUnguarded ==
  /\ pc[Worker] = "ack" /\ QueueOpen /\ ~inTx
  /\ SetStatus(task[Worker], "done")
  /\ Leave(Worker, "poll")
  /\ UNCHANGED <<created, clock, result, process, history>>

\* Seeded fault: ack with its two parameters swapped.
AckSwapped ==
  /\ pc[Worker] = "ack" /\ QueueOpen /\ ~inTx
  /\ SetStatus(task[Worker], task[Worker])
  /\ Leave(Worker, "poll")
  /\ UNCHANGED <<created, clock, result, process, history>>

\* queue.ack and queue.nack: only a task that is still running changes.
Ack ==
  /\ pc[Worker] = "ack" /\ QueueOpen /\ ~inTx
  /\ SetStatusWhere(task[Worker], {"running"}, "done")
  /\ Leave(Worker, "poll")
  /\ UNCHANGED <<created, clock, result, process, history>>

\* Seeded fault: the return after nack is missing.
NackFallsThrough ==
  /\ pc[Worker] = "nack" /\ QueueOpen /\ ~inTx
  /\ SetStatusWhere(task[Worker], {"running"}, "failed")
  /\ Goto(Worker, "persist")
  /\ UNCHANGED <<created, clock, result, process, history>>

\* Seeded fault: nack's guard names the wrong state.
NackWrongGuard ==
  /\ pc[Worker] = "nack" /\ QueueOpen /\ ~inTx
  /\ SetStatusWhere(task[Worker], {"pending"}, "failed")
  /\ Leave(Worker, "poll")
  /\ UNCHANGED <<created, clock, result, process, history>>

Nack ==
  /\ pc[Worker] = "nack" /\ QueueOpen /\ ~inTx
  /\ SetStatusWhere(task[Worker], {"running"}, "failed")
  /\ Leave(Worker, "poll")
  /\ UNCHANGED <<created, clock, result, process, history>>

\* The connection is closed, and nothing in run_forever or _run_one catches it.
\* A claim that is still open is finalized with its cursor, which commits it.
WorkerRaises ==
  /\ \/ pc[Worker] \in {"poll", "fetch", "ack", "nack"} /\ ~QueueOpen
     \/ pc[Worker] = "load" /\ ~StorageOpen
  /\ CommitQueue
  /\ Leave(Worker, "dead")
  /\ UNCHANGED <<created, clock, result, process, history>>

\* The row cannot be read, or an UPDATE, its commit or result.md cannot be written:
\* nothing catches that either, and a claim that is not committed is rolled back.
WriteFails ==
  /\ DiskFaults
  /\ \/ pc[Worker] \in {"poll", "fetch", "load", "ack", "nack"}
     \/ pc[Worker] = "persist" /\ result[task[Worker]] = "empty"
  /\ queue' = rows
  /\ Leave(Worker, "dead")
  /\ UNCHANGED <<rows, view, inTx, created, clock, result, process, history>>

-----------------------------------------------------------------------------
(* The process: shutdown of the lifespan, crash, start *)

\* The server has answered its requests; worker.stop() does not join the thread.
StopWorker ==
  /\ phase = "up" /\ boots < MaxBoots
  /\ \A h \in Handlers : pc[h] = "idle"
  /\ phase' = "stopping"
  /\ UNCHANGED <<db, created, clock, result, threads, boots, history>>

\* Closing the queue's connection finalizes an open claim, or leaves that to its
\* cursor, as the version of Python has it.
CloseQueue ==
  /\ phase = "stopping"
  /\ phase' = "queue_closed"
  /\ CommitQueue \/ UNCHANGED db
  /\ UNCHANGED <<created, clock, result, threads, boots, history>>

\* Closing a connection rolls its open transaction back.
CloseStorage ==
  /\ phase = "queue_closed"
  /\ phase' = "closed"
  /\ view' = rows /\ inTx' = FALSE
  /\ UNCHANGED <<rows, queue, created, clock, result, threads, boots, history>>

\* The process exits after its shutdown, or crashes anywhere: all threads
\* end where they are, and an open transaction and an open claim are lost.
Die ==
  /\ phase # "down" /\ boots < MaxBoots
  /\ phase' = "down"
  /\ view' = rows /\ queue' = rows /\ inTx' = FALSE
  /\ pc' = [th \in Threads |-> "off"]
  /\ sql' = [th \in Threads |-> "none"]
  /\ task' = [th \in Threads |-> NoTask]
  /\ UNCHANGED <<rows, created, clock, result, boots, history>>

\* create_app on the existing file; init_db changes no row.
Boot ==
  /\ phase = "down"
  /\ phase' = "up" /\ boots' = boots + 1
  /\ pc' = [th \in Threads |-> IF th = Worker THEN "poll" ELSE "idle"]
  /\ UNCHANGED <<db, created, clock, result, sql, task, history>>

-----------------------------------------------------------------------------

TxStep(th) ==
  Begin(th) \/ BeginRaises(th) \/ Exec(th) \/ Commit(th) \/ TxRaises(th)

HandlerStep(h) == TxStep(h) \/ QueueCancel(h)

Request(h, t) ==
  CreateTask(h, t) \/ GetTask(h, t) \/ GetResult(h, t) \/ CancelTask(h, t)

WorkerStep ==
  \/ ClaimNext \/ Fetch \/ ClaimNothing \/ StopPolling \/ LoadTask
  \/ AgentEnds \/ PersistResult \/ Ack \/ Nack \/ WorkerRaises \/ TxStep(Worker)

ProcessStep == StopWorker \/ CloseQueue \/ CloseStorage \/ Die \/ Boot

Next ==
  \/ \E h \in Handlers : HandlerStep(h)
  \/ \E h \in Handlers, t \in Tasks : Request(h, t)
  \/ \E h \in Handlers : ListTasks(h) \/ CancelRaises(h)
  \/ \E f \in {"file", "dir"} : AgentWrites(f)
  \/ WorkerStep \/ WriteFails
  \/ ProcessStep

Spec == Init /\ [][Next]_vars

\* Every thread of a live process is scheduled, the agent's run ends (the
\* step cap bounds it, the provider and the tools answer or time out), and a
\* process that went down is started again.  Nobody has to send requests, and
\* no write has to fail.
Fairness ==
  /\ \A h \in Handlers : WF_vars(HandlerStep(h))
  /\ WF_vars(WorkerStep)
  /\ WF_vars(Boot)

FairSpec == Spec /\ Fairness

-----------------------------------------------------------------------------
(* Properties *)

Inside(th) == pc[th] \in {"exec", "commit"}

\* SQLiteStorage._tx on a connection all threads share: at most one thread is
\* between its BEGIN and its COMMIT, and the connection's transaction is open
\* exactly while one is.  No error path leaves it open or closes another's.
TxExclusive ==
  /\ \A a, b \in Threads : Inside(a) /\ Inside(b) => a = b
  /\ inTx => \E th \in Threads : Inside(th)
  /\ StorageOpen => \A th \in Threads : Inside(th) => inTx

\* POST /tasks is all or nothing for its client: a task answered with 201 is
\* committed and survives crashes, and one answered with 500 is never seen.
CreateAnswered ==
  \A t \in Tasks :
    /\ "created" \in told[t] => rows[t].status # "absent"
    /\ "create_failed" \in told[t] => rows[t].status = "absent" /\ view[t].status = "absent"

\* DELETE answered {"cancelled": true}, although the worker goes on with the task and
\* acks or nacks it later: the cancellation stands, and is committed or will be with
\* the claim that was open when it came.  One thing takes it back, an end of the
\* process or of the worker's thread while that claim is not committed.
CancelledStays ==
  [][\A t \in Tasks : "cancelled" \in told'[t] =>
       \/ queue'[t].status = "cancelled"
       \/ "cancelled" \in told[t] /\ queue[t].status # "cancelled"
       \/ /\ ClaimOpen /\ rows[t].status # "cancelled"
          /\ pc[Worker] = "fetch" /\ pc'[Worker] \in {"dead", "off"}]_vars

\* No task is handed to the worker twice, across cancellations and restarts:
\* the agent's side effects happen at most once.
AtMostOnce == \A t \in Tasks : starts[t] <= 1

\* A result_path that any reader can get hold of names something that is on
\* disk, uncommitted reads and crashes included, and every done task has one.
\* GET result fails for one reason only: the agent made a directory of that name.
ResultOnDisk ==
  \A t \in Tasks :
    /\ view[t].result_path => result[t] \in {"file", "dir"}
    /\ rows[t].status = "done" => rows[t].result_path
    /\ "result_unreadable" \in told[t] => result[t] = "dir"

\* The worker's code has the task's id.
Working == task[Worker] # NoTask /\ pc[Worker] # "fetch"

\* The worker only works on a task it has claimed and not yet settled; what can
\* happen to the row meanwhile is a cancellation.
WorkerHoldsClaim ==
  Working => /\ rows[task[Worker]].status \in {"running", "cancelled"}
             /\ starts[task[Worker]] = 1

\* A running task that no thread works on is the mark of a worker thread or a
\* process that died, now or in the life in which it was claimed; the code leaves
\* none behind in any other way.
StrandedOnlyByDeath ==
  \A t \in Tasks : rows[t].status = "running" =>
    task[Worker] = t \/ pc[Worker] \in {"dead", "off"} \/ life[t] < boots

\* The daemon implements the promise of TaskLifecycle for each task, with commits as
\* its steps: one commit may carry a claim and cancellations of other tasks.
Lifecycle(t) == INSTANCE TaskLifecycle WITH
  Tasks     <- {t},
  status    <- [u \in {t} |-> rows[u].status],
  published <- {u \in {t} : rows[u].result_path}

ImplementsLifecycle ==
  /\ \A t \in Tasks : Lifecycle(t)!Init
  /\ [][\A t \in Tasks : [Lifecycle(t)!Next]_<<rows[t].status, rows[t].result_path>>]_vars

\* What a status read may show after an earlier one.
MayFollow(s) ==
  CASE s = "unseen"  -> Status
    [] s = "pending" -> Status
    [] s = "running" -> Status \ {"pending"}
    [] OTHER         -> {s}

\* GET never takes back what it showed: statuses only move forward, a finished
\* task keeps its state, and a task that was answered with 201 never turns into
\* a 404, whatever is rolled back or crashes between two reads.  One that another
\* thread has inserted and not yet committed may be shown, and be gone again.
ReadsMonotone ==
  [][\A t \in Tasks :
       \/ seen'[t] \in {seen[t]} \cup MayFollow(seen[t])
       \/ seen'[t] = "absent" /\ "created" \notin told[t]]_seen

Alive == phase = "up" /\ pc[Worker] \notin {"dead", "stopped"}

\* A task that waits in the queue, from an earlier life of the process perhaps, and
\* a task at the worker's hands are settled, as long as the worker thread lives.
Settles ==
  \A t \in Tasks : rows[t].status = "pending" \/ task[Worker] = t ~>
    rows[t].status \in Terminal \/ ~Alive

\* Whatever fails inside a transaction or between the two calls of a claim, the write
\* lock is given back: no statement waits for ever.
LockReleased == (inTx ~> ~inTx) /\ (ClaimOpen ~> ~ClaimOpen)

\* Worker._run_one "Catches all exceptions and nacks on failure."
WorkerSurvives == phase = "up" => pc[Worker] # "dead"

\* "Tasks survive crashes": a task that was claimed is settled some day.
TasksSurviveCrashes ==
  \A t \in Tasks : rows[t].status = "running" ~> rows[t].status \in Terminal

=============================================================================
