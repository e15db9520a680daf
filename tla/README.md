# TLA+ models of yakyoke

yakyoke is a local agent daemon: clients submit tasks over HTTP, a worker
thread runs an LLM agent with a handful of tools on each, and a SQLite file
holds the tasks. This directory models the parts of it whose correctness
depends on order: what handler threads, workers, the command-line client,
crashes and the model's replies may do in between one another.

Run everything here with TLC and `tlapm`, for instance

    tlc -workers 2 -config daemon_safety.cfg MCDaemon
    tlapm DaemonProofs.tla
    tlapm DaemonLifeProofs.tla
    tlapm TaskQueueProofs.tla
    tlapm ClientProofs.tla
    tlapm WorkspaceProofs.tla
    tlapm FileToolsProofs.tla
    tlapm AgentLoopProofs.tla
    tlapm TaskRunProofs.tla

## Inventory

| Component | State | Operations | Interacts through |
|---|---|---|---|
| Task model (`models.py`) | a task's status and fields | construct, to/from row | the `tasks` table |
| Storage (`storage.py`) | one connection, used by every thread; the transaction open on it | `create_task`, `update_task` (in `_tx`), `get_task`, `list_tasks`, `close` | the table; SQLite's write lock |
| Queue (`queue.py`) | a second connection, autocommit | `claim_next`, `ack`, `nack`, `cancel`, `close` | the same table |
| Worker (`worker.py`) | one thread and the task it holds | `run_forever`, `_run_one`, `_patch_model`, `stop` | queue, storage, the workspace, the agent |
| HTTP daemon (`daemon.py`) | a pool of handler threads, process start and end | POST, GET, list, result, trace, DELETE; `lifespan` | queue, storage, workspace |
| Agent loop (`agent.py`) | conversation, seen call signatures, step, trace file | `run`, `_dispatch_tool`, `TraceLogger` | LLM client, registry, tools |
| Tool registry (`tools/registry.py`) | names to tools, fixed after startup | `register`, `filtered`, `get` | agent loop |
| Filesystem tools (`tools/filesystem.py`) | the files of a workspace | write, read, list | workspace, shared with trace and result |
| Web tools, LLM client | none (network) | search, fetch, complete | agent loop |
| Command-line client (`cli.py`) | a process of its own: what it read last, its deadline | `run` (POST, poll, report, fetch), `cancel`, and commands of one request | HTTP, the environment |
| Configuration (`config.py`) | the environment of each process | `from_env` | read once by the daemon; the client reads its token itself |
| Memory (`memory.py`) | none | no-ops | agent loop |

What is hard, and what makes each part correct:

* **Storage and queue.** All threads share two connections and no lock. A write
  is three statements; another thread's statement on the same connection may
  come between them, and `BEGIN` inside somebody else's transaction raises.
  Correct means: no error path ends or leaves open a transaction that is not
  its own, and answers given to clients stay true.
* **Worker.** A claim, an agent run, a file, a row and an ack are separate
  steps; cancellation, crash, shutdown and failing writes may come between any
  two. Correct means: no task is run twice, none is settled against its
  cancellation, a published result exists, and nothing is left running by a
  live worker.
* **Several workers.** A claim is three moments: the time is read, the statement
  runs, its row is fetched; and only the last one commits it. Correct means: no
  two workers get one task, no crash hands out again what somebody works on,
  older and more urgent tasks come first, and every due task is settled.
* **Client.** It sees the task through polls and may lose any reply. Correct
  means: what it says of the task's end is so and stays so, it says so in time,
  and it comes to an end whatever the daemon does.
* **Agent loop.** The model may reply anything. Correct means: the conversation
  stays well-formed, no tool runs twice on the same arguments, the step cap
  holds, the trace tells what happened, and the run ends.
* **Filesystem tools.** Correct means: nothing outside the workspace is written
  or shown, and writes keep the tree a tree.

`PROJECT.json` lists every hazard at its line, with the property about it.

## Modules

| Module | Models | Role |
|---|---|---|
| `Models` | `models.py` status sets | shared definitions |
| `TaskLifecycle` | what a client may rely on about one task | abstract specification |
| `Daemon` | `daemon.py`, `storage.py`, `queue.py`, `worker.py` | refines `TaskLifecycle` |
| `TaskQueue` | `queue.py` call by call, several workers and processes | refines `TaskLifecycle` |
| `Client` | `cli.py` `run` and `cancel`, `require_auth`, the tokens of `config.py` | an instance of `TaskLifecycle` is its server |
| `Workspace` | `tools/filesystem.py` over a file tree: paths, and what each tool does and returns | component |
| `FileTools` | the tools called at will, with any path and text, in any file system; extends `Workspace` | component |
| `AgentRun` | what the worker relies on when it calls the agent | abstract specification |
| `AgentLoop` | `agent.py`, `registry.py`, outcomes of `web.py` and `llm.py`; extends `Workspace` | refines `AgentRun` |
| `TaskRun` | `worker.py` around the agent's run; extends `AgentLoop` | composition |
| `DaemonProofs`, `DaemonLifeProofs`, `TaskQueueProofs`, `ClientProofs` | theorems about `Daemon`, `TaskQueue` and `Client` | TLAPS |
| `WorkspaceProofs` | lemmas about the operators of `Workspace` | TLAPS |
| `FileToolsProofs`, `AgentLoopProofs`, `TaskRunProofs` | theorems about `FileTools`, `AgentLoop` and `TaskRun` | TLAPS |
| `MC*` | instances | TLC |

Two seams hold the parts together. `TaskLifecycle` is what a client may rely on:
`Daemon` and `TaskQueue` implement it, `Client` runs against it. `AgentRun` is
what the worker relies on: its `Write` and `End` are `Daemon`'s `AgentWrites`
and `AgentEnds`, and `AgentLoop` implements it, so the daemon is checked against
every agent run and not against one script. `TaskRun` then puts the worker and
the loop on one file tree, where they can disturb each other.

### Daemon

`rows` is the committed table, `view` and `queue` the table as the storage
connection and the queue's connection see it, `inTx` whether a transaction is open
on the former. Each thread has a place (`pc`), the storage write it is making
(`sql`) and the task it is about.
A queue statement is one step (`SetStatus`); it waits for the write lock, hence
its guard `~inTx`. A claim is two: `ClaimNext` is its `execute` and `Fetch` its
`fetchone`. In between (`ClaimOpen`) the queue's connection has the lock and a
change that is not committed, and what a handler does on it by then, `QueueCancel`,
is committed with the claim or lost with it. `WorkerRaises` and `CloseQueue` say what
becomes of an open claim when the connection is closed under it: finalizing its
statement commits it, which happens with the connection (Python up to 3.10) or with
the cursor (later versions). `CancelledStays` names the one way in which an answered
cancel is taken back; `cancel_durable` shows it against the README's sentence.
`Begin`, `Exec` and `Commit` are the three statements of `_tx`; `BeginRaises`
is the failing `BEGIN` (outside the `try`, so no rollback), `TxRaises` the
path through `ROLLBACK`. Handlers: `CreateTask`, `GetTask`, `ListTasks` (with
its filter and its limit), `GetResult`, `CancelTask` followed by `QueueCancel`.
Worker: `ClaimNext` ... `Ack`/`Nack` in the order of `_run_one`, and
`WorkerRaises` and `WriteFails` for the places where a closed connection, the
disk or the busy timeout ends the thread. Process: `StopWorker`, `CloseQueue`,
`CloseStorage` are the lines of `lifespan`'s shutdown, `Die` is a crash or the
exit, `Boot` a new start on the same file. `starts`, `life`, `told` and `seen` are
history: how often and in which life of the process a task was handed to the worker,
answers to clients, and the status a client last read.

SQLite is assumed to run one statement at a time per connection (its default
serialised mode, which `check_same_thread=False` relies on), and to roll an open
transaction back when its connection goes away. `DiskFaults` makes any
statement or file write raise and have no effect, but for an open claim whose commit
fails, which is rolled back with what it carries; a statement that has waited
30 s for the write lock fails in the same way and is counted among them.

### TaskQueue

One step per call of `queue.py` that another user can come between. A claim is
`ReadNow` (`datetime.now` before the statement), `Claim` or `ClaimNothing`
(`execute`) and `Fetch` (`fetchone`); `Settle` is `ack` and `nack` after their
own reading of the clock (`ReadEnd`, or `AgentEnds` for a failure); `ReadCancel`
and `Cancel` are the handler's. `Construct` and `Insert` are a submission, whose
`created_at` is set when the `Task` is constructed.

`rows` is what is committed and `view` what the connection that holds the write
`lock` sees. Python's `sqlite3` steps an `UPDATE ... RETURNING` to its first row
in `execute` and to its end in `fetchone`, and SQLite autocommits when no write
statement of the connection is open any more. So between `Claim` and `Fetch` the
connection holds the lock, the other connections wait (`CanWrite`), and what
other threads do on the same connection shares the fate of the claim
(`Finished`). `ConnOf` says who shares a connection: in the run the daemon's
worker and its handler do, and a second worker is a process of its own. A crash
ends one process and takes back what its connection had not committed.

### Client

`status` and `published` are the server's, moved by the actions of
`TaskLifecycle`; `request` and `reply` are the one request `run` has under way.
A handler may answer, fail, or be late; a reply to a request that was given up
goes nowhere, and a request may be handled after its sender has given up.
`RequestFails` is any error of `httpx` and any status that
`raise_for_status` refuses. Time is discrete: the client's own steps take none, the
sleep takes `Poll`. A request has no limit as a whole: `httpx.Client(timeout=30.0)`
limits each of its operations, getting a connection, writing, and every read of a part
of the reply. `heard` is when the request last got on; time may pass until `HttpTimeout`
after it (`Tick`), and whenever it gets on again (`Proceeds`) the count starts anew.
`sent` and `ended` are when the last request was sent and done with. `Environments` are the
values of `YAKYOKE_API_TOKEN`, as words and blanks, which daemon and client get
independently. `canceller` is somebody's `yakyoke cancel` of the same task.

### Workspace, FileTools, AgentLoop and TaskRun

The file tree maps each existing location to a directory mark or a file's
lines. Paths are resolved as `Path.resolve` does, `..` included; no tool makes
a symbolic link, so the tree has none. `FileTools` is the sandbox by itself: any
world in `Worlds` (a tree that has the workspace), any path, any number of writes.
What a read shows is compared with the same read in `Bare`, the workspace beside
nothing at all. `AgentLoop` puts the trace file in the
same tree, because the tools can reach it. A model reply is any sequence of up
to `MaxCalls` of the calls in `Calls`, or text, or an exception. `TaskRun` adds
the row, the client and the worker's statements before and after the run, with
the agent's step as one of the worker's, and a crash between any two.

Definitions commented *Seeded fault* are plausible bugs. No specification uses
them; each shows, put in the place of the definition below it, that a property
would notice (`PROJECT.json`, "mutants").

## Runs

| Run | Bounds | Shows |
|---|---|---|
| `daemon_safety` | 2 tasks, 2 handlers, the worker, 2 boots, faults, blank models; 740,629 states | `TxExclusive`, `CreateAnswered`, `CancelledStays`, `AtMostOnce`, `ResultOnDisk`, `WorkerHoldsClaim`, `StrandedOnlyByDeath`, `ReadsMonotone`, and `Daemon` implements `TaskLifecycle` |
| `daemon_liveness` | 2 tasks, 1 handler, 2 boots, faults; 493,252 states | `Settles`, `LockReleased` |
| `task_queue` | 2 tasks, one due at clock 2, the daemon (worker and handler) and a worker process, clock to 2, 1 crash; 204,314 states | `ClaimedOnce`, `WorkIsCommitted`, `TimesOrdered`, `NoOvertaking`, `AllSettled`, and `TaskQueue` implements `TaskLifecycle` |
| `client` | 4 environments for each process, timeout 3, poll 1, operation timeout 1, requests of up to 2 operations, 12 time units; 1,565,805 states | `ReportsTruth`, `WaitBounded`, `TimelyIsReported`, `CancelTold`, `RefusedByRight`, `RunEnds` |
| `workspace` | 2 names, up to 2 steps up, absolute paths, a sibling `t10` of `t1`; 676 states | `TreeWellFormed`, `SeesOnlyItsOwn`, `OutsideUntouched`, `NothingVanishes` |
| `agent_loop` | 10 calls, 2 per reply, caps -1 and 2, three allowlists; 122,038 states | `MessagesPaired`, `DispatchedOnce`, `StepCapHolds`, `TraceTellsAll`, `Terminates`, and `AgentLoop` implements `AgentRun` |
| `task_run` | 5 calls that meet at `result.md` or at the trace, 2 per reply, caps 1 and 3; 557,554 states | `ResultIsTheRuns`, `OneResult`, `RowAgreesWithRun`, `TaskSettles` |

*Daemon.* Two handlers and the worker are three users of one connection: one
inside its transaction, one refused, one reading. A second task lets a
transaction on one meet a queue statement on the other and gives `claim_next` a
choice. Two boots give a crash or a shutdown at every step and all of a second
life on what it left. Tasks and handlers are interchangeable, so the safety run
uses their permutations; the liveness run does not.

*TaskQueue.* The three users are the least with a connection that two share and
one that competes with it. The two tasks have one priority, so that their age
decides; the second is not due at first, so that a worker may look too early.
Clock values 0 to 2 give each order of construction, reading and schedule. All
priorities and schedules are the theorem's matter (`ClaimsInOrder`).

*Client.* The timeout is three sleeps or one and a half of the longest requests, so the
deadline falls within a poll, a sleep or between them. A request that gets on once
(`MaxParts` 1) lasts up to twice `HttpTimeout`, so that a bound which counts one
timeout per request would fail; 12 units outlast every run. The
four environments are a blank one, a token with and without blanks, another token.

*AgentLoop, TaskRun.* Two replies of two calls repeat a call within a reply and
across replies, and end the run on the cap; three replies give a write, its
replacement and a repetition, the last one intercepted.

The agent's and the client's runs come to an end, so they do not check for
deadlock; the daemon's and the queue's do.

Runs that find a violation. Each checks one sentence of the repository that the
code does not keep:

| Run | Sentence | What happens |
|---|---|---|
| `worker_survives` | `worker.py:72` "Catches all exceptions and nacks on failure." | a POST in progress makes the worker's `BEGIN` raise outside the `try`; the only worker thread ends |
| `crash_survival` | `README.md:17` "Tasks survive crashes." | a running task is never claimed again |
| `cancel_durable` | `README.md:17` "State survives daemon restarts." | a cancel between a claim's `execute` and `fetchone` is answered true before it is committed; a crash takes it back and the task runs |
| `dedup_of_failures` | `agent.py:140` "Track every successful tool call signature" | failed calls are tracked too |
| `allowlist` | `models.py:61` "Allowlist of tool names this task can call." | only what is offered is filtered, not what is run |

Smaller disagreements of words and code have no run; the properties are stated
so as to allow for them, each where it says so:

* `storage.py:117-119`: a GET may read a row that is not committed yet, since it
  shares the connection. `ReadsMonotone` says what remains true of reads.
* `worker.py:91`: a directory `result.md` counts as a result written by the
  agent, is published, and GET result then fails. `ResultOnDisk` and
  `ResultIsTheRuns` name the case.
* `agent.py:191` "it succeeded. The work is done.": a repeated write is
  intercepted although another write has replaced the file since.
  `ResultIsTheRuns` therefore speaks of the writes that were made.
* `agent.py:69` "Append-only": `filesystem_write` may replace `trace.jsonl`;
  `TraceTellsAll` speaks of a trace that no tool has written to (`Intact`).
* `cli.py:195`: a failing request for the result is passed over and `run` still
  says done; `ReportsTruth` only speaks of results that are printed.
* `queue.py:7`, the atomic claim: two workers on one `SQLiteQueue` object would
  share an uncommitted claim, and a crash could hand the task out again. The daemon
  starts one worker, so no run has it; the theorem's assumption `OwnQueues` says
  what a second worker needs.

## Fairness

`Daemon`: weak fairness for each handler thread, the worker thread and the
restart. The operating system schedules threads; an agent run ends because
`AgentLoop` shows that the step cap bounds it and the provider's and the tools'
clients have timeouts; a process that went down is started again, which is the
case in which surviving a crash means anything. No request is assumed ever to
be sent and no write to fail (`CancelRaises`, `WriteFails` are not under fairness),
so no property holds because a fault came to its help. Weak fairness is enough for the
worker although handlers take the write lock again and again, because each
submission takes it once and a task id is submitted once. `Settles` is about a
pending task, also one of an earlier life, or one in the worker's hands, and about
a live worker: that the thread can end is what `worker_survives` is about, and
what a dead process leaves running what `crash_survival` is about.
`AgentLoop`: weak fairness of its next step, the same assumption.

`TaskQueue`: weak fairness of each worker, which is Python's and the operating
system's scheduling, the agent's end and SQLite's letting a waiting connection
have a lock that is free (its busy handler retries); a cancel that has reached
the queue is carried out. The clock need not move and nobody need submit or
cancel. `AllSettled` leaves out a task that a crash found running. Weak fairness
is enough in the presence of the lock because few steps compete for it: two
tasks and one clock bound the claims and cancels that keep it busy. `Client`:
weak fairness of the client's own step and of time; the daemon and the network
need do nothing. `RunEnds` holds as far as a request gets on a limited number of times
(`MaxParts`): a daemon that sends a byte now and then, for ever, keeps `run` waiting for
ever, since nothing limits a request as a whole. `TaskRun`: weak fairness of the worker's thread, as in `Daemon`.

## Theorems

`DaemonProofs` proves, for every set of tasks, every set of handler threads,
any number of boots, with and without faults:

* `TypeCorrect`: `Spec => [](TypeOK /\ Placed)`. `TypeOK` alone is not
  inductive: `Written` makes a row only for the statements it knows, so the
  invariant needs `Placed`, what a thread holds at each place.
* `TransactionsExclude`: `Spec => []TxExclusive`. Inductive with `TypeOK /\
  Placed`. Steps outside `_tx` move no thread into or out of a transaction
  (`OutsideTx`); the five steps of `_tx` and the end of a process are taken
  one by one. A refused `BEGIN` keeps it only because it is outside the `try`.
* `CancelsStand` and `CreatesStand`: `Spec => CancelledStays` and
  `Spec => []CreateAnswered`. The strengthening `Inv` has `QueueInv` (the queue's connection sees the committed
  table unless a claim is open, and no storage transaction is open while one is),
  `Snapshot` (the storage
  connection sees the committed table plus the one write of the thread about to
  commit, and that write changes no status but that of a row being inserted) and
  `Fresh` (a task being inserted is in nobody else's hands and nobody was answered
  about it). `AnswersOutside` treats all steps outside `_tx` at once, by what they
  may do: move the status of a pending or running task while no transaction is
  open, and answer only what the table bears out.

The only assumption is `DaemonAssumption` on the constants: the worker is not a
handler, `NoTask` is not a task, at least one boot. The parts of the invariants
were model-checked on the bounds of `daemon_safety` before they were proved.

`DaemonLifeProofs` goes on from there, for the same constants. Its invariant
`LifeInv` adds to `Inv` four parts: `Fetching` (a claim that waits for its fetch is
of a task that was not handed out, running or cancelled as its connection sees it),
`Hands` (the worker's task is running or cancelled, was claimed once, and has its
result named exactly when the worker comes to `ack`), `Waits` (a waiting task is
unclaimed and has no result, a done one has one) and `Files` (a named result is on
disk, and the open transaction changes no other `result_path`).

* `ClaimedOnceOnly`, `WorkerKeepsClaim` and `OnlyDeathStrands`: `AtMostOnce`,
  `WorkerHoldsClaim` and `StrandedOnlyByDeath` always hold. The worker alone moves a
  row out of `running` except for a cancel, and it never moves one back.
* `ResultsExist`: `Spec => []ResultOnDisk`.
* `DaemonImplements`: `Spec => ImplementsLifecycle`, the refinement, task by task: under
  `LifeInv` each step moves a row along the life of `TaskLifecycle` or not at all. The
  commit of a claim may carry cancels of other tasks, hence one instance for each task.
* `ReadsGoForward`: `Spec => ReadsMonotone`. The refinement gives that a committed
  row only moves forward (`RowsMoveOn`). What is left are dirty reads: `SeenOfRows`
  says that a client's last read is what the row is or has gone on from, that a row
  whose insert has not been executed was seen by nobody, and that a row that was
  seen and then gone is never inserted again. The last part holds because no task
  id is used twice (`result[t] = "none"` in `CreateTask`).

`TaskQueueProofs` proves, for every number of tasks, workers, handlers,
connections and crashes, and from `QueueAssumption` (workers are not handlers,
every user has a connection, priorities are integers and times naturals):

* `TypeCorrect`: `Spec => []TypeOK`, from `Shape`, the types with what a worker
  or handler holds at each place.
* `ClaimsExclude` and `WorkStandsOnDisk`: `Spec => []ClaimedOnce` and
  `Spec => []WorkIsCommitted` if no two workers share a connection (`OwnQueues`);
  handlers may share a worker's. The
  strengthening has three parts. `Locked`: a lock between two calls belongs to a
  worker with a row to fetch, and without a lock nothing is uncommitted. `Held`:
  what a worker holds is running or cancelled and its alone. `Handed`: a task
  that was handed out is never pending again, in the view or on disk, and one
  that waits to be fetched was not handed out. The first makes every write of a
  worker a commit (`FreeToWrite`); a cancel may still be put off by the fetch of
  the worker it shares the connection with, and a crash takes back a claim only
  before it was handed out. Without `OwnQueues` the invariant fails: a worker's
  write would be put off by its neighbour's open fetch.
* `ClaimsInOrder`: `Spec => NoOvertaking`, for all priorities and schedules and
  all ways of sharing connections. The invariant `Ages` says that a row has a
  `created_at`, and that tasks answered before another was constructed are older;
  the claim's `ORDER BY` does the rest. It needs no claim on who holds the lock.
* `TimesInOrder`: `Spec => []TimesOrdered` under `OwnQueues`. The invariant
  `Ordered` follows each time from the clock to the row: what a worker has read is
  no later than the clock, what it writes is what it has read, and a row is due when
  its start is read; both the view and the committed table keep the order, so a
  crash may take either back.
* `QueueImplements`: `Spec => ImplementsLifecycle` under `OwnQueues`, task by task.
  `Published` says when a task's result is named, and `Commit` what a commit may
  bring to a row: a claim, a cancellation, or one after the other. A claim and its
  cancellation in one commit show as one move of the row, from pending to cancelled.

`ClientProofs` proves, for every timeout, poll interval and operation timeout (the
last two positive), requests of any length, all environments and any amount of time:

* `ReportsStand` and `CancelsAgree`: `Spec => []ReportsTruth` and `[]CancelTold`.
* `WaitsInTime` and `TimelyIsTold`: `Spec => []WaitBounded` and `[]TimelyIsReported`.
  Both are about `Span`, the time that the last poll took: nothing in the code bounds
  it, so nothing bounds the wait but what the daemon makes of its polls.
* `RefusedRightly`: `Spec => []RefusedByRight`.

The invariant of the first four has, beside types and places, `Heard` (a status on
its way to the client is the row's, or is no end and the row ended after the request
was sent), `Timed` (how far the clock can be at each place, and that the last poll was sent
before the deadline, and before the task ended: `PolledInTime`) and `Told` (what the canceller was
told is so). A step of the server is treated once, by what it may do to the row
(`Advance`). `RefusedRightly` adds that a run with the wrong token never gets past
its `POST`; it needs no fact about `strip` but that both sides apply it.

`WorkspaceProofs` has the lemmas that the last three modules rest on: a path of any
length leads to a location (`ResolveLeadsToLocation`), and a write keeps the tree a
tree, the workspace in it, all that exists, and everything outside (`WriteKeeps`).
`Resolve` folds over the path's components; since an induction theorem cannot be
instantiated here, its lemma takes the least component at which the claim would fail
(`Least`, `UpTo`).

`FileToolsProofs` proves, for every workspace, world, set of paths and texts that
`ToolsAssumption` allows (paths are names, a text is no directory, a world is a tree
that has the workspace): `TreeStaysATree`, `SandboxHolds`, `NothingIsLost` and
`ReadsOnlyItsOwn`, all from "the tree is tidy and has the workspace".

`AgentLoopProofs` proves, for every registry, set of calls, allowlists, integer caps
and replies of any length up to any `MaxCalls`:

* `TypesHold`, `ConversationPaired`, `NoCallTwice`, `StepsAreCapped`, `TraceKeepsUp`:
  `TypeOK`, `MessagesPaired`, `DispatchedOnce`, `StepCapHolds` and `TraceTellsAll`
  always hold. None is inductive: each speaks of a moment (the provider is asked, the
  trace is intact, the run gave up), and the invariant says what is so in between.
  `Paired`: the calls that are left are the last ones of the last reply, and all
  others have their message. `Remembered`: what ran is in `seen`. `Counted` and
  `ErrorIsLast`: each step is one reply, but for one that raised, and the error line
  is written once, at the cap. `TraceTells`: line by line, the trace is the
  conversation, or some line of it was overwritten by a tool.
* `AgentKeepsTree`, `AgentStaysInside`: a run with its trace keeps the tree a tree
  and leaves everything outside the workspace alone.
* `LoopImplementsRun`: `Spec => ImplementsAgentRun`, the refinement that `Daemon`
  relies on.

`TaskRunProofs` proves for the same constants `PublishesTheRuns`, `ShowsOneResult` and
`RowTellsTheRun`: `ResultIsTheRuns`, `OneResult` and `RowAgreesWithRun` always hold of
`TaskSpec`. To the invariant of the loop it adds `LoopResult` (result.md is what the
last successful write to it said, or is not there), where the worker is with respect
to the run and the row (`Phases`), and that a shown result is the published one, which
nothing changes any more.

`AgentAssumption` says of the constants what the code has: calls with a name and
arguments, caps that are integers, a directory mark that is no file. Its last part,
that two file names are strings, is a fact which `tlapm` does not know.

Only model-checked: liveness, which is out of the prover's reach (`Settles`,
`LockReleased`, `AllSettled`, `RunEnds`, `Terminates`, `TaskSettles`). What the runs
expect to be violated is no theorem, and each safety property of a passing run is one.

## Not modelled

* Prompt, model name, error text, the reserved columns, `record_tool_call` (no
  caller), and the text of results and messages: data no property tells apart.
  `started_at` and `completed_at` are in `TaskQueue` only.
* The commands `status`, `list`, `trace`, `result`, `health`, `token` and
  `daemon`: one request or none, whose answer is printed. `/health` and `/trace`
  change no state. `--poll 0` or less makes the wait a busy loop and is left out.
* A wall clock that is set back: times in `TaskQueue` come from one clock that
  does not run backwards, times in `Client` from `time.monotonic`.
* The other variables of `config.py`, the values of the LLM's and the web tools'
  network calls (their outcomes are in `AgentLoop`), and memory, a no-op.
* The return of `_run_one` for a task that has vanished (`worker.py:74`): no row is
  ever deleted.
* A tool call's effect, its line in the trace and its message are one step of
  `AgentLoop` (a crash after the effect and before the line leaves a trace without that
  call), and a `write_text` that raises after it has truncated its file is left out.
* In `Client` the daemon does not restart, and a DELETE's answer and its commit are one
  step: `CancelTold` is about a daemon that keeps running. What a crash does to an
  answered cancel is the matter of `CancelledStays` and `cancel_durable`.
* Loss of commits by a power failure (`synchronous=NORMAL`): a crash here is the
  end of a process, which loses no commit. File encodings and size limits.

## Plan

1. Done: the modules, runs and theorems described above. Each invariant and action
   property of a passing run is a theorem, and so are the three refinements.
2. Next: theorems about `TaskLifecycle` itself (that a task ends once and that a done
   one has a result), which `Daemon` and `TaskQueue` then have by refinement; and that
   `Client`'s server steps and `TaskRun`'s row are steps of it as well.
