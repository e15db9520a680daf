------------------------------- MODULE Client -------------------------------
(***************************************************************************)
(* "yakyoke run" (cli.py), a process of its own: POST the task, poll its   *)
(* status until it is finished or the wait is over, print how it ended and *)
(* its result.  Meanwhile somebody may "yakyoke cancel" the same task.     *)
(*                                                                         *)
(* The daemon is what TaskLifecycle promises, behind require_auth, plus    *)
(* the ways a request fails: an error status, a request or a reply that is *)
(* lost, or handled after the client has given up.                         *)
(*                                                                         *)
(* Time is discrete.  The client's own steps take none: Tick waits for     *)
(* them.  A request may take long, for httpx limits each of its operations *)
(* by itself, getting a connection, writing, and every read of a part of   *)
(* the reply: it has failed when nothing moves for HttpTimeout.            *)
(***************************************************************************)
EXTENDS Models, Integers, Sequences

CONSTANTS
  Task,          \* the task that this run's POST creates
  Environments,  \* values of YAKYOKE_API_TOKEN: sequences of words and blanks
  Timeout,       \* --timeout
  Poll,          \* --poll
  HttpTimeout,   \* httpx's timeout for each operation of a request, 30 s
  MaxParts,      \* bound: how often a request gets on and is not done yet
  MaxNow         \* bound: the time that passes

ASSUME ClientAssumption ==
  /\ Timeout \in Nat /\ Poll \in Nat \ {0} /\ HttpTimeout \in Nat \ {0}
  /\ MaxParts \in Nat /\ MaxNow \in Nat

VARIABLES
  status, published,        \* the tasks table, as TaskLifecycle has it
  daemonEnv, clientEnv,     \* YAKYOKE_API_TOKEN in each process's environment
  pc,                       \* where the run is
  now,                      \* time.monotonic()
  deadline, wake,           \* until when it waits, and sleeps
  request, reply,           \* its request and what came back
  sent, heard, parts,       \* when it was sent, when and how often it got on
  ended,                    \* history: when its last request was done with
  read,                     \* task["status"] and task["result_path"] as read last
  outcome,                  \* what the run told its user
  printed,                  \* has it printed the result
  canceller,                \* the other user's "yakyoke cancel"
  began, finishedAt         \* history: when the 201 came, and when the task was finished

server  == <<status, published>>
options == <<daemonEnv, clientEnv>>
timers  == <<deadline, wake>>
times   == <<sent, heard, parts, ended>>
wire    == <<request, reply, times>>
output  == <<read, outcome, printed>>
history == <<began, finishedAt>>
vars == <<server, options, pc, now, timers, wire, output, canceller, history>>

Server == INSTANCE TaskLifecycle WITH Tasks <- {Task}

Waiting == pc \in {"posting", "asking", "fetching", "tracing"}

Nothing == "nothing"
NoReply == [code |-> 0]

Init ==
  /\ Server!Init
  /\ daemonEnv \in Environments /\ clientEnv \in Environments
  /\ pc = "start" /\ now = 0 /\ deadline = 0 /\ wake = 0
  /\ sent = 0 /\ heard = 0 /\ parts = 0 /\ ended = 0
  /\ request = Nothing /\ reply = NoReply
  /\ read = [status |-> "absent", result_path |-> FALSE]
  /\ outcome = "none" /\ printed = FALSE
  /\ canceller = "idle" /\ began = 0 /\ finishedAt = 0

-----------------------------------------------------------------------------
(* Authentication *)

\* str.strip; a token has no blank in its middle.
Strip(env) == SelectSeq(env, LAMBDA c : c # " ")

\* Seeded fault: the daemon takes the variable as it stands.
RawToken(env) == env

\* Config.from_env strips the variable.
Token(env) == Strip(env)

\* _auth_headers strips it too, and sends no header for an empty one.
Sent(env) == Strip(env)

\* require_auth lets the client's requests through.
Admits(env) == Token(daemonEnv) = <<>> \/ Token(daemonEnv) = Sent(env)

-----------------------------------------------------------------------------
(* The daemon *)

\* The reply to a request that the client has given up on goes nowhere.
Reply(code) == reply' = [code |-> code] /\ request' = Nothing /\ UNCHANGED times

\* A request without the right token is refused, whatever it asks for.
Refuse ==
  /\ request # Nothing /\ ~Admits(clientEnv)
  /\ Reply(401)
  /\ UNCHANGED <<server, options, pc, now, timers, output, canceller, history>>

\* Any handler may raise, and a crash may cut it off before it has changed anything.
ServerError ==
  /\ request # Nothing /\ Admits(clientEnv)
  /\ Reply(500)
  /\ UNCHANGED <<server, options, pc, now, timers, output, canceller, history>>

HandlePost ==
  /\ request = "post" /\ Admits(clientEnv)
  /\ Server!Submit(Task)
  /\ Reply(201)
  /\ UNCHANGED <<options, pc, now, timers, output, canceller, history>>

Row == [status |-> status[Task], result_path |-> Task \in published]

HandleGet ==
  /\ request = "get" /\ Admits(clientEnv)
  /\ reply' = [code |-> 200, task |-> Row] /\ request' = Nothing
  /\ UNCHANGED <<server, options, pc, now, timers, times, output, canceller, history>>

\* GET result and GET trace of a row that exists.
HandleFile ==
  /\ request \in {"result", "trace"} /\ Admits(clientEnv)
  /\ Reply(IF request = "trace" \/ Task \in published THEN 200 ELSE 404)
  /\ UNCHANGED <<server, options, pc, now, timers, output, canceller, history>>

\* The worker goes on with the task.
Work ==
  /\ \/ Server!Claim(Task) \/ Server!Publish(Task)
     \/ Server!Finish(Task) \/ Server!Fail(Task)
  /\ finishedAt' = IF status' # status /\ status'[Task] \in Terminal THEN now ELSE finishedAt
  /\ UNCHANGED <<options, pc, now, timers, wire, output, canceller, began>>

-----------------------------------------------------------------------------
(* yakyoke cancel, by a user with the same environment *)

CancelSends ==
  /\ canceller = "idle" /\ outcome = "submitted"
  /\ canceller' = "sent"
  /\ UNCHANGED <<server, options, pc, now, timers, wire, output, history>>

\* Seeded fault: the row count is not looked at.
DeleteSaysTrue ==
  /\ canceller = "sent" /\ Admits(clientEnv)
  /\ canceller' = "true"
  /\ IF status[Task] \in Cancellable
     THEN Server!Cancel(Task) /\ finishedAt' = now
     ELSE UNCHANGED <<server, finishedAt>>
  /\ UNCHANGED <<options, pc, now, timers, wire, output, began>>

\* DELETE cancels the task, or finds it finished: 409, or a row count of 0.
HandleDelete ==
  /\ canceller = "sent" /\ Admits(clientEnv)
  /\ IF status[Task] \in Cancellable
     THEN Server!Cancel(Task) /\ finishedAt' = now /\ canceller' = "true"
     ELSE canceller' \in {"false", "refused"} /\ UNCHANGED <<server, finishedAt>>
  /\ UNCHANGED <<options, pc, now, timers, wire, output, began>>

\* Its request or its reply is lost; in the latter case the task is cancelled.
DeleteFails ==
  /\ canceller = "sent"
  /\ canceller' = "error"
  /\ \/ UNCHANGED <<server, finishedAt>>
     \/ Admits(clientEnv) /\ Server!Cancel(Task) /\ finishedAt' = now
  /\ UNCHANGED <<options, pc, now, timers, wire, output, began>>

-----------------------------------------------------------------------------
(* yakyoke run *)

Send(l, kind) ==
  /\ pc' = l
  /\ request' = kind /\ reply' = NoReply
  /\ sent' = now /\ heard' = now /\ parts' = 0 /\ UNCHANGED ended

Goto(l) == pc' = l /\ UNCHANGED wire

\* The request is done with: the reply is taken, or given up.
Leave(l) ==
  /\ pc' = l /\ reply' = NoReply /\ ended' = now
  /\ UNCHANGED <<request, sent, heard, parts>>

Tell(o) == outcome' = o /\ UNCHANGED <<read, printed>>

Post ==
  /\ pc = "start"
  /\ Send("posting", "post")
  /\ UNCHANGED <<server, options, now, timers, output, canceller, history>>

\* 201: the id is printed, and the wait begins.
Submitted ==
  /\ pc = "posting" /\ reply.code = 201
  /\ Tell("submitted")
  /\ deadline' = now + Timeout /\ began' = now
  /\ Leave("check")
  /\ UNCHANGED <<server, options, now, wake, canceller, finishedAt>>

\* Seeded fault: the wait is over at the deadline, not after it.
TimedOutAt ==
  /\ pc = "check" /\ now >= deadline
  /\ Tell("timed_out")
  /\ Goto("over")
  /\ UNCHANGED <<server, options, now, timers, canceller, history>>

TimedOut ==
  /\ pc = "check" /\ now > deadline
  /\ Tell("timed_out")
  /\ Goto("over")
  /\ UNCHANGED <<server, options, now, timers, canceller, history>>

Ask ==
  /\ pc = "check" /\ now <= deadline
  /\ Send("asking", "get")
  /\ UNCHANGED <<server, options, now, timers, output, canceller, history>>

\* Seeded fault: a task that has started counts as finished.
EndsOnceStarted(s) == s # "pending"

\* The loop's condition: the task is finished.
Ends(s) == s \in {"done", "failed", "cancelled"}

\* Seeded fault: the deadline is set anew for every poll.
PolledAnew ==
  /\ pc = "asking" /\ reply.code = 200
  /\ read' = reply.task
  /\ wake' = now + Poll /\ deadline' = now + Timeout
  /\ Leave(IF Ends(read'.status) THEN "report" ELSE "sleeping")
  /\ UNCHANGED <<server, options, now, outcome, printed, canceller, history>>

\* The status that came back ends the loop, or is waited on.
Polled ==
  /\ pc = "asking" /\ reply.code = 200
  /\ read' = reply.task
  /\ wake' = now + Poll /\ UNCHANGED deadline
  /\ Leave(IF Ends(read'.status) THEN "report" ELSE "sleeping")
  /\ UNCHANGED <<server, options, now, outcome, printed, canceller, history>>

Wake ==
  /\ pc = "sleeping" /\ now >= wake
  /\ Goto("check")
  /\ UNCHANGED <<server, options, now, timers, output, canceller, history>>

\* Seeded fault: the client is made without a timeout.
WaitsForever ==
  /\ pc \in {"posting", "asking"}
  /\ reply # NoReply /\ reply.code \notin {200, 201}
  /\ Tell(IF reply.code = 401 THEN "refused" ELSE "error")
  /\ Leave("over")
  /\ UNCHANGED <<server, options, now, timers, canceller, history>>

\* An error status, or no reply that arrives: run stops here.
RequestFails ==
  /\ pc \in {"posting", "asking"}
  /\ Tell(IF reply.code = 401 THEN "refused" ELSE "error")
  /\ Leave("over")
  /\ UNCHANGED <<server, options, now, timers, canceller, history>>

\* How the task ended is printed; a done one has its result fetched.
Report ==
  /\ pc = "report"
  /\ Tell(read.status)
  /\ IF read.status = "done" /\ read.result_path
     THEN Send("fetching", "result") ELSE Goto("trace")
  /\ UNCHANGED <<server, options, now, timers, canceller, history>>

\* The result is printed, or an error or a lost reply is passed over.
Fetched ==
  /\ pc = "fetching"
  /\ printed' \in {FALSE, reply.code = 200}
  /\ Leave("trace")
  /\ UNCHANGED <<server, options, now, timers, read, outcome, canceller, history>>

\* With --trace the trace is fetched, too.
Trace ==
  /\ pc = "trace"
  /\ Send("tracing", "trace") \/ Goto("over")
  /\ UNCHANGED <<server, options, now, timers, output, canceller, history>>

Traced ==
  /\ pc = "tracing"
  /\ Leave("over")
  /\ UNCHANGED <<server, options, now, timers, output, canceller, history>>

-----------------------------------------------------------------------------

\* The request gets on: it has a connection, it is written, or a part of the reply,
\* which may be on its way, is read.
Proceeds ==
  /\ Waiting /\ heard < now /\ parts < MaxParts
  /\ heard' = now /\ parts' = parts + 1
  /\ UNCHANGED <<server, options, pc, now, timers, request, reply, sent, ended, output,
                 canceller, history>>

\* Time passes while the run sleeps or waits for the next operation of its request.
Tick ==
  /\ now < MaxNow
  /\ \/ pc = "sleeping" /\ now < wake
     \/ Waiting /\ now < heard + HttpTimeout
  /\ now' = now + 1
  /\ UNCHANGED <<server, options, pc, timers, wire, output, canceller, history>>

RunStep ==
  \/ Post \/ Submitted \/ TimedOut \/ Ask \/ Polled \/ Wake
  \/ RequestFails \/ Report \/ Fetched \/ Trace \/ Traced

DaemonStep == Refuse \/ ServerError \/ HandlePost \/ HandleGet \/ HandleFile \/ Work

CancelStep == CancelSends \/ HandleDelete \/ DeleteFails

Next == RunStep \/ DaemonStep \/ CancelStep \/ Proceeds \/ Tick

Spec == Init /\ [][Next]_vars

\* Time passes and the client's process runs; the daemon need do nothing.
FairSpec == Spec /\ WF_vars(Tick) /\ WF_vars(RunStep)

-----------------------------------------------------------------------------
(* Properties *)

\* What run says of the task's end is the end it has, and keeps, although other
\* requests and the worker went on after the last poll; a result that it prints is a
\* published one, of a task that it said was done.
ReportsTruth ==
  /\ outcome \in Status => outcome \in Terminal /\ status[Task] = outcome
  /\ printed => outcome = "done" /\ Task \in published

\* How long the poll under way has taken, or the last one took.
Span == (IF pc = "asking" THEN now ELSE ended) - sent

\* "Total wait timeout": what the wait lasts longer than the timeout, counted from the
\* 201 on, is one poll interval and the poll that was under way then, however slow.
WaitBounded ==
  outcome = "submitted" => now <= began + Timeout + Poll + Span

\* A task that was finished before the deadline by a poll interval and the time that
\* the last poll took is never reported as timed out.
TimelyIsReported ==
  outcome = "timed_out" /\ status[Task] \in Terminal =>
    finishedAt + Poll + Span > began + Timeout

\* Two users of one task are told the same: after "cancelled: true" run does not
\* say done or failed, and a refused cancellation means that the task has ended.
CancelTold ==
  /\ canceller = "true" /\ outcome \in Status => outcome = "cancelled"
  /\ canceller \in {"false", "refused"} => status[Task] \in Terminal

\* "The CLI reads the same env var the daemon does": a run is refused exactly when
\* the daemon has a token and the client another, blanks around them aside, and a
\* refused one leaves no task behind.
RefusedByRight ==
  LET differ == Strip(daemonEnv) # <<>> /\ Strip(daemonEnv) # Strip(clientEnv)
  IN /\ outcome = "refused" => differ
     /\ differ => outcome \in {"none", "refused", "error"} /\ status[Task] = "absent"

\* Whatever the daemon does or leaves undone, the command comes to its end.
RunEnds == <>(pc = "over")

=============================================================================
