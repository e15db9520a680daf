------------------------------ MODULE TaskRun ------------------------------
(***************************************************************************)
(* One task from its submission to its end, with the agent's run in full:  *)
(* Worker._run_one around AgentLoop, both on the task's workspace, while   *)
(* clients cancel the task and read its result, and the process may crash  *)
(* at any step.  Module Daemon has the same worker among other tasks and   *)
(* threads, with the run as one step; here each of its statements is one,  *)
(* and none fails.                                                         *)
(***************************************************************************)
EXTENDS AgentLoop

VARIABLES
  at,           \* where the worker is with the task
  status,       \* the row's status
  result_path,  \* is the row's result_path set
  shown         \* history: the results that clients were shown

row == <<status, result_path>>

allVars == <<vars, at, row, shown>>

TaskInit ==
  /\ Init
  /\ at = "queue" /\ status = "absent" /\ result_path = FALSE /\ shown = {}

-----------------------------------------------------------------------------
(* Clients *)

Submit ==
  /\ status = "absent"
  /\ status' = "pending"
  /\ UNCHANGED <<vars, at, result_path, shown>>

Cancel ==
  /\ status \in {"pending", "running"}
  /\ status' = "cancelled"
  /\ UNCHANGED <<vars, at, result_path, shown>>

\* GET result; reading a directory fails, and shows nothing.
GetResult ==
  /\ result_path /\ IsFile(ResultPath)
  /\ shown' = shown \cup {tree[ResultPath]}
  /\ UNCHANGED <<vars, at, row>>

-----------------------------------------------------------------------------
(* The worker *)

Goto(l) == at' = l /\ UNCHANGED shown

\* Seeded fault: a new process takes up a task that was left running.
ClaimStuck ==
  /\ <<at, status>> \in {<<"queue", "pending">>, <<"dead", "running">>}
  /\ status' = "running"
  /\ pc' = "start" /\ step' = 0
  /\ messages' = <<>> /\ calls' = <<>> /\ seen' = {} /\ ran' = <<>>
  /\ Goto("agent")
  /\ UNCHANGED <<tree, tools, max_steps, result_path>>

Claim ==
  /\ at = "queue" /\ status = "pending"
  /\ status' = "running"
  /\ Goto("agent")
  /\ UNCHANGED <<vars, result_path>>

\* agent.run(task), step by step.
AgentStep ==
  /\ at = "agent"
  /\ Next
  /\ UNCHANGED <<at, row, shown>>

\* Seeded fault: the run is taken for finished when there is a result.
ReturnsEarly ==
  /\ at = "agent" /\ (pc \in {"text", "exception"} \/ IsFile(ResultPath))
  /\ Goto(IF pc = "exception" THEN "nack" ELSE "persist")
  /\ UNCHANGED <<vars, row>>

\* Seeded fault: an exception of the run is not caught.
ReturnsText ==
  /\ at = "agent" /\ pc = "text"
  /\ Goto("persist")
  /\ UNCHANGED <<vars, row>>

\* The run's text goes on to be published, its exception to nack.
Returns ==
  /\ at = "agent" /\ pc \in {"text", "exception"}
  /\ Goto(IF pc = "text" THEN "persist" ELSE "nack")
  /\ UNCHANGED <<vars, row>>

FinalText == << <<"final_text">> >>

\* Seeded fault: the final text replaces a result the agent wrote.
PersistAlways ==
  /\ at = "persist"
  /\ tree' = IF IsDir(ResultPath) THEN tree ELSE Put(ResultPath, FinalText)
  /\ Goto("publish")
  /\ UNCHANGED <<state, tools, max_steps, row>>

\* Write the final text as result.md if there is nothing of that name.
Persist ==
  /\ at = "persist"
  /\ tree' = IF Exists(ResultPath) THEN tree ELSE Put(ResultPath, FinalText)
  /\ Goto("publish")
  /\ UNCHANGED <<state, tools, max_steps, row>>

Publish ==
  /\ at = "publish"
  /\ result_path' = TRUE
  /\ Goto("ack")
  /\ UNCHANGED <<vars, status>>

\* ack and nack: a row that is not running any more stays as it is.
Settle(l, s) ==
  /\ at = l
  /\ status' = IF status = "running" THEN s ELSE status
  /\ Goto("over")
  /\ UNCHANGED <<vars, result_path>>

Ack  == Settle("ack", "done")
Nack == Settle("nack", "failed")

\* The process ends, and nobody takes the task up again.
Crash ==
  /\ at \notin {"over", "dead"}
  /\ at' = "dead"
  /\ UNCHANGED <<vars, row, shown>>

-----------------------------------------------------------------------------

WorkerStep == Claim \/ AgentStep \/ Returns \/ Persist \/ Publish \/ Ack \/ Nack

TaskNext == Submit \/ Cancel \/ GetResult \/ WorkerStep \/ Crash

TaskSpec == TaskInit /\ [][TaskNext]_allVars

\* The worker's thread runs, and the provider and the tools come back.
FairTaskSpec == TaskSpec /\ WF_allVars(WorkerStep)

-----------------------------------------------------------------------------
(* Properties *)

\* The calls of the run that wrote result.md itself.
ResultWrites ==
  {i \in DOMAIN ran : /\ ran[i].ok /\ ran[i].sig.args.kind = "write"
                      /\ Resolve(ran[i].sig.args.path) = ResultPath}

\* A published result is this run's: what its last successful write to result.md
\* said, or the final text if there was none; or a directory, which is no result.
ResultIsTheRuns ==
  result_path =>
    \/ IsDir(ResultPath)
    \/ tree[ResultPath] =
         IF ResultWrites = {} THEN FinalText
         ELSE << <<"text", ran[Max(ResultWrites)].sig.args.content>> >>

\* All clients are shown the same result, cancelled tasks and crashes included.
OneResult == \A a, b \in shown : a = b

\* The row agrees with the run: done after a final text only, failed after an
\* exception only, and a result is published after a final text only.
RowAgreesWithRun ==
  /\ status = "done" \/ result_path => pc = "text"
  /\ status = "failed" => pc = "exception" /\ ~result_path

\* Whatever the model replies, a task that waits is settled, or the process ended.
TaskSettles == status = "pending" ~> status \in {"done", "failed", "cancelled"} \/ at = "dead"

=============================================================================
