---------------------------- MODULE ClientProofs ----------------------------
(***************************************************************************)
(* Theorems about Client, for every timeout, poll interval and request     *)
(* timeout, however long a request takes, every pair of environments and   *)
(* any amount of time.                                                     *)
(***************************************************************************)
EXTENDS Client, TLAPS

-----------------------------------------------------------------------------
(* The invariant *)

\* The server's row and the client's clocks have their types.
Types ==
  /\ status \in [{Task} -> Status \cup {"absent"}]
  /\ now \in Nat /\ sent \in Nat /\ deadline \in Nat /\ wake \in Nat
  /\ heard \in Nat /\ ended \in Nat /\ began \in Nat /\ finishedAt \in Nat
  /\ sent <= now /\ ended <= now

Over == status[Task] \in Terminal

\* What is known of the outcome and of the request under way at each place.
Placed ==
  /\ pc \in {"start", "posting"} => outcome = "none" /\ ~printed
  /\ pc \in {"check", "asking", "sleeping", "report"} => outcome = "submitted" /\ ~printed
  /\ outcome = "submitted" => pc \in {"check", "asking", "sleeping", "report"}
  /\ outcome = "timed_out" => pc = "over"
  /\ outcome \in Status => pc \in {"fetching", "trace", "tracing", "over"}
  /\ pc = "posting" => request \in {"post", Nothing}
  /\ pc = "asking" => request \in {"get", Nothing}
  /\ pc = "fetching" => request \in {"result", Nothing} /\ outcome = "done"

\* What the client has heard of the end of the task is so, and it heard it in time:
\* what ended after it was heard of as going on ended after the request was sent.
Heard ==
  /\ pc = "asking" /\ reply.code = 200 =>
       \/ reply.task.status = status[Task]
       \/ reply.task.status \notin Terminal /\ (Over => finishedAt >= sent)
  /\ pc = "report" => read.status \in Terminal /\ read.status = status[Task]
  /\ outcome \in Status => outcome \in Terminal /\ outcome = status[Task]
  /\ pc = "fetching" /\ reply.code = 200 => Task \in published
  /\ printed => outcome = "done" /\ Task \in published

\* The last poll was begun in time, and the task had not ended by then.
PolledInTime == sent <= deadline /\ sent <= ended /\ (Over => finishedAt >= sent)

\* How far time can have gone at each place.
Timed ==
  /\ outcome \in {"submitted", "timed_out"} => deadline = began + Timeout
  /\ pc = "asking" => sent <= deadline
  /\ pc = "sleeping" => PolledInTime /\ now <= wake /\ wake = ended + Poll
  /\ pc = "check" =>
       \/ sent <= now /\ now = ended /\ now <= deadline
       \/ PolledInTime /\ now = ended + Poll
  /\ pc = "report" => sent <= deadline /\ now = ended
  /\ outcome = "timed_out" =>
       now > deadline /\ sent <= ended /\ (Over => deadline + sent < finishedAt + Poll + ended)

\* What was submitted is there, and what the canceller was told of it is so.
Told ==
  /\ (pc = "posting" /\ reply.code = 201) \/ outcome = "submitted" \/ canceller # "idle" =>
       status[Task] # "absent"
  /\ canceller = "true" => status[Task] = "cancelled"
  /\ canceller \in {"false", "refused"} => Over

Inv == Types /\ Placed /\ Heard /\ Timed /\ Told

LEMMA InitClient == Init => Inv
<1> SUFFICES ASSUME Init PROVE Inv
  OBVIOUS
<1>1. status = [t \in {Task} |-> "absent"] /\ published = {}
  BY DEF Init, Server!Init
<1>2. Types
  BY <1>1, SMT DEF Init, Types
<1>3. Placed
  BY SMT DEF Init, Placed, Status, Terminal, Nothing
<1>4. Heard
  BY SMT DEF Init, Heard, Status, Terminal, NoReply
<1>5. Timed
  BY SMT DEF Init, Timed
<1>6. Told
  BY SMT DEF Init, Told
<1> QED BY <1>2, <1>3, <1>4, <1>5, <1>6 DEF Inv

-----------------------------------------------------------------------------
(* The daemon and the other user *)

\* What a step of the server may do to the row: leave it, if it has ended, and
\* otherwise move it on, noting when it ends.
Advance ==
  /\ status' \in [{Task} -> Status \cup {"absent"}]
  /\ Over => status'[Task] = status[Task] /\ finishedAt' = finishedAt
  /\ status[Task] # "absent" => status'[Task] # "absent"
  /\ ~Over => IF Over' THEN finishedAt' = now ELSE finishedAt' = finishedAt
  /\ Task \in published => Task \in published'

ClientSteady == UNCHANGED <<options, pc, now, timers, output, began>>

LEMMA WorkAdvances == ASSUME Types, Work PROVE Advance
<1> USE DEF Over
<1>1. finishedAt' = IF status' # status /\ status'[Task] \in Terminal THEN now ELSE finishedAt
  BY DEF Work
<1>2. CASE Server!Claim(Task)
  <2>1. status[Task] = "pending" /\ status' = [status EXCEPT ![Task] = "running"]
        /\ published' = published
    BY <1>2, SMT DEF Server!Claim, Server!Move
  <2> QED BY <1>1, <2>1, SMT DEF Advance, Types, Status, Terminal
<1>3. CASE Server!Publish(Task)
  <2>1. status' = status /\ published' = published \cup {Task}
    BY <1>3 DEF Server!Publish
  <2> QED BY <1>1, <2>1 DEF Advance, Types
<1>4. ASSUME NEW s \in {"done", "failed"}, Server!Move(Task, {"running"}, s), UNCHANGED published
      PROVE  Advance
  <2>1. status[Task] = "running" /\ status' = [status EXCEPT ![Task] = s]
    BY <1>4, SMT DEF Server!Move
  <2> QED BY <1>1, <1>4, <2>1, SMT DEF Advance, Types, Status, Terminal
<1> QED BY <1>2, <1>3, <1>4 DEF Work, Server!Finish, Server!Fail

LEMMA DeleteAdvances == ASSUME Types, HandleDelete \/ DeleteFails PROVE Advance
<1> USE DEF Over
<1>1. CASE UNCHANGED <<server, finishedAt>>
  BY <1>1 DEF server, Advance, Types
<1>2. CASE Server!Cancel(Task) /\ finishedAt' = now
  <2>1. status[Task] \in {"pending", "running"} /\ status' = [status EXCEPT ![Task] = "cancelled"]
        /\ published' = published
    BY <1>2, SMT DEF Server!Cancel, Server!Move, Server!Cancellable
  <2> QED BY <1>2, <2>1, SMT DEF Advance, Types, Status, Terminal
<1> QED BY <1>1, <1>2 DEF HandleDelete, DeleteFails

\* The row moves while the client waits, sleeps or has ended.
LEMMA AdvanceKeeps ==
  ASSUME Inv, Advance, ClientSteady, UNCHANGED wire
  PROVE  Types' /\ Placed' /\ Heard' /\ Timed'
<1>1. UNCHANGED <<pc, now, deadline, wake, request, sent, heard, ended, reply, read, outcome,
                  printed, began>>
  BY DEF ClientSteady, timers, wire, times, output
<1>2. Types'
  BY <1>1, SMT DEF Inv, Types, Advance
<1>3. Placed'
  BY <1>1 DEF Inv, Placed
<1>4. Heard'
  <2>1. pc = "asking" /\ reply.code = 200 =>
          \/ reply.task.status = status'[Task]
          \/ reply.task.status \notin Terminal /\ (Over' => finishedAt' >= sent)
    <3>1. now >= sent
      BY SMT DEF Inv, Types
    <3>2. CASE Over
      BY <3>2 DEF Inv, Heard, Advance, Over
    <3>3. CASE ~Over
      <4>1. Over' => finishedAt' >= sent
        BY <3>1, <3>3 DEF Advance
      <4>2. pc = "asking" /\ reply.code = 200 => reply.task.status \notin Terminal
        BY <3>3 DEF Inv, Heard, Over
      <4> QED BY <4>1, <4>2
    <3> QED BY <3>2, <3>3
  <2>2. /\ status[Task] \in Terminal => status'[Task] = status[Task]
        /\ Task \in published => Task \in published'
    BY DEF Advance, Over
  <2> QED BY <1>1, <2>1, <2>2 DEF Inv, Heard
<1>5. Timed'
  <2>1. Over' => finishedAt' = now \/ (Over /\ finishedAt' = finishedAt)
    BY DEF Advance
  <2>2. Poll \in Nat /\ now \in Nat /\ deadline \in Nat /\ sent \in Nat /\ ended \in Nat
        /\ sent <= now /\ Timed
    BY ClientAssumption DEF Inv, Types
  <2>3. CASE finishedAt' = now
    <3>1. now >= sent
      BY <2>2, SMT
    <3>2. now > deadline /\ sent <= ended => deadline + sent < now + Poll + ended
      BY <2>2, SMT
    <3>3. PolledInTime => PolledInTime'
      BY <1>1, <2>3, <3>1 DEF PolledInTime
    <3> QED BY <1>1, <2>2, <2>3, <3>2, <3>3 DEF Timed
  <2>4. CASE Over' => Over /\ finishedAt' = finishedAt
    <3>1. PolledInTime => PolledInTime'
      BY <1>1, <2>4 DEF PolledInTime
    <3> QED BY <1>1, <2>2, <2>4, <3>1 DEF Timed
  <2> QED BY <2>1, <2>3, <2>4
<1> QED BY <1>2, <1>3, <1>4, <1>5

\* Anybody but the client itself.
Others == DaemonStep \/ CancelStep

LEMMA ReplyKeeps ==
  ASSUME Inv, Refuse \/ ServerError \/ HandlePost \/ HandleGet \/ HandleFile
  PROVE  Inv'
<1>1. /\ UNCHANGED <<pc, now, deadline, wake, sent, heard, ended, read, outcome, printed, began,
                     finishedAt, canceller>>
      /\ request' = Nothing
  BY DEF Refuse, ServerError, HandlePost, HandleGet, HandleFile, Reply, timers, times, output,
    history
<1>2. /\ status' \in [{Task} -> Status \cup {"absent"}]
      /\ \/ status'[Task] = status[Task]
         \/ status[Task] = "absent" /\ status'[Task] = "pending"
      /\ published' = published
  <2>1. CASE HandlePost
    <3>1. status[Task] = "absent" /\ status' = [status EXCEPT ![Task] = "pending"]
          /\ published' = published
      BY <2>1 DEF HandlePost, Server!Submit, Server!Move
    <3> QED BY <3>1 DEF Inv, Types, Status
  <2>2. CASE UNCHANGED server
    BY <2>2 DEF server, Inv, Types
  <2> QED BY <2>1, <2>2 DEF Refuse, ServerError, HandleGet, HandleFile
<1>3. reply'.code = 200 =>
        \/ request = "get" /\ reply'.task.status = status[Task] /\ UNCHANGED status
        \/ request = "trace"
        \/ request = "result" /\ Task \in published
  <2>1. CASE HandleGet
    BY <2>1 DEF HandleGet, Row, server
  <2>2. CASE HandleFile
    BY <2>2 DEF HandleFile, Reply
  <2>3. CASE Refuse \/ ServerError \/ HandlePost
    BY <2>3, SMT DEF Refuse, ServerError, HandlePost, Reply
  <2> QED BY <2>1, <2>2, <2>3
<1>4. Over' <=> Over
  BY <1>2 DEF Over, Terminal
<1>5. Types' /\ Placed'
  BY <1>1, <1>2 DEF Inv, Types, Placed
<1>6. Heard'
  <2>1. pc = "asking" => request \in {"get", Nothing}
    BY DEF Inv, Placed
  <2>2. pc = "fetching" => request \in {"result", Nothing}
    BY DEF Inv, Placed
  <2>3. pc = "asking" /\ reply'.code = 200 => reply'.task.status = status'[Task]
    BY <1>3, <2>1 DEF Nothing
  <2>4. pc = "fetching" /\ reply'.code = 200 => Task \in published'
    BY <1>2, <1>3, <2>2 DEF Nothing
  <2> QED BY <1>1, <1>2, <2>3, <2>4 DEF Inv, Heard, Terminal
<1>7. Timed'
  BY <1>1, <1>4 DEF Inv, Timed, PolledInTime
<1>8. Told'
  <2>1. pc = "posting" /\ reply'.code = 201 => status'[Task] # "absent"
    <3>1. CASE HandlePost
      <4>1. status' = [status EXCEPT ![Task] = "pending"]
        BY <3>1 DEF HandlePost, Server!Submit, Server!Move
      <4> QED BY <4>1 DEF Inv, Types
    <3>2. CASE ~HandlePost
      <4>1. reply'.code # 201
        BY <3>2, SMT DEF Refuse, ServerError, HandleGet, HandleFile, Reply
      <4> QED BY <4>1
    <3> QED BY <3>1, <3>2
  <2> QED BY <1>1, <1>2, <1>4, <2>1, SMT DEF Inv, Told
<1> QED BY <1>5, <1>6, <1>7, <1>8 DEF Inv

LEMMA OthersKeep == ASSUME Inv, Others PROVE Inv'
<1>1. CASE Refuse \/ ServerError \/ HandlePost \/ HandleGet \/ HandleFile
  BY <1>1, ReplyKeeps
<1>2. CASE Work
  <2>1. Advance /\ ClientSteady /\ UNCHANGED wire /\ UNCHANGED canceller
    BY <1>2, WorkAdvances DEF Work, ClientSteady, Inv
  <2>2. Told'
    BY <2>1 DEF Inv, Told, Advance, Over, Terminal, ClientSteady, wire, output
  <2> QED BY <2>1, <2>2, AdvanceKeeps DEF Inv
<1>3. CASE CancelSends
  <2>1. UNCHANGED <<status, published, pc, now, deadline, wake, request, sent, heard, ended,
                    reply, read, outcome, printed, began, finishedAt>> /\ canceller' = "sent"
    BY <1>3 DEF CancelSends, server, timers, wire, times, output, history
  <2>2. outcome = "submitted"
    BY <1>3 DEF CancelSends
  <2>3. Types' /\ Placed' /\ Heard'
    BY <2>1 DEF Inv, Types, Placed, Heard, Over
  <2>4. Timed'
    BY <2>1 DEF Inv, Timed, PolledInTime, Over
  <2>5. Told'
    BY <2>1, <2>2, SMT DEF Inv, Told, Over
  <2> QED BY <2>3, <2>4, <2>5 DEF Inv
<1>4. CASE HandleDelete \/ DeleteFails
  <2>1. Advance /\ ClientSteady /\ UNCHANGED wire
    BY <1>4, DeleteAdvances DEF HandleDelete, DeleteFails, ClientSteady, Inv
  <2>2. Told'
    <3>1. CASE HandleDelete /\ status[Task] \in Cancellable
      <4>1. status' = [status EXCEPT ![Task] = "cancelled"] /\ canceller' = "true"
        BY <3>1 DEF HandleDelete, Server!Cancel, Server!Move
      <4> QED BY <4>1 DEF Inv, Types, Told
    <3>2. CASE HandleDelete /\ status[Task] \notin Cancellable
      <4>1. canceller' \in {"false", "refused"} /\ UNCHANGED status /\ canceller = "sent"
        BY <3>2 DEF HandleDelete, server
      <4>2. status[Task] # "absent"
        BY <4>1, SMT DEF Inv, Told
      <4> QED BY <3>2, <4>1, <4>2 DEF Inv, Types, Told, Over, Status, Cancellable
    <3>3. CASE DeleteFails
      BY <2>1, <3>3, SMT DEF DeleteFails, Inv, Told, Advance, ClientSteady, wire, output
    <3> QED BY <1>4, <3>1, <3>2, <3>3
  <2> QED BY <2>1, <2>2, AdvanceKeeps DEF Inv
<1> QED BY <1>1, <1>2, <1>3, <1>4 DEF Others, DaemonStep, CancelStep

LEMMA TickKeeps == ASSUME Inv, Tick PROVE Inv'
<1>1. /\ now' = now + 1
      /\ \/ pc = "sleeping" /\ now < wake
         \/ Waiting /\ now < heard + HttpTimeout
      /\ UNCHANGED <<status, published, pc, deadline, wake, request, sent, heard, ended, reply,
                     read, outcome, printed, canceller, began, finishedAt>>
  BY DEF Tick, server, timers, wire, times, output, history
<1>2. Types'
  BY <1>1, SMT DEF Inv, Types
<1>3. Placed' /\ Heard' /\ Told'
  BY <1>1 DEF Inv, Placed, Heard, Told, Over
<1>4. Timed'
  <2>1. pc \notin {"check", "report"} /\ outcome # "timed_out"
    BY <1>1 DEF Waiting, Inv, Placed
  <2>2. now \in Nat /\ wake \in Nat
    BY DEF Inv, Types
  <2>3. pc = "sleeping" => now + 1 <= wake
    BY <1>1, <2>2, SMT DEF Waiting
  <2>4. PolledInTime => PolledInTime'
    BY <1>1 DEF PolledInTime, Over
  <2> QED BY <1>1, <2>1, <2>3, <2>4 DEF Inv, Timed
<1> QED BY <1>2, <1>3, <1>4 DEF Inv

\* A request that gets on is as it was, but for the time that is left to it.
LEMMA ProceedsKeeps == ASSUME Inv, Proceeds PROVE Inv'
<1>1. /\ heard' = now
      /\ UNCHANGED <<status, published, pc, now, deadline, wake, request, sent, ended, reply,
                     read, outcome, printed, canceller, began, finishedAt>>
  BY DEF Proceeds, server, timers, output, history
<1>2. Types'
  BY <1>1 DEF Inv, Types
<1>3. Placed' /\ Heard' /\ Told'
  BY <1>1 DEF Inv, Placed, Heard, Told, Over
<1>4. Timed'
  BY <1>1 DEF Inv, Timed, PolledInTime, Over
<1> QED BY <1>2, <1>3, <1>4 DEF Inv

-----------------------------------------------------------------------------
(* The run itself *)

\* A step of the run changes neither the server nor the time.
LEMMA RunSteps ==
  ASSUME RunStep
  PROVE  UNCHANGED <<status, published, options, now, canceller, finishedAt>>
BY DEF RunStep, Post, Submitted, TimedOut, Ask, Polled, Wake, RequestFails, Report, Fetched,
  Trace, Traced, server, history

LEMMA RunKeeps == ASSUME Inv, RunStep PROVE Inv'
<1>0. /\ UNCHANGED <<status, published, now, canceller, finishedAt>>
      /\ Over' <=> Over
      /\ Timeout \in Nat /\ Poll \in Nat /\ now \in Nat /\ sent \in Nat /\ sent <= now
  BY RunSteps, ClientAssumption DEF Over, Inv, Types
<1>1. CASE Post
  <2>1. /\ pc = "start" /\ pc' = "posting" /\ request' = "post" /\ sent' = now /\ heard' = now
        /\ reply' = NoReply
        /\ UNCHANGED <<deadline, wake, ended, read, outcome, printed, began>>
    BY <1>1 DEF Post, Send, timers, output, history
  <2>2. Types' /\ Placed' /\ Heard' /\ Told'
    BY <1>0, <2>1, SMT DEF Inv, Types, Placed, Heard, Told, NoReply, Over
  <2>3. Timed'
    BY <1>0, <2>1 DEF Inv, Placed, Timed
  <2> QED BY <2>2, <2>3 DEF Inv
<1>2. CASE Submitted
  <2>1. /\ pc = "posting" /\ reply.code = 201 /\ outcome' = "submitted"
        /\ deadline' = now + Timeout /\ began' = now
        /\ pc' = "check" /\ reply' = NoReply /\ ended' = now
        /\ UNCHANGED <<request, sent, heard, wake, read, printed>>
    BY <1>2 DEF Submitted, Tell, Leave
  <2>2. Types' /\ Placed' /\ Heard' /\ Told'
    BY <1>0, <2>1, SMT DEF Inv, Types, Placed, Heard, Told, NoReply, Status, Terminal, Over
  <2>3. now <= now + Timeout
    BY <1>0, SMT
  <2>4. Timed'
    BY <1>0, <2>1, <2>3 DEF Timed
  <2> QED BY <2>2, <2>4 DEF Inv
<1>3. CASE TimedOut
  <2>1. /\ pc = "check" /\ now > deadline /\ outcome' = "timed_out" /\ pc' = "over"
        /\ UNCHANGED <<deadline, wake, request, sent, heard, ended, reply, read, printed, began>>
    BY <1>3 DEF TimedOut, Tell, Goto, timers, wire, times, history
  <2>2. Types'
    BY <1>0, <2>1 DEF Inv, Types
  <2>4. pc' = "over" /\ outcome' = "timed_out" /\ ~printed'
    BY <2>1 DEF Inv, Placed
  <2>5. Placed'
    BY <2>4, SMT DEF Placed, Status
  <2>6. Heard'
    <3>1. outcome' \notin Status
      BY <2>4 DEF Status, Terminal, Cancellable
    <3> QED BY <2>4, <3>1 DEF Heard
  <2>7. Told'
    BY <1>0, <2>4, SMT DEF Inv, Told
  <2>3. Timed'
    <3>1. deadline = began + Timeout
      BY <2>1 DEF Inv, Placed, Timed
    <3>2. deadline \in Nat /\ finishedAt \in Nat /\ ended \in Nat
      BY DEF Inv, Types
    <3>3. PolledInTime /\ now = ended + Poll
      <4>1. ~(now <= deadline)
        BY <1>0, <2>1, <3>2, SMT
      <4> QED BY <2>1, <4>1 DEF Inv, Timed
    <3>4. sent <= ended /\ (Over => finishedAt >= sent)
      BY <3>3 DEF PolledInTime
    <3>5. Over => deadline + sent < finishedAt + Poll + ended
      BY <1>0, <2>1, <3>2, <3>3, <3>4, SMT
    <3> QED BY <1>0, <2>1, <3>1, <3>4, <3>5 DEF Timed
  <2> QED BY <2>2, <2>3, <2>5, <2>6, <2>7 DEF Inv
<1>4. CASE Ask
  <2>1. /\ pc = "check" /\ now <= deadline
        /\ pc' = "asking" /\ request' = "get" /\ sent' = now /\ heard' = now
        /\ reply' = NoReply
        /\ UNCHANGED <<deadline, wake, ended, read, outcome, printed, began>>
    BY <1>4 DEF Ask, Send, timers, output, history
  <2>2. Types' /\ Placed' /\ Heard' /\ Told'
    BY <1>0, <2>1, SMT DEF Inv, Types, Placed, Heard, Told, NoReply
  <2>3. Timed'
    BY <1>0, <2>1 DEF Inv, Timed, Placed
  <2> QED BY <2>2, <2>3 DEF Inv
<1>5. CASE Polled
  <2>1. /\ pc = "asking" /\ reply.code = 200 /\ read' = reply.task /\ wake' = now + Poll
        /\ pc' = IF Ends(read'.status) THEN "report" ELSE "sleeping"
        /\ reply' = NoReply /\ ended' = now
        /\ UNCHANGED <<deadline, request, sent, heard, outcome, printed, began>>
    BY <1>5 DEF Polled, Leave, history
  <2>2. \/ reply.task.status = status[Task]
        \/ reply.task.status \notin Terminal /\ (Over => finishedAt >= sent)
    BY <2>1 DEF Inv, Heard
  <2>3. Types' /\ Placed' /\ Told'
    BY <1>0, <2>1, SMT DEF Inv, Types, Placed, Told, NoReply
  <2>4. Heard'
    BY <1>0, <2>1, <2>2, SMT DEF Inv, Heard, Placed, NoReply, Ends, Terminal
  <2>5. Timed'
    <3>1. sent <= deadline
      BY <2>1 DEF Inv, Timed
    <3>2. now <= now + Poll
      BY <1>0, SMT
    <3>3. pc' = "sleeping" /\ Over => finishedAt >= sent
      BY <2>1, <2>2 DEF Ends, Over, Terminal
    <3>4. outcome = "submitted" /\ deadline = began + Timeout
      BY <2>1 DEF Inv, Placed, Timed
    <3>5. pc' = "sleeping" => PolledInTime'
      BY <1>0, <2>1, <3>1, <3>3 DEF PolledInTime
    <3> QED BY <1>0, <2>1, <3>1, <3>2, <3>4, <3>5 DEF Timed
  <2> QED BY <2>3, <2>4, <2>5 DEF Inv
<1>6. CASE Wake
  <2>1. /\ pc = "sleeping" /\ now >= wake /\ pc' = "check"
        /\ UNCHANGED <<deadline, wake, request, sent, heard, ended, reply, read, outcome,
                       printed, began>>
    BY <1>6 DEF Wake, Goto, timers, wire, times, output, history
  <2>2. Types' /\ Placed' /\ Heard' /\ Told'
    BY <1>0, <2>1, SMT DEF Inv, Types, Placed, Heard, Told
  <2>3. now = wake
    <3>1. now <= wake /\ now >= wake /\ now \in Nat /\ wake \in Nat
      BY <2>1 DEF Inv, Types, Timed
    <3> QED BY <3>1, SMT
  <2>4. Timed'
    <3>1. PolledInTime' /\ wake = ended + Poll
      BY <1>0, <2>1 DEF Inv, Timed, PolledInTime
    <3> QED BY <1>0, <2>1, <2>3, <3>1 DEF Inv, Placed, Timed
  <2> QED BY <2>2, <2>4 DEF Inv
<1>7. CASE RequestFails
  <2>1. /\ pc \in {"posting", "asking"} /\ outcome' \in {"refused", "error"} /\ pc' = "over"
        /\ reply' = NoReply /\ ended' = now
        /\ UNCHANGED <<deadline, wake, request, sent, heard, read, printed, began>>
    BY <1>7 DEF RequestFails, Tell, Leave, timers, history
  <2>2. Types' /\ Timed'
    BY <1>0, <2>1 DEF Inv, Types, Timed
  <2>3. pc' = "over" /\ ~printed' /\ outcome' \notin Status \cup {"submitted", "timed_out"}
    <3>1. ~printed
      BY <2>1 DEF Inv, Placed
    <3>2. outcome' \notin Status \cup {"submitted", "timed_out"}
      BY <2>1, SMT DEF Status, Terminal, Cancellable
    <3> QED BY <2>1, <3>1, <3>2
  <2>4. Placed'
    BY <2>3 DEF Placed
  <2>5. Heard'
    BY <2>3 DEF Heard
  <2>6. Told'
    BY <1>0, <2>3 DEF Inv, Told
  <2> QED BY <2>2, <2>4, <2>5, <2>6 DEF Inv
<1>8. CASE Report
  <2>1. /\ pc = "report" /\ outcome' = read.status
        /\ \/ /\ read.status = "done" /\ pc' = "fetching" /\ request' = "result"
              /\ sent' = now /\ heard' = now /\ reply' = NoReply
           \/ pc' = "trace" /\ UNCHANGED <<request, sent, heard, reply>>
        /\ UNCHANGED <<deadline, wake, ended, read, printed, began>>
    BY <1>8 DEF Report, Tell, Send, Goto, timers, wire, times, history
  <2>2. read.status \in Terminal /\ read.status = status[Task] /\ ~printed
    BY <2>1 DEF Inv, Heard, Placed
  <2>3. Types' /\ Timed'
    <3>1. sent' \in Nat /\ sent' <= now /\ heard' \in Nat
      BY <1>0, <2>1, SMT DEF Inv, Types
    <3> QED BY <1>0, <2>1, <2>2, <3>1 DEF Inv, Types, Timed, Terminal
  <2>4. Placed'
    <3>1. outcome' \in Terminal /\ ~printed' /\ pc' \in {"fetching", "trace"}
          /\ (pc' = "fetching" => request' = "result" /\ outcome' = "done")
      BY <2>1, <2>2
    <3> QED BY <3>1 DEF Placed, Terminal
  <2>5. Heard' /\ Told'
    BY <1>0, <2>1, <2>2, SMT DEF Inv, Heard, Told, NoReply, Terminal, Status
  <2> QED BY <2>3, <2>4, <2>5 DEF Inv
<1>9. CASE Fetched
  <2>1. /\ pc = "fetching" /\ printed' \in {FALSE, reply.code = 200} /\ pc' = "trace"
        /\ reply' = NoReply /\ ended' = now
        /\ UNCHANGED <<deadline, wake, request, sent, heard, read, outcome, began>>
    BY <1>9 DEF Fetched, Leave, timers, history
  <2>2. printed' => reply.code = 200
    BY <2>1
  <2>3. outcome = "done"
    BY <2>1 DEF Inv, Placed
  <2>4. Types' /\ Timed'
    BY <1>0, <2>1, <2>3, SMT DEF Inv, Types, Timed
  <2>5. Placed'
    BY <2>1, <2>3, SMT DEF Inv, Placed
  <2>6. Heard' /\ Told'
    BY <1>0, <2>1, <2>2, <2>3, SMT DEF Inv, Heard, Told, NoReply
  <2> QED BY <2>4, <2>5, <2>6 DEF Inv
<1>10. CASE Trace \/ Traced
  <2>1. /\ \/ /\ pc = "trace" /\ pc' = "tracing" /\ reply' = NoReply
              /\ sent' = now /\ heard' = now /\ UNCHANGED ended
           \/ /\ pc = "trace" /\ pc' = "over"
              /\ UNCHANGED <<request, sent, heard, ended, reply>>
           \/ /\ pc = "tracing" /\ pc' = "over" /\ reply' = NoReply
              /\ ended' = now /\ UNCHANGED <<request, sent, heard>>
        /\ UNCHANGED <<deadline, wake, read, outcome, printed, began>>
    BY <1>10 DEF Trace, Traced, Send, Goto, Leave, timers, wire, times, output, history
  <2>2. outcome # "submitted"
    BY <2>1 DEF Inv, Placed
  <2>3. Types'
    <3>1. sent' \in Nat /\ sent' <= now /\ heard' \in Nat /\ ended' \in Nat /\ ended' <= now
      BY <1>0, <2>1, SMT DEF Inv, Types
    <3> QED BY <1>0, <2>1, <3>1 DEF Inv, Types
  <2>4. Timed'
    <3>1. outcome' \notin {"submitted", "timed_out"} /\ pc' \in {"tracing", "over"}
      BY <2>1, <2>2 DEF Inv, Placed
    <3> QED BY <3>1 DEF Timed
  <2>5. Placed'
    <3>1. /\ pc' \in {"tracing", "over"} /\ outcome' = outcome
          /\ outcome = "timed_out" => pc' = "over"
      BY <2>1 DEF Inv, Placed
    <3> QED BY <2>2, <3>1 DEF Placed
  <2>6. Heard' /\ Told'
    BY <1>0, <2>1, <2>2, SMT DEF Inv, Heard, Told, NoReply
  <2> QED BY <2>3, <2>4, <2>5, <2>6 DEF Inv
<1> QED BY <1>1, <1>2, <1>3, <1>4, <1>5, <1>6, <1>7, <1>8, <1>9, <1>10 DEF RunStep

LEMMA StepKeeps == Inv /\ [Next]_vars => Inv'
<1> SUFFICES ASSUME Inv, [Next]_vars PROVE Inv'
  OBVIOUS
<1>1. CASE UNCHANGED vars
  <2>1. UNCHANGED <<status, published, pc, now, deadline, wake, request, sent, heard, ended,
                    reply, read, outcome, printed, canceller, began, finishedAt>>
    BY <1>1 DEF vars, server, timers, wire, times, output, history
  <2>2. Types' /\ Placed' /\ Heard'
    BY <2>1 DEF Inv, Types, Placed, Heard, Over
  <2>3. Over' <=> Over
    BY <2>1 DEF Over
  <2>4. Timed'
    BY <2>1, <2>3 DEF Inv, Timed, PolledInTime
  <2>5. Told'
    BY <2>1, <2>3 DEF Inv, Told
  <2> QED BY <2>2, <2>4, <2>5 DEF Inv
<1>2. CASE Next
  BY <1>2, RunKeeps, OthersKeep, TickKeeps, ProceedsKeeps DEF Next, Others
<1> QED BY <1>1, <1>2

LEMMA AlwaysInv == Spec => []Inv
BY InitClient, StepKeeps, PTL DEF Spec

\* What run says of the end of its task is true and stays true: no later step of the
\* worker or of another user gives the task another end.
THEOREM ReportsStand == Spec => []ReportsTruth
<1>1. Inv => ReportsTruth
  BY SMT DEF Inv, Heard, ReportsTruth
<1> QED BY <1>1, AlwaysInv, PTL

\* And so is what another user is told who cancels it.
THEOREM CancelsAgree == Spec => []CancelTold
<1>1. Inv => CancelTold
  BY SMT DEF Inv, Heard, Told, CancelTold, Over
<1> QED BY <1>1, AlwaysInv, PTL

LEMMA TimesAreNumbers ==
  Inv => /\ Poll \in Nat /\ Timeout \in Nat /\ now \in Nat /\ deadline \in Nat
         /\ sent \in Nat /\ ended \in Nat /\ began \in Nat /\ finishedAt \in Nat
         /\ sent <= now /\ ended <= now
BY ClientAssumption DEF Inv, Types

\* The wait is over in time: what it lasts longer than the timeout is one poll interval and
\* the poll that was under way then, however long each operation of a request takes.
THEOREM WaitsInTime == Spec => []WaitBounded
<1>1. Inv => WaitBounded
  <2> SUFFICES ASSUME Inv, outcome = "submitted"
               PROVE  now <= began + Timeout + Poll + Span
    BY DEF WaitBounded
  <2>1. deadline = began + Timeout
    BY DEF Inv, Timed
  <2>2. CASE pc = "asking"
    <3>1. sent <= deadline /\ Span = now - sent
      BY <2>2 DEF Inv, Timed, Span
    <3> QED BY <2>1, <3>1, TimesAreNumbers, SMT
  <2>3. CASE pc # "asking"
    <3>1. Span = ended - sent
      BY <2>3 DEF Span
    <3>2. \/ sent <= now /\ now = ended /\ now <= deadline
          \/ sent <= deadline /\ now <= ended + Poll
      <4>1. CASE pc = "check"
        <5>1. ended + Poll <= ended + Poll
          BY TimesAreNumbers, SMT
        <5> QED BY <4>1, <5>1 DEF Inv, Timed, PolledInTime
      <4>2. CASE pc = "sleeping"
        BY <4>2 DEF Inv, Timed, PolledInTime
      <4>3. CASE pc = "report"
        <5>1. sent <= deadline /\ now = ended
          BY <4>3 DEF Inv, Timed
        <5> QED BY <5>1, TimesAreNumbers, SMT
      <4> QED BY <2>3, <4>1, <4>2, <4>3 DEF Inv, Placed
    <3> QED BY <2>1, <3>1, <3>2, TimesAreNumbers, SMT
  <2> QED BY <2>2, <2>3
<1> QED BY <1>1, AlwaysInv, PTL

\* And it is not over too early: "timed_out" is never said of a task that was finished
\* before the deadline by a poll interval and the time that the last poll took.
THEOREM TimelyIsTold == Spec => []TimelyIsReported
<1>1. Inv => TimelyIsReported
  <2> SUFFICES ASSUME Inv, outcome = "timed_out", Over
               PROVE  finishedAt + Poll + Span > began + Timeout
    BY DEF TimelyIsReported, Over
  <2>1. deadline = began + Timeout /\ deadline + sent < finishedAt + Poll + ended
    BY DEF Inv, Timed
  <2>2. Span = ended - sent
    BY DEF Inv, Placed, Span
  <2> QED BY <2>1, <2>2, TimesAreNumbers, SMT
<1> QED BY <1>1, AlwaysInv, PTL

\* A run is refused exactly when the daemon has a token and its own is another, blanks
\* around them aside, and it then leaves no task behind.
THEOREM RefusedRightly == Spec => []RefusedByRight
<1> DEFINE Differ == Strip(daemonEnv) # <<>> /\ Strip(daemonEnv) # Strip(clientEnv)
           Kept == /\ reply.code = 401 => Differ
                   /\ outcome = "refused" => Differ
                   /\ Differ => /\ outcome \in {"none", "refused", "error"}
                                /\ status[Task] = "absent"
                                /\ canceller = "idle"
                                /\ reply.code \notin {200, 201}
                                /\ pc \in {"start", "posting", "over"}
<1>0. Admits(clientEnv) <=> ~Differ
  BY DEF Admits, Token, Sent
<1>1. Init => Kept
  <2>1. Init => status[Task] = "absent"
    BY DEF Init, Server!Init
  <2> QED BY <2>1, SMT DEF Init, NoReply
<1>2. Inv /\ Kept /\ [Next]_vars => Kept'
  <2> SUFFICES ASSUME Inv, Kept, [Next]_vars PROVE Kept'
    OBVIOUS
  <2>1. Differ' <=> Differ
    BY DEF Next, vars, options, RunStep, DaemonStep, CancelStep, Proceeds, Tick, Post, Submitted,
      TimedOut, Ask, Polled, Wake, RequestFails, Report, Fetched, Trace, Traced,
      Refuse, ServerError,
      HandlePost, HandleGet, HandleFile, Work, CancelSends, HandleDelete, DeleteFails
  <2>2. CASE UNCHANGED vars
    BY <2>1, <2>2 DEF vars, server, wire, output
  <2>3. CASE Tick \/ Proceeds
    BY <2>1, <2>3 DEF Tick, Proceeds, server, wire, output
  <2>4. CASE DaemonStep
    <3>1. CASE Refuse
      BY <1>0, <2>1, <3>1, SMT DEF Refuse, Reply, server, output
    <3>2. CASE ServerError \/ HandlePost \/ HandleGet \/ HandleFile
      <4>1. Admits(clientEnv) /\ UNCHANGED outcome /\ reply'.code # 401
        BY <3>2, SMT DEF ServerError, HandlePost, HandleGet, HandleFile, Reply, output
      <4> QED BY <1>0, <2>1, <4>1
    <3>3. CASE Work
      <4>1. status[Task] # "absent"
        BY <3>3, SMT DEF Work, Server!Claim, Server!Publish, Server!Finish, Server!Fail, Server!Move
      <4> QED BY <2>1, <3>3, <4>1 DEF Work, wire, output
    <3> QED BY <2>4, <3>1, <3>2, <3>3 DEF DaemonStep
  <2>5. CASE CancelStep
    <3>1. ~Differ /\ UNCHANGED <<reply, outcome>>
      BY <2>5, SMT DEF CancelStep, CancelSends, HandleDelete, DeleteFails, wire, output
    <3> QED BY <2>1, <3>1
  <2>6. CASE RunStep
    <3>1. UNCHANGED status /\ UNCHANGED canceller
      BY <2>6, RunSteps
    <3>2. CASE Post
      BY <2>1, <3>1, <3>2, SMT DEF Post, Send, output, NoReply
    <3>3. CASE RequestFails
      BY <2>1, <3>1, <3>3, SMT DEF RequestFails, Tell, Leave, NoReply
    <3>4. CASE RunStep /\ ~Post /\ ~RequestFails
      <4>1. pc \in {"check", "asking", "sleeping", "report", "fetching", "trace", "tracing"}
            \/ reply.code = 201
        BY <3>4 DEF RunStep, Submitted, TimedOut, Ask, Polled, Wake, Report, Fetched, Trace, Traced
      <4>2. ~Differ /\ reply.code # 401 /\ outcome # "refused"
        BY <4>1
      <4>3. reply' = reply \/ reply' = NoReply
        BY <3>4 DEF RunStep, Submitted, TimedOut, Ask, Polled, Wake, Report, Fetched, Trace, Traced,
          Send, Goto, Leave, wire
      <4>4. reply'.code # 401
        BY <4>2, <4>3, SMT DEF NoReply
      <4>5. outcome' # "refused"
        <5>1. CASE Report
          BY <5>1 DEF Report, Tell, Inv, Heard, Terminal
        <5>2. CASE ~Report
          BY <3>4, <4>2, <5>2 DEF RunStep, Submitted, TimedOut, Ask, Polled, Wake, Fetched, Trace,
            Traced, Tell, output
        <5> QED BY <5>1, <5>2
      <4> QED BY <2>1, <4>2, <4>4, <4>5
    <3> QED BY <2>6, <3>2, <3>3, <3>4
  <2> QED BY <2>2, <2>3, <2>4, <2>5, <2>6 DEF Next
<1>3. Kept => RefusedByRight
  BY DEF RefusedByRight
<1> HIDE DEF Kept
<1> QED BY <1>1, <1>2, <1>3, InitClient, StepKeeps, PTL DEF Spec

=============================================================================
