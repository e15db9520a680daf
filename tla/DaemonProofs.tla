---------------------------- MODULE DaemonProofs ----------------------------
(***************************************************************************)
(* Theorems about Daemon, for every set of tasks and handler threads,      *)
(* every number of boots, with and without disk faults.                    *)
(***************************************************************************)
EXTENDS Daemon, TLAPS

-----------------------------------------------------------------------------
(* Types.  A storage write makes a row only for the statements it knows,   *)
(* so the type invariant needs to know where each thread is.               *)

\* What a thread holds at each place, handlers and worker apart.
Placed ==
  /\ \A h \in Handlers :
       /\ pc[h] \in HandlerPc
       /\ pc[h] \in TxPc => task[h] \in Tasks /\ sql[h] = "insert"
       /\ pc[h] = "cancel" => task[h] \in Tasks
  /\ pc[Worker] \in WorkerPc
  /\ pc[Worker] \in TxPc => task[Worker] \in Tasks /\ sql[Worker] \in {"model", "result_path"}
  /\ pc[Worker] \in {"fetch", "load", "agent", "nack", "persist", "ack"} => task[Worker] \in Tasks
  /\ phase = "down" => boots < MaxBoots /\ pc[Worker] = "off"

LEMMA RowTypes ==
  /\ AbsentRow \in Row
  /\ \A r \in Row, s \in Status : [r EXCEPT !.status = s] \in Row
  /\ \A r \in Row : [r EXCEPT !.result_path = TRUE] \in Row
<1>1. AbsentRow \in Row
  BY SMT DEF Row, AbsentRow
<1>2. \A r \in Row, s \in Status : [r EXCEPT !.status = s] \in Row
  BY SMT DEF Row
<1>3. \A r \in Row : [r EXCEPT !.result_path = TRUE] \in Row
  BY Zenon DEF Row
<1> QED BY <1>1, <1>2, <1>3

LEMMA WrittenType ==
  ASSUME TypeOK, NEW th \in Threads, task[th] \in Tasks,
         sql[th] \in {"insert", "model", "result_path"}
  PROVE  Written(th) \in Row
<1>1. view[task[th]] \in Row
  BY DEF TypeOK
<1>2. CASE sql[th] = "insert"
  BY <1>2, RowTypes DEF Written, Status
<1>3. CASE sql[th] = "model"
  BY <1>1, <1>3 DEF Written
<1>4. CASE sql[th] = "result_path"
  BY <1>1, <1>4, RowTypes DEF Written
<1> QED BY <1>2, <1>3, <1>4

\* The tables and the transaction flag have their types.
DbTypes ==
  /\ rows \in [Tasks -> Row] /\ view \in [Tasks -> Row] /\ queue \in [Tasks -> Row]
  /\ inTx \in BOOLEAN

LEMMA SetStatusTypes ==
  ASSUME TypeOK, NEW t \in Tasks, NEW s \in Status,
         SetStatus(t, s) \/ (\E from : SetStatusWhere(t, from, s))
  PROVE  DbTypes'
<1>1. CASE UNCHANGED db
  BY <1>1, Zenon DEF db, TypeOK, DbTypes
<1>2. CASE SetStatus(t, s)
  <2>1. [queue[t] EXCEPT !.status = s] \in Row
    BY RowTypes DEF TypeOK
  <2>2. queue' = [queue EXCEPT ![t] = [queue[t] EXCEPT !.status = s]]
    BY <1>2 DEF SetStatus
  <2>3. queue' \in [Tasks -> Row]
    BY <2>1, <2>2 DEF TypeOK
  <2>4. rows' \in [Tasks -> Row] /\ view' \in [Tasks -> Row]
    BY <1>2, <2>3, Zenon DEF SetStatus, TypeOK
  <2>5. inTx' \in BOOLEAN
    BY <1>2, Zenon DEF SetStatus, TypeOK
  <2> QED BY <2>3, <2>4, <2>5 DEF DbTypes
<1> QED BY <1>1, <1>2 DEF SetStatusWhere

LEMMA CommitTypes == ASSUME TypeOK, CommitQueue PROVE DbTypes'
<1>1. rows' \in [Tasks -> Row] /\ view' \in [Tasks -> Row]
  BY DEF CommitQueue, TypeOK
<1>2. queue' \in [Tasks -> Row] /\ inTx' \in BOOLEAN
  BY Zenon DEF CommitQueue, TypeOK
<1> QED BY <1>1, <1>2 DEF DbTypes

LEMMA InitTypes == Init => TypeOK /\ Placed
<1> SUFFICES ASSUME Init PROVE TypeOK /\ Placed
  OBVIOUS
<1>1. DbTypes
  <2>1. rows \in [Tasks -> Row] /\ view \in [Tasks -> Row] /\ queue \in [Tasks -> Row]
    BY RowTypes, SMT DEF Init
  <2>2. inTx \in BOOLEAN
    BY Zenon DEF Init
  <2> QED BY <2>1, <2>2 DEF DbTypes
<1>2. pc \in [Threads -> HandlerPc \cup WorkerPc]
  BY SMT DEF Init, HandlerPc, WorkerPc
<1>3. /\ sql \in [Threads -> {"none", "insert", "model", "result_path"}]
      /\ task \in [Threads -> Tasks \cup {NoTask}]
      /\ created \in [Tasks -> Nat] /\ clock \in Nat /\ starts \in [Tasks -> Nat]
      /\ life \in [Tasks -> 0 .. MaxBoots]
  BY DaemonAssumption, SMT DEF Init
<1>4. /\ result \in [Tasks -> ResultFile] /\ told \in [Tasks -> SUBSET Answer]
      /\ seen \in [Tasks -> Status \cup {"absent", "unseen"}]
  BY SMT DEF Init, ResultFile
<1>5. /\ boots \in 1 .. MaxBoots
      /\ phase \in {"up", "stopping", "queue_closed", "closed", "down"}
  BY DaemonAssumption, SMT DEF Init
<1>6. Placed
  BY DaemonAssumption, SMT DEF Init, Placed, Threads, HandlerPc, WorkerPc, TxPc
<1> QED BY <1>1, <1>2, <1>3, <1>4, <1>5, <1>6, Zenon DEF TypeOK, DbTypes

LEMMA TxTypes ==
  ASSUME TypeOK, Placed, NEW th \in Threads, TxStep(th)
  PROVE  TypeOK' /\ Placed'
<1>1. CASE Begin(th)
  BY <1>1, DaemonAssumption, SMT
  DEF Begin, Goto, TypeOK, Placed, Threads, HandlerPc, WorkerPc, TxPc, history, claims, process
<1>2. CASE BeginRaises(th)
  BY <1>2, DaemonAssumption, SMT
  DEF BeginRaises, Raise, Leave, Call, Tell, TypeOK, Placed, Threads, HandlerPc, WorkerPc,
      TxPc, Answer, process, db, claims
<1>3. CASE Exec(th)
  <2>1. task[th] \in Tasks /\ sql[th] \in {"insert", "model", "result_path"}
    BY <1>3, DaemonAssumption, SMT DEF Exec, Placed, Threads, TxPc
  <2>2. Written(th) \in Row
    BY <2>1, WrittenType
  <2>3. DbTypes'
    BY <1>3, <2>2, Zenon DEF Exec, TypeOK, DbTypes
  <2>4. pc[th] = "exec" /\ Goto(th, "commit")
        /\ UNCHANGED <<created, clock, result, process, history>>
    BY <1>3 DEF Exec
  <2> QED BY <2>3, <2>4, DaemonAssumption, SMT
    DEF DbTypes, Goto, TypeOK, Placed, Threads, HandlerPc, WorkerPc, TxPc, history, claims, process
<1>4. CASE Commit(th)
  <2>1. DbTypes'
    BY <1>4, Zenon DEF Commit, TypeOK, DbTypes
  <2>2. /\ pc[th] = "commit"
        /\ IF th = Worker
           THEN /\ Call(th, IF sql[th] = "model" THEN "agent" ELSE "ack", "none", task[th])
                /\ UNCHANGED told
           ELSE Leave(th, "idle") /\ Tell(task[th], "created")
        /\ UNCHANGED <<created, clock, result, process, claims, seen>>
    BY <1>4 DEF Commit
  <2> QED BY <2>1, <2>2, DaemonAssumption, SMT
    DEF DbTypes, Leave, Call, Tell, TypeOK, Placed, Threads, HandlerPc, WorkerPc, TxPc,
        Answer, process, claims
<1>5. CASE TxRaises(th)
  <2>1. DbTypes'
    BY <1>5, Zenon DEF TxRaises, TypeOK, DbTypes
  <2>2. /\ pc[th] \in {"exec", "commit"} /\ Raise(th)
        /\ UNCHANGED <<created, clock, result, process, claims, seen>>
    BY <1>5 DEF TxRaises
  <2> QED BY <2>1, <2>2, DaemonAssumption, SMT
    DEF DbTypes, Raise, Leave, Call, Tell, TypeOK, Placed, Threads, HandlerPc, WorkerPc,
        TxPc, Answer, process, claims
<1> QED BY <1>1, <1>2, <1>3, <1>4, <1>5 DEF TxStep

LEMMA RequestTypes ==
  ASSUME TypeOK, Placed, NEW h \in Handlers,
         ListTasks(h) \/ (\E t \in Tasks : Request(h, t))
  PROVE  TypeOK' /\ Placed'
<1>1. CASE ListTasks(h)
  <2>1. seen' \in [Tasks -> Status \cup {"absent", "unseen"}]
    BY <1>1, SMT DEF ListTasks, TypeOK, Row
  <2>2. UNCHANGED <<db, created, clock, result, threads, process, claims, told>>
    BY <1>1 DEF ListTasks
  <2> QED BY <2>1, <2>2 DEF TypeOK, Placed, db, threads, process, claims
<1>2. ASSUME NEW t \in Tasks, CreateTask(h, t)
      PROVE  TypeOK' /\ Placed'
  BY <1>2, DaemonAssumption, SMT
  DEF CreateTask, Call, TypeOK, Placed, Threads, HandlerPc, WorkerPc, TxPc, ResultFile,
      db, process, history, claims
<1>3. ASSUME NEW t \in Tasks, GetTask(h, t)
      PROVE  TypeOK' /\ Placed'
  BY <1>3, SMT DEF GetTask, TypeOK, Placed, Row, db, threads, process, claims
<1>4. ASSUME NEW t \in Tasks, GetResult(h, t)
      PROVE  TypeOK' /\ Placed'
  BY <1>4, SMT DEF GetResult, Tell, Answer, TypeOK, Placed, db, threads, process, claims
<1>5. ASSUME NEW t \in Tasks, CancelTask(h, t)
      PROVE  TypeOK' /\ Placed'
  BY <1>5, DaemonAssumption, SMT
  DEF CancelTask, Call, TypeOK, Placed, Threads, HandlerPc, WorkerPc, TxPc, db, process,
      history, claims
<1> QED BY <1>1, <1>2, <1>3, <1>4, <1>5 DEF Request

LEMMA CancelTypes ==
  ASSUME TypeOK, Placed, NEW h \in Handlers, QueueCancel(h) \/ CancelRaises(h)
  PROVE  TypeOK' /\ Placed'
<1>1. CASE QueueCancel(h)
  <2>1. task[h] \in Tasks
    BY <1>1 DEF QueueCancel, Placed
  <2>2. DbTypes'
    BY <1>1, <2>1, SetStatusTypes DEF QueueCancel, Status, Terminal
  <2>3. /\ Leave(h, "idle")
        /\ Tell(task[h], "cancelled") \/ UNCHANGED told
        /\ UNCHANGED <<created, clock, result, process, claims, seen>>
    BY <1>1 DEF QueueCancel
  <2> QED BY <2>1, <2>2, <2>3, DaemonAssumption, SMT
    DEF DbTypes, Leave, Call, Tell, Answer, TypeOK, Placed, Threads, HandlerPc, WorkerPc,
        TxPc, process, claims
<1>2. CASE CancelRaises(h)
  BY <1>2, DaemonAssumption, SMT
  DEF CancelRaises, Leave, Call, TypeOK, Placed, Threads, HandlerPc, WorkerPc, TxPc, db,
      process, history, claims
<1> QED BY <1>1, <1>2

LEMMA WorkerTypes ==
  ASSUME TypeOK, Placed, WorkerStep \/ WriteFails \/ (\E f \in {"file", "dir"} : AgentWrites(f))
  PROVE  TypeOK' /\ Placed'
<1>1. CASE ClaimNext
  <2>1. PICK t \in Tasks : /\ queue' = [queue EXCEPT ![t].status = "running"]
                           /\ Call(Worker, "fetch", "none", t)
    BY <1>1 DEF ClaimNext, Claimable
  <2>2. [queue[t] EXCEPT !.status = "running"] \in Row
    BY RowTypes DEF TypeOK, Status
  <2>3. queue' \in [Tasks -> Row]
    BY <2>1, <2>2 DEF TypeOK
  <2>4. /\ pc[Worker] = "poll"
        /\ UNCHANGED <<rows, view, inTx, created, clock, result, process, history>>
    BY <1>1 DEF ClaimNext
  <2>5. DbTypes'
    BY <2>3, <2>4, Zenon DEF DbTypes, TypeOK
  <2> QED BY <2>1, <2>4, <2>5, DaemonAssumption, SMT
    DEF DbTypes, Call, TypeOK, Placed, Threads, HandlerPc, WorkerPc, TxPc, process, history, claims
<1>9. CASE Fetch
  <2>1. DbTypes'
    BY <1>9, CommitTypes DEF Fetch
  <2>2. /\ pc[Worker] = "fetch" /\ task[Worker] \in Tasks
        /\ starts' = [starts EXCEPT ![task[Worker]] = @ + 1]
        /\ life' = [life EXCEPT ![task[Worker]] = boots]
        /\ Goto(Worker, "load")
        /\ UNCHANGED <<created, clock, result, process, told, seen>>
    BY <1>9 DEF Fetch, Placed
  <2>3. starts' \in [Tasks -> Nat] /\ life' \in [Tasks -> 0 .. MaxBoots]
    BY <2>2, SMT DEF TypeOK
  <2>4. /\ pc[Worker] = "fetch" /\ task[Worker] \in Tasks /\ Goto(Worker, "load")
        /\ UNCHANGED <<created, clock, result, process, told, seen>>
    BY <2>2
  <2> QED BY <2>1, <2>3, <2>4, DaemonAssumption, SMT
    DEF DbTypes, Goto, TypeOK, Placed, Threads, HandlerPc, WorkerPc, TxPc, process
<1>2. CASE ClaimNothing
  BY <1>2 DEF ClaimNothing, vars, db, threads, process, history, claims, TypeOK, Placed
<1>3. CASE StopPolling \/ WorkerRaises \/ WriteFails
  <2>1. DbTypes'
    <3>1. CASE StopPolling
      BY <3>1, Zenon DEF StopPolling, db, TypeOK, DbTypes
    <3>2. CASE WorkerRaises
      BY <3>2, CommitTypes DEF WorkerRaises
    <3>3. CASE WriteFails
      BY <3>3, Zenon DEF WriteFails, TypeOK, DbTypes
    <3> QED BY <1>3, <3>1, <3>2, <3>3
  <2>2. /\ Leave(Worker, "stopped") \/ Leave(Worker, "dead")
        /\ UNCHANGED <<created, clock, result, process, history>>
    BY <1>3, Zenon DEF StopPolling, WorkerRaises, WriteFails
  <2>3. phase # "down"
    BY <1>3, SMT DEF StopPolling, WorkerRaises, WriteFails, Placed
  <2> QED BY <2>1, <2>2, <2>3, DaemonAssumption, SMT
    DEF DbTypes, Leave, Call, TypeOK, Placed, Threads, HandlerPc, WorkerPc, TxPc, process,
        history, claims
<1>4. CASE LoadTask \/ AgentEnds
  BY <1>4, DaemonAssumption, SMT
  DEF LoadTask, AgentEnds, Goto, Call, TypeOK, Placed, Threads, HandlerPc, WorkerPc, TxPc,
      db, process, history, claims
<1>5. CASE PersistResult
  BY <1>5, DaemonAssumption, SMT
  DEF PersistResult, Call, TypeOK, Placed, Threads, HandlerPc, WorkerPc, TxPc, ResultFile,
      db, process, history, claims
<1>6. ASSUME NEW f \in {"file", "dir"}, AgentWrites(f)
      PROVE  TypeOK' /\ Placed'
  BY <1>6, SMT DEF AgentWrites, TypeOK, Placed, ResultFile, db, threads, process, history, claims
<1>7. CASE Ack \/ Nack
  <2>1. task[Worker] \in Tasks
    BY <1>7 DEF Ack, Nack, Placed
  <2>2. DbTypes'
    BY <1>7, <2>1, SetStatusTypes DEF Ack, Nack, Status, Terminal
  <2>3. /\ pc[Worker] \in {"ack", "nack"} /\ Leave(Worker, "poll")
        /\ UNCHANGED <<created, clock, result, process, history>>
    BY <1>7 DEF Ack, Nack
  <2> QED BY <2>2, <2>3, DaemonAssumption, SMT
    DEF DbTypes, Leave, Call, TypeOK, Placed, Threads, HandlerPc, WorkerPc, TxPc, process,
        history, claims
<1>8. CASE TxStep(Worker)
  BY <1>8, TxTypes DEF Threads
<1> QED BY <1>1, <1>2, <1>3, <1>4, <1>5, <1>6, <1>7, <1>8, <1>9 DEF WorkerStep

LEMMA ProcessTypes ==
  ASSUME TypeOK, Placed, ProcessStep
  PROVE  TypeOK' /\ Placed'
<1>1. CASE StopWorker \/ CloseQueue
  <2>1. DbTypes'
    <3>1. CommitQueue \/ UNCHANGED db
      BY <1>1, Zenon DEF StopWorker, CloseQueue
    <3> QED BY <3>1, CommitTypes, Zenon DEF db, TypeOK, DbTypes
  <2>2. /\ phase' \in {"stopping", "queue_closed"}
        /\ UNCHANGED <<created, clock, result, threads, boots, history>>
    BY <1>1, Zenon DEF StopWorker, CloseQueue
  <2> QED BY <2>1, <2>2 DEF DbTypes, TypeOK, Placed, threads, history, claims
<1>2. CASE CloseStorage
  <2>1. DbTypes'
    BY <1>2, Zenon DEF CloseStorage, TypeOK, DbTypes
  <2>2. phase' = "closed" /\ UNCHANGED <<created, clock, result, threads, boots, history>>
    BY <1>2 DEF CloseStorage
  <2> QED BY <2>1, <2>2 DEF DbTypes, TypeOK, Placed, threads, history, claims
<1>3. CASE Die
  <2>1. DbTypes'
    BY <1>3, Zenon DEF Die, TypeOK, DbTypes
  <2>2. /\ phase' = "down" /\ boots < MaxBoots
        /\ pc' = [th \in Threads |-> "off"]
        /\ sql' = [th \in Threads |-> "none"]
        /\ task' = [th \in Threads |-> NoTask]
        /\ UNCHANGED <<created, clock, result, boots, history>>
    BY <1>3, Zenon DEF Die
  <2> QED BY <2>1, <2>2, DaemonAssumption, SMT
    DEF DbTypes, TypeOK, Placed, Threads, HandlerPc, WorkerPc, TxPc, history, claims
<1>4. CASE Boot
  BY <1>4, DaemonAssumption, SMT
  DEF Boot, TypeOK, Placed, Threads, HandlerPc, WorkerPc, TxPc, db, history, claims
<1> QED BY <1>1, <1>2, <1>3, <1>4 DEF ProcessStep

LEMMA StepTypes ==
  ASSUME TypeOK, Placed, [Next]_vars
  PROVE  TypeOK' /\ Placed'
<1>1. ASSUME NEW h \in Handlers, HandlerStep(h) \/ CancelRaises(h)
      PROVE  TypeOK' /\ Placed'
  BY <1>1, TxTypes, CancelTypes DEF HandlerStep, Threads
<1>2. CASE UNCHANGED vars
  BY <1>2 DEF vars, db, threads, process, history, claims, TypeOK, Placed
<1> QED BY <1>1, <1>2, RequestTypes, WorkerTypes, ProcessTypes DEF Next

\* Every variable keeps to its type, and every thread has a task and a statement
\* at hand wherever its code uses them.
THEOREM TypeCorrect == Spec => [](TypeOK /\ Placed)
<1>1. Init => TypeOK /\ Placed
  BY InitTypes
<1>2. TypeOK /\ Placed /\ [Next]_vars => TypeOK' /\ Placed'
  BY StepTypes
<1> QED BY <1>1, <1>2, PTL DEF Spec

-----------------------------------------------------------------------------
(* Transactions.  Only _tx itself enters and leaves its three statements;  *)
(* closing the connection or the process ends the transaction with it.     *)

TxInv == TxExclusive /\ (phase \in {"closed", "down"} => ~inTx)

\* A step outside _tx and of a running process leaves all transactions alone.
LEMMA OutsideTx ==
  ASSUME TypeOK, Placed,
         \/ \E h \in Handlers : \/ QueueCancel(h) \/ CancelRaises(h) \/ ListTasks(h)
                                \/ \E t \in Tasks : Request(h, t)
         \/ \E f \in {"file", "dir"} : AgentWrites(f)
         \/ WorkerStep /\ ~TxStep(Worker)
         \/ WriteFails
         \/ UNCHANGED vars
  PROVE  /\ \A th \in Threads : Inside(th)' <=> Inside(th)
         /\ UNCHANGED <<inTx, phase>>
<1> USE DaemonAssumption DEF TypeOK, Placed, Inside, Threads, process
<1>1. ASSUME NEW h \in Handlers, QueueCancel(h) \/ CancelRaises(h)
      PROVE  /\ \A th \in Threads : Inside(th)' <=> Inside(th)
             /\ UNCHANGED <<inTx, phase>>
  BY <1>1, SMT DEF QueueCancel, CancelRaises, Leave, Call, SetStatusWhere, SetStatus, db
<1>2. ASSUME NEW h \in Handlers, ListTasks(h)
      PROVE  /\ \A th \in Threads : Inside(th)' <=> Inside(th)
             /\ UNCHANGED <<inTx, phase>>
  BY <1>2 DEF ListTasks, db, threads
<1>3. ASSUME NEW h \in Handlers, NEW t \in Tasks, Request(h, t)
      PROVE  /\ \A th \in Threads : Inside(th)' <=> Inside(th)
             /\ UNCHANGED <<inTx, phase>>
  BY <1>3, SMT
  DEF Request, CreateTask, GetTask, GetResult, CancelTask, Serves, Call, db, threads
<1>4. ASSUME NEW f \in {"file", "dir"}, AgentWrites(f)
      PROVE  /\ \A th \in Threads : Inside(th)' <=> Inside(th)
             /\ UNCHANGED <<inTx, phase>>
  BY <1>4 DEF AgentWrites, db, threads
<1>5. CASE (WorkerStep /\ ~TxStep(Worker)) \/ WriteFails
  <2>1. CASE ClaimNext \/ Fetch
    BY <2>1, SMT DEF ClaimNext, Fetch, CommitQueue, Goto, Call
  <2>2. CASE ClaimNothing
    BY <2>2 DEF ClaimNothing, vars, db, threads
  <2>3. CASE StopPolling \/ WorkerRaises \/ WriteFails
    BY <2>3, SMT DEF StopPolling, WorkerRaises, WriteFails, CommitQueue, Leave, Call, db
  <2>4. CASE LoadTask \/ AgentEnds \/ PersistResult
    BY <2>4, SMT DEF LoadTask, AgentEnds, PersistResult, Goto, Call, db
  <2>5. CASE Ack \/ Nack
    BY <2>5, SMT DEF Ack, Nack, SetStatusWhere, SetStatus, Leave, Call, db
  <2> QED BY <1>5, <2>1, <2>2, <2>3, <2>4, <2>5 DEF WorkerStep
<1>6. CASE UNCHANGED vars
  BY <1>6 DEF vars, db, threads
<1> QED BY <1>1, <1>2, <1>3, <1>4, <1>5, <1>6

LEMMA TxInvTx ==
  ASSUME TypeOK, Placed, TxInv, NEW th \in Threads, TxStep(th)
  PROVE  TxInv'
<1> USE DaemonAssumption
    DEF TypeOK, TxInv, TxExclusive, Inside, StorageOpen, Threads, process
<1>1. CASE Begin(th)
  BY <1>1, SMT DEF Begin, Goto
<1>2. CASE BeginRaises(th)
  BY <1>2, SMT DEF BeginRaises, Raise, Leave, Call, db
<1>3. CASE Exec(th)
  BY <1>3, SMT DEF Exec, Goto
<1>4. CASE Commit(th)
  BY <1>4, SMT DEF Commit, Leave, Call
<1>5. CASE TxRaises(th)
  BY <1>5, SMT DEF TxRaises, Raise, Leave, Call
<1> QED BY <1>1, <1>2, <1>3, <1>4, <1>5 DEF TxStep

LEMMA TxInvProcess ==
  ASSUME TypeOK, Placed, TxInv, ProcessStep
  PROVE  TxInv'
<1> USE DaemonAssumption
    DEF TypeOK, TxInv, TxExclusive, Inside, StorageOpen, Threads
<1>1. CASE StopWorker \/ CloseQueue
  BY <1>1, SMT DEF StopWorker, CloseQueue, CommitQueue, db, threads
<1>2. CASE CloseStorage
  BY <1>2, SMT DEF CloseStorage, threads
<1>3. CASE Die
  BY <1>3, SMT DEF Die
<1>4. CASE Boot
  BY <1>4, SMT DEF Boot, db
<1> QED BY <1>1, <1>2, <1>3, <1>4 DEF ProcessStep

LEMMA TxInvStep ==
  ASSUME TypeOK, Placed, TxInv, [Next]_vars
  PROVE  TxInv'
<1>1. CASE \E th \in Threads : TxStep(th)
  BY <1>1, TxInvTx
<1>2. CASE ProcessStep
  BY <1>2, TxInvProcess
<1>3. CASE ~(\E th \in Threads : TxStep(th)) /\ ~ProcessStep
  <2>1. /\ \A th \in Threads : Inside(th)' <=> Inside(th)
        /\ UNCHANGED <<inTx, phase>>
    BY <1>3, OutsideTx DEF Next, HandlerStep, Threads
  <2> QED BY <2>1 DEF TxInv, TxExclusive, StorageOpen
<1> QED BY <1>1, <1>2, <1>3

\* At most one thread is inside a transaction of the shared connection, and the
\* connection's transaction is open exactly while one is.
THEOREM TransactionsExclude == Spec => []TxExclusive
<1>1. Init => TxInv
  BY DaemonAssumption, SMT DEF Init, TxInv, TxExclusive, Inside, StorageOpen, Threads
<1>2. TypeOK /\ Placed /\ TxInv /\ [Next]_vars => TxInv'
  BY TxInvStep
<1>3. TxInv => TxExclusive
  BY DEF TxInv
<1> QED BY <1>1, <1>2, <1>3, TypeCorrect, PTL DEF Spec

-----------------------------------------------------------------------------
(* The queue's connection.  Its changes are ahead of the committed table   *)
(* while a claim is open, and then nobody else has the write lock.         *)

\* A change that is not committed is a claim or a cancellation.
Ahead(t) ==
  \/ queue[t] = rows[t]
  \/ /\ queue[t].result_path = rows[t].result_path
     /\ \/ rows[t].status = "pending" /\ queue[t].status \in {"running", "cancelled"}
        \/ rows[t].status = "running" /\ queue[t].status = "cancelled"

QueueInv ==
  /\ pc[Worker] # "fetch" \/ inTx => queue = rows
  /\ \A t \in Tasks : Ahead(t)

\* What a statement of the queue does to the row it finds.
LEMMA SetStatusEffect ==
  ASSUME TypeOK, NEW t \in Tasks, NEW s, SetStatus(t, s)
  PROVE  /\ inTx' = inTx
         /\ queue'[t].status = s /\ queue'[t].result_path = queue[t].result_path
         /\ \A u \in Tasks : u # t => queue'[u] = queue[u]
         /\ IF queue = rows THEN rows' = queue' /\ view' = queue' ELSE rows' = rows /\ view' = view
<1>1. queue' = [queue EXCEPT ![t] = [queue[t] EXCEPT !.status = s]]
  BY DEF SetStatus
<1>2. DOMAIN queue = Tasks /\ queue[t] \in Row
  BY DEF TypeOK
<1>3. queue'[t] = [queue[t] EXCEPT !.status = s]
  BY <1>1, <1>2
<1>4. queue'[t].status = s /\ queue'[t].result_path = queue[t].result_path
  BY <1>2, <1>3 DEF Row
<1>5. inTx' = inTx
  BY Zenon DEF SetStatus
<1>6. IF queue = rows THEN rows' = queue' /\ view' = queue' ELSE rows' = rows /\ view' = view
  BY Zenon DEF SetStatus, ClaimOpen
<1> QED BY <1>1, <1>2, <1>4, <1>5, <1>6

LEMMA QueueKept ==
  ASSUME QueueInv, UNCHANGED <<rows, queue>>, pc'[Worker] # "fetch" => pc[Worker] # "fetch",
         inTx' => inTx
  PROVE  QueueInv'
BY DEF QueueInv, Ahead

LEMMA QueueCommitted == ASSUME rows' = queue' PROVE QueueInv'
BY DEF QueueInv, Ahead

LEMMA QueueSet ==
  ASSUME TypeOK, QueueInv, ~inTx, NEW t \in Tasks, NEW from \in SUBSET Cancellable, NEW s,
         s = "cancelled" \/ pc[Worker] # "fetch",
         SetStatusWhere(t, from, s), pc[Worker] = "fetch" => pc'[Worker] = "fetch"
  PROVE  QueueInv'
<1>1. CASE UNCHANGED db
  BY <1>1, QueueKept DEF db
<1>2. CASE SetStatus(t, s) /\ queue[t].status \in from
  <2>1. CASE queue = rows
    BY <1>2, <2>1, SetStatusEffect, QueueCommitted
  <2>2. CASE queue # rows
    <3>1. pc[Worker] = "fetch" /\ s = "cancelled"
      BY <2>2 DEF QueueInv
    <3>2. /\ rows' = rows /\ ~inTx'
          /\ queue'[t].status = "cancelled" /\ queue'[t].result_path = queue[t].result_path
          /\ \A u \in Tasks : u # t => queue'[u] = queue[u]
      BY <1>2, <2>2, <3>1, SetStatusEffect
    <3>3. queue[t].status \in {"pending", "running"}
      BY <1>2 DEF Cancellable
    <3>4. Ahead(t)'
      BY <3>2, <3>3 DEF QueueInv, Ahead
    <3>5. \A u \in Tasks : Ahead(u)'
      BY <3>2, <3>4 DEF QueueInv, Ahead
    <3> QED BY <3>1, <3>2, <3>5 DEF QueueInv
  <2> QED BY <2>1, <2>2
<1> QED BY <1>1, <1>2 DEF SetStatusWhere

LEMMA QueueTx ==
  ASSUME TypeOK, Placed, QueueInv, NEW th \in Threads, TxStep(th)
  PROVE  QueueInv'
<1> USE DaemonAssumption DEF Threads
<1>1. CASE Begin(th)
  <2>1. queue = rows /\ rows' = queue'
    BY <1>1 DEF Begin, ClaimOpen
  <2> QED BY <2>1, QueueCommitted
<1>2. CASE BeginRaises(th) \/ TxRaises(th)
  <2>1. UNCHANGED <<rows, queue>> /\ (inTx' => inTx)
    <3>1. CASE BeginRaises(th)
      BY <3>1, Zenon DEF BeginRaises, db
    <3>2. CASE TxRaises(th)
      BY <3>2, Zenon DEF TxRaises
    <3> QED BY <1>2, <3>1, <3>2
  <2>2. pc[th] \in TxPc /\ Raise(th)
    BY <1>2 DEF BeginRaises, TxRaises, TxPc
  <2>3. pc'[Worker] # "fetch" => pc[Worker] # "fetch"
    BY <2>2 DEF Raise, Leave, Call, TypeOK, TxPc
  <2> QED BY <2>1, <2>3, QueueKept
<1>3. CASE Exec(th) \/ Commit(th)
  BY <1>3, QueueCommitted, Zenon DEF Exec, Commit
<1> QED BY <1>1, <1>2, <1>3 DEF TxStep

-----------------------------------------------------------------------------
(* What clients were told.  The answers stay true because a transaction    *)
(* writes back the table it read, apart from its own row, and because an   *)
(* INSERT in progress is the only one for a task that nobody knows yet.    *)

\* The storage connection's view: the committed table, plus the one write of the
\* thread that is about to commit.
Snapshot ==
  /\ ~inTx => view = rows
  /\ \A th \in Threads : pc[th] = "exec" => view = rows
  /\ \A th \in Threads : pc[th] = "commit" /\ inTx =>
       /\ \A t \in Tasks : t # task[th] => view[t] = rows[t]
       /\ view[task[th]].status =
            IF sql[th] = "insert" THEN "pending" ELSE rows[task[th]].status

Unanswered(t) == told[t] \cap {"created", "create_failed"} = {}

\* A task without a workspace is unknown to all, and one whose INSERT is under way
\* is in nobody else's hands.
Fresh ==
  /\ \A t \in Tasks : result[t] = "none" =>
       rows[t].status = "absent" /\ Unanswered(t) /\ \A h \in Handlers : task[h] # t
  /\ \A h \in Handlers : pc[h] \in TxPc =>
       rows[task[h]].status = "absent" /\ Unanswered(task[h])
  /\ \A a, b \in Handlers :
       pc[a] \in TxPc /\ pc[b] \in TxPc /\ task[a] = task[b] => a = b

Inv == TypeOK /\ Placed /\ TxInv /\ QueueInv /\ Snapshot /\ Fresh /\ CreateAnswered

\* Dirty or not, a read shows no row of a task that is unknown or being created.
LEMMA NothingToRead ==
  ASSUME Inv, NEW t \in Tasks,
         \/ result[t] = "none"
         \/ \E h \in Handlers : pc[h] = "begin" /\ task[h] = t
  PROVE  view[t].status = "absent"
<1>1. rows[t].status = "absent"
  BY DEF Inv, Fresh, TxPc
<1>2. CASE view = rows
  BY <1>1, <1>2
<1>3. CASE view # rows
  <2>1. PICK th \in Threads : pc[th] = "commit" /\ inTx
    BY <1>3 DEF Inv, Snapshot, TxInv, TxExclusive, Inside
  <2>2. CASE th = Worker
    BY <1>1, <2>1, <2>2 DEF Inv, Snapshot, Placed, TxPc
  <2>3. CASE th \in Handlers
    <3>1. task[th] # t
      BY <2>1, <2>3 DEF Inv, Fresh, TxPc
    <3> QED BY <1>1, <2>1, <3>1 DEF Inv, Snapshot
  <2> QED BY <2>2, <2>3 DEF Threads
<1> QED BY <1>2, <1>3

LEMMA AnswersTx ==
  ASSUME Inv, NEW th \in Threads, TxStep(th)
  PROVE  Snapshot' /\ Fresh' /\ CreateAnswered'
<1> USE DaemonAssumption
    DEF Inv, TypeOK, Placed, Threads, TxPc, process
<1>1. CASE Begin(th)
  <2>1. /\ pc[th] = "begin" /\ ~inTx /\ inTx' /\ pc' = [pc EXCEPT ![th] = "exec"]
        /\ UNCHANGED <<rows, view, result, sql, task, told>>
    BY <1>1 DEF Begin, Goto, history, claims
  <2>2. \A o \in Threads : ~Inside(o)
    BY <1>1 DEF Begin, TxInv, TxExclusive
  <2>3. Snapshot'
    BY <2>1, <2>2, SMT DEF Snapshot, Inside
  <2>4. Fresh'
    BY <2>1, SMT DEF Fresh, Unanswered
  <2> QED BY <2>1, <2>3, <2>4 DEF CreateAnswered
<1>2. CASE BeginRaises(th)
  <2>1. pc[th] = "begin" /\ UNCHANGED <<rows, view, inTx, result>> /\ Raise(th)
    BY <1>2 DEF BeginRaises, db
  <2>2. Snapshot'
    BY <2>1, SMT DEF Snapshot, Raise, Leave, Call
  <2>3. Fresh'
    BY <2>1, SMT DEF Fresh, Unanswered, Raise, Leave, Call, Tell
  <2>4. th # Worker => view[task[th]].status = "absent" /\ rows[task[th]].status = "absent"
    BY <2>1, NothingToRead DEF Fresh
  <2>5. CreateAnswered'
    BY <2>1, <2>4, SMT
    DEF CreateAnswered, Raise, Leave, Call, Tell
  <2> QED BY <2>2, <2>3, <2>5
<1>3. CASE Exec(th)
  <2>1. inTx /\ UNCHANGED <<rows, inTx, result, sql, task, told>>
    BY <1>3, Zenon DEF Exec, TxInv, TxExclusive, Inside, Goto, history, claims
  <2>2. /\ pc[th] = "exec" /\ pc' = [pc EXCEPT ![th] = "commit"]
        /\ view' = [view EXCEPT ![task[th]] = Written(th)]
    BY <1>3 DEF Exec, Goto
  <2>3. view = rows /\ \A o \in Threads : Inside(o) => o = th
    BY <2>2 DEF Snapshot, TxInv, TxExclusive, Inside
  <2>4. Written(th).status =
          IF sql[th] = "insert" THEN "pending" ELSE rows[task[th]].status
    <3>1. task[th] \in Tasks /\ sql[th] \in {"insert", "model", "result_path"}
      BY <2>2
    <3>2. rows[task[th]] \in Row
      BY <3>1
    <3> QED BY <2>3, <3>1, <3>2 DEF Written, Row, AbsentRow
  <2>5. task[th] \in Tasks
    BY <2>2
  <2>6. Snapshot'
    BY <2>1, <2>2, <2>3, <2>4, <2>5, SMT DEF Snapshot, Inside
  <2>7. Fresh'
    BY <2>1, <2>2, SMT DEF Fresh, Unanswered
  <2>8. CreateAnswered'
    BY <2>1, <2>2, <2>3, <2>4, <2>5, SMT
    DEF CreateAnswered, Fresh, Unanswered
  <2> QED BY <2>6, <2>7, <2>8
<1>4. CASE Commit(th)
  <2>1. /\ pc[th] = "commit" /\ inTx /\ rows' = view /\ view' = view
        /\ UNCHANGED result
    BY <1>4 DEF Commit
  <2>2. ~inTx'
    BY <1>4, Zenon DEF Commit
  <2>3. /\ task[th] \in Tasks
        /\ \A t \in Tasks : t # task[th] => view[t] = rows[t]
        /\ view[task[th]].status =
             IF sql[th] = "insert" THEN "pending" ELSE rows[task[th]].status
    BY <2>1 DEF Snapshot
  <2>4. Snapshot'
    BY <2>1, <2>2 DEF Snapshot
  <2>5. CASE th = Worker
    <3>1. \A t \in Tasks : view[t].status = rows[t].status
      BY <2>1, <2>3, <2>5
    <3>2. /\ told' = told
          /\ \A h \in Handlers : pc'[h] = pc[h] /\ task'[h] = task[h]
      BY <1>4, <2>5, SMT DEF Commit, Call
    <3>3. Fresh'
      BY <1>4, <2>1, <2>5, <3>1, <3>2, SMT DEF Commit, Call, Fresh, Unanswered
    <3>4. CreateAnswered'
      BY <2>1, <3>1, <3>2, SMT DEF CreateAnswered
    <3> QED BY <2>4, <3>3, <3>4
  <2>6. CASE th \in Handlers
    <3>1. /\ told' = [told EXCEPT ![task[th]] = @ \cup {"created"}]
          /\ pc' = [pc EXCEPT ![th] = "idle"] /\ task' = [task EXCEPT ![th] = NoTask]
      BY <1>4, <2>6, SMT DEF Commit, Leave, Call, Tell
    <3>2. view[task[th]].status = "pending"
      BY <2>1, <2>3, <2>6
    <3>3. Fresh'
      BY <2>1, <2>3, <2>6, <3>1, SMT DEF Fresh, Unanswered
    <3>4. rows[task[th]].status = "absent" /\ Unanswered(task[th])
      BY <2>1, <2>6 DEF Fresh
    <3>5. CreateAnswered'
      BY <2>1, <2>3, <3>1, <3>2, <3>4, SMT
      DEF CreateAnswered, Unanswered
    <3> QED BY <2>4, <3>3, <3>5
  <2> QED BY <2>5, <2>6
<1>5. CASE TxRaises(th)
  <2>1. /\ pc[th] \in {"exec", "commit"} /\ view' = rows /\ rows' = rows
        /\ UNCHANGED result /\ Raise(th)
    BY <1>5 DEF TxRaises
  <2>2. ~inTx'
    BY <1>5, Zenon DEF TxRaises
  <2>3. Snapshot'
    BY <2>1, <2>2 DEF Snapshot
  <2>4. Fresh'
    BY <2>1, SMT DEF Fresh, Unanswered, Raise, Leave, Call, Tell
  <2>5. th # Worker => rows[task[th]].status = "absent"
    BY <2>1 DEF Fresh
  <2>6. CreateAnswered'
    BY <2>1, <2>5, SMT
    DEF CreateAnswered, Raise, Leave, Call, Tell
  <2> QED BY <2>3, <2>4, <2>6
<1> QED BY <1>1, <1>2, <1>3, <1>4, <1>5 DEF TxStep

\* What a step outside _tx may do: move the status of live tasks while no transaction
\* is open, one by a statement or several by a commit, and answer a client only what
\* the table bears out.
LiveMoves ==
  /\ inTx' = inTx
  /\ (view' = rows' /\ ~inTx) \/ UNCHANGED <<rows, view>>
  /\ \A t \in Tasks : rows'[t] = rows[t] \/
       (rows[t].status \in Cancellable /\ rows'[t].status \in Status)

LEMMA SetStatusLive ==
  ASSUME TypeOK, QueueInv, ~inTx, NEW t \in Tasks, NEW from \in SUBSET Cancellable,
         NEW s \in Status, SetStatusWhere(t, from, s)
  PROVE  LiveMoves
<1>1. CASE UNCHANGED db
  BY <1>1 DEF db, LiveMoves
<1>2. CASE SetStatus(t, s) /\ queue[t].status \in from
  BY <1>2, SetStatusEffect DEF LiveMoves
<1> QED BY <1>1, <1>2 DEF SetStatusWhere

LEMMA CommitLive ==
  ASSUME QueueInv, ~inTx => view = rows, CommitQueue
  PROVE  LiveMoves
<1>1. /\ rows' = queue /\ inTx' = inTx
      /\ inTx => queue = rows /\ view' = view
      /\ ~inTx => view' = queue
  BY Zenon DEF QueueInv, CommitQueue
<1>2. \A t \in Tasks : rows'[t] = rows[t] \/
        (rows[t].status \in Cancellable /\ rows'[t].status \in Status)
  BY <1>1 DEF QueueInv, Ahead, Cancellable, Status, Terminal
<1> QED BY <1>1, <1>2 DEF LiveMoves

KeepsTransactions == \A th \in Threads :
  pc'[th] \in {"exec", "commit"} =>
    pc'[th] = pc[th] /\ sql'[th] = sql[th] /\ task'[th] = task[th]

KeepsInserts == \A h \in Handlers :
  /\ pc'[h] \in TxPc => pc[h] \in TxPc /\ task'[h] = task[h]
  /\ \A t \in Tasks : task'[h] = t => task[h] = t \/ result[t] # "none"

BearsOut == \A t \in Tasks :
  /\ result'[t] = "none" => result[t] = "none"
  /\ "created" \in told'[t] => "created" \in told[t]
  /\ "create_failed" \in told'[t] => "create_failed" \in told[t]

LEMMA AnswersOutside ==
  ASSUME Inv, UNCHANGED db \/ LiveMoves, KeepsTransactions, KeepsInserts, BearsOut
  PROVE  Snapshot' /\ Fresh' /\ CreateAnswered'
<1>1. LiveMoves
  BY DEF LiveMoves, db
<1>2. \A t \in Tasks : /\ rows[t].status = "absent" => rows'[t] = rows[t] /\ view'[t] = view[t]
                       /\ rows[t].status # "absent" => rows'[t].status # "absent"
  <2>1. ~inTx => view = rows
    BY DEF Inv, Snapshot
  <2> QED BY <1>1, <2>1 DEF LiveMoves, Cancellable, Status, Terminal
<1>3. Snapshot'
  BY <1>1, DaemonAssumption, SMT DEF LiveMoves, Inv, Snapshot, KeepsTransactions
<1>4. Fresh'
  <2>1. \A t \in Tasks : Unanswered(t) /\ rows[t].status = "absent" => Unanswered(t)'
    BY DEF BearsOut, Unanswered
  <2>2. \A t \in Tasks : result'[t] = "none" =>
          rows'[t].status = "absent" /\ Unanswered(t)' /\ \A h \in Handlers : task'[h] # t
    BY <1>2, <2>1 DEF Inv, Fresh, BearsOut, KeepsInserts
  <2>3. ASSUME NEW h \in Handlers, pc'[h] \in TxPc
        PROVE  rows'[task'[h]].status = "absent" /\ Unanswered(task[h])'
    <3>1. pc[h] \in TxPc /\ task'[h] = task[h]
      BY <2>3 DEF KeepsInserts
    <3>2. PICK t \in Tasks : t = task[h]
      BY <3>1 DEF Inv, Placed
    <3>3. rows[t].status = "absent" /\ Unanswered(t)
      BY <3>1, <3>2 DEF Inv, Fresh
    <3>4. rows'[t].status = "absent" /\ Unanswered(t)'
      BY <1>2, <2>1, <3>3
    <3> QED BY <3>1, <3>2, <3>4 DEF Unanswered
  <2>4. \A a, b \in Handlers : pc'[a] \in TxPc /\ pc'[b] \in TxPc /\ task'[a] = task'[b] => a = b
    BY DEF Inv, Fresh, KeepsInserts
  <2> QED BY <2>2, <2>3, <2>4 DEF Fresh, Unanswered, TxPc
<1>5. CreateAnswered'
  BY <1>2 DEF Inv, CreateAnswered, BearsOut
<1> QED BY <1>3, <1>4, <1>5

LEMMA AnswersHandler ==
  ASSUME Inv, NEW h \in Handlers,
         \/ QueueCancel(h) \/ CancelRaises(h) \/ ListTasks(h)
         \/ \E t \in Tasks : Request(h, t)
  PROVE  Snapshot' /\ Fresh' /\ CreateAnswered'
<1> USE DaemonAssumption DEF Threads
<1>1. TypeOK /\ Placed
  BY DEF Inv
<1>2. CASE QueueCancel(h)
  <2>1. /\ pc[h] = "cancel" /\ ~inTx /\ task[h] \in Tasks
        /\ SetStatusWhere(task[h], Cancellable, "cancelled")
        /\ Tell(task[h], "cancelled") \/ UNCHANGED told
        /\ Leave(h, "idle") /\ UNCHANGED result
    BY <1>1, <1>2 DEF QueueCancel, Placed
  <2>2. LiveMoves
    BY <1>1, <2>1, SetStatusLive DEF Inv, Cancellable, Status, Terminal
  <2>3. KeepsTransactions /\ KeepsInserts
    BY <1>1, <2>1, SMT
    DEF KeepsTransactions, KeepsInserts, Leave, Call, TypeOK, TxPc
  <2>4. \A t \in Tasks : told'[t] \subseteq told[t] \cup {"cancelled"}
    BY <1>1, <2>1 DEF Tell, TypeOK
  <2>5. BearsOut
    BY <2>1, <2>4 DEF BearsOut
  <2> QED BY <2>2, <2>3, <2>5, AnswersOutside
<1>3. CASE CancelRaises(h)
  <2>1. KeepsTransactions /\ KeepsInserts
    BY <1>1, <1>3, SMT
    DEF CancelRaises, KeepsTransactions, KeepsInserts, Leave, Call, TypeOK, TxPc
  <2>2. UNCHANGED db
    BY <1>3 DEF CancelRaises
  <2>3. BearsOut
    BY <1>3 DEF CancelRaises, BearsOut, history, claims
  <2> QED BY <2>1, <2>2, <2>3, AnswersOutside
<1>4. CASE ListTasks(h)
  <2>1. UNCHANGED db /\ UNCHANGED threads /\ UNCHANGED <<result, told>>
    BY <1>4 DEF ListTasks
  <2>2. KeepsTransactions /\ KeepsInserts /\ BearsOut
    BY <2>1 DEF KeepsTransactions, KeepsInserts, BearsOut, threads
  <2> QED BY <2>1, <2>2, AnswersOutside
<1>5. ASSUME NEW t \in Tasks, GetTask(h, t) \/ GetResult(h, t)
      PROVE  Snapshot' /\ Fresh' /\ CreateAnswered'
  <2>1. /\ UNCHANGED db /\ UNCHANGED threads /\ UNCHANGED result
        /\ told' = told \/ Tell(t, "result_unreadable")
    BY <1>5 DEF GetTask, GetResult
  <2>2. \A u \in Tasks : told'[u] \subseteq told[u] \cup {"result_unreadable"}
    BY <1>1, <2>1 DEF Tell, TypeOK
  <2>3. BearsOut
    BY <2>1, <2>2 DEF BearsOut
  <2>4. KeepsTransactions /\ KeepsInserts
    BY <2>1 DEF KeepsTransactions, KeepsInserts, threads
  <2> QED BY <2>1, <2>3, <2>4, AnswersOutside
<1>6. ASSUME NEW t \in Tasks, CancelTask(h, t)
      PROVE  Snapshot' /\ Fresh' /\ CreateAnswered'
  <2>1. result[t] # "none"
    BY <1>6, NothingToRead DEF CancelTask, Cancellable
  <2>2. KeepsTransactions /\ KeepsInserts
    BY <1>1, <1>6, <2>1, SMT
    DEF CancelTask, Serves, KeepsTransactions, KeepsInserts, Call, TypeOK, TxPc
  <2>3. UNCHANGED db
    BY <1>6 DEF CancelTask
  <2>4. BearsOut
    BY <1>6 DEF CancelTask, BearsOut, history, claims
  <2> QED BY <2>2, <2>3, <2>4, AnswersOutside
<1>7. ASSUME NEW t \in Tasks, CreateTask(h, t)
      PROVE  Snapshot' /\ Fresh' /\ CreateAnswered'
  <2>1. /\ pc[h] = "idle" /\ result[t] = "none"
        /\ result' = [result EXCEPT ![t] = "empty"]
        /\ pc' = [pc EXCEPT ![h] = "begin"] /\ sql' = [sql EXCEPT ![h] = "insert"]
        /\ task' = [task EXCEPT ![h] = t]
        /\ UNCHANGED <<rows, view, inTx, told>>
    BY <1>7 DEF CreateTask, Serves, Call, db, history, claims
  <2>2. Snapshot'
    BY <1>1, <2>1, SMT DEF Inv, Snapshot, TypeOK
  <2>3. Fresh'
    BY <1>1, <2>1, SMT DEF Inv, Fresh, Unanswered, TypeOK, TxPc
  <2>4. CreateAnswered'
    BY <2>1 DEF Inv, CreateAnswered
  <2> QED BY <2>2, <2>3, <2>4
<1> QED BY <1>2, <1>3, <1>4, <1>5, <1>6, <1>7 DEF Request

LEMMA AnswersWorker ==
  ASSUME Inv,
         \/ WorkerStep /\ ~TxStep(Worker)
         \/ WriteFails
         \/ \E f \in {"file", "dir"} : AgentWrites(f)
  PROVE  Snapshot' /\ Fresh' /\ CreateAnswered'
<1> USE DaemonAssumption DEF Threads
<1>1. TypeOK /\ Placed
  BY DEF Inv
<1>2. /\ told' = told
      /\ \A h \in Handlers : pc'[h] = pc[h] /\ sql'[h] = sql[h] /\ task'[h] = task[h]
      /\ pc'[Worker] \notin {"exec", "commit"} \/ UNCHANGED threads
      /\ \A t \in Tasks : result'[t] = "none" => result[t] = "none"
  <2>1. CASE ClaimNext \/ Fetch
    BY <1>1, <2>1, SMT DEF ClaimNext, Fetch, Goto, Call, TypeOK, history
  <2>2. CASE ClaimNothing
    BY <2>2 DEF ClaimNothing, vars, threads, history
  <2>3. CASE StopPolling \/ WorkerRaises \/ WriteFails
    BY <1>1, <2>3, SMT
    DEF StopPolling, WorkerRaises, WriteFails, Leave, Call, TypeOK, history, claims
  <2>4. CASE LoadTask \/ AgentEnds
    BY <1>1, <2>4, SMT DEF LoadTask, AgentEnds, Goto, Call, TypeOK, history, claims
  <2>5. CASE PersistResult
    BY <1>1, <2>5, SMT DEF PersistResult, Call, TypeOK, history, claims
  <2>6. CASE Ack \/ Nack
    BY <1>1, <2>6, SMT DEF Ack, Nack, Leave, Call, TypeOK, history, claims
  <2>7. CASE \E f \in {"file", "dir"} : AgentWrites(f)
    BY <1>1, <2>7, SMT DEF AgentWrites, TypeOK, threads, history, claims
  <2> QED BY <2>1, <2>2, <2>3, <2>4, <2>5, <2>6, <2>7 DEF WorkerStep
<1>3. UNCHANGED db \/ LiveMoves
  <2>1. CASE ClaimNext \/ WriteFails
    BY <2>1, Zenon DEF ClaimNext, WriteFails, LiveMoves
  <2>2. CASE Fetch \/ WorkerRaises
    <3>1. CommitQueue
      BY <2>2 DEF Fetch, WorkerRaises
    <3> QED BY <3>1, CommitLive DEF Inv, Snapshot
  <2>3. CASE Ack \/ Nack
    <3>1. task[Worker] \in Tasks /\ ~inTx
          /\ \E u \in {"done", "failed"} : SetStatusWhere(task[Worker], {"running"}, u)
      BY <1>1, <2>3 DEF Ack, Nack, Placed
    <3> QED BY <1>1, <3>1, SetStatusLive DEF Inv, Cancellable, Status, Terminal
  <2> QED BY <2>1, <2>2, <2>3
    DEF WorkerStep, ClaimNothing, StopPolling, LoadTask, AgentEnds, PersistResult,
        AgentWrites, vars
<1>4. KeepsTransactions /\ KeepsInserts /\ BearsOut
  BY <1>2 DEF KeepsTransactions, KeepsInserts, BearsOut, threads
<1> QED BY <1>3, <1>4, AnswersOutside

LEMMA AnswersProcess ==
  ASSUME Inv, ProcessStep
  PROVE  Snapshot' /\ Fresh' /\ CreateAnswered'
<1> USE DaemonAssumption DEF Inv, Threads
<1>1. CASE StopWorker \/ CloseQueue
  <2>1. UNCHANGED db \/ LiveMoves
    BY <1>1, CommitLive DEF StopWorker, CloseQueue, Snapshot
  <2>2. KeepsTransactions /\ KeepsInserts /\ BearsOut
    BY <1>1
    DEF StopWorker, CloseQueue, KeepsTransactions, KeepsInserts, BearsOut, threads, history
  <2> QED BY <2>1, <2>2, AnswersOutside
<1>2. ASSUME CloseStorage \/ Die
      PROVE  Snapshot' /\ Fresh' /\ CreateAnswered'
  <2>1. rows' = rows /\ view' = rows /\ result' = result /\ told' = told
    BY <1>2 DEF CloseStorage, Die, history, claims
  <2>2. ~inTx'
    BY <1>2, Zenon DEF CloseStorage, Die
  <2>3. \A h \in Handlers : pc'[h] \in TxPc => pc'[h] = pc[h] /\ task'[h] = task[h]
    BY <1>2 DEF CloseStorage, Die, threads, TxPc
  <2>4. \A h \in Handlers : task'[h] \in {task[h], NoTask}
    BY <1>2 DEF CloseStorage, Die, threads
  <2>5. Fresh'
    BY <2>1, <2>3, <2>4 DEF Fresh, Unanswered
  <2> QED BY <2>1, <2>2, <2>5
    DEF Snapshot, CreateAnswered
<1>3. CASE Boot
  <2>1. KeepsTransactions /\ KeepsInserts
    BY <1>3 DEF Boot, KeepsTransactions, KeepsInserts, TxPc
  <2> QED BY <1>3, <2>1, AnswersOutside DEF Boot, BearsOut, history, claims
<1> QED BY <1>1, <1>2, <1>3 DEF ProcessStep

LEMMA QueueOutside ==
  ASSUME TypeOK, Placed, QueueInv,
         \/ \E h \in Handlers : \/ QueueCancel(h) \/ CancelRaises(h) \/ ListTasks(h)
                                \/ \E t \in Tasks : Request(h, t)
         \/ \E f \in {"file", "dir"} : AgentWrites(f)
         \/ WorkerStep /\ ~TxStep(Worker)
         \/ WriteFails \/ ProcessStep
  PROVE  QueueInv'
<1> USE DaemonAssumption DEF Threads
<1>1. ASSUME NEW h \in Handlers, QueueCancel(h)
      PROVE  QueueInv'
  <2>1. /\ task[h] \in Tasks /\ ~inTx /\ Leave(h, "idle")
        /\ SetStatusWhere(task[h], Cancellable, "cancelled")
    BY <1>1 DEF QueueCancel, Placed
  <2>2. pc[Worker] = "fetch" => pc'[Worker] = "fetch"
    BY <2>1 DEF Leave, Call, TypeOK
  <2> QED BY <2>1, <2>2, QueueSet
<1>2. ASSUME NEW h \in Handlers,
             CancelRaises(h) \/ ListTasks(h) \/ \E t \in Tasks : Request(h, t)
      PROVE  QueueInv'
  <2>1. UNCHANGED <<rows, queue, inTx>>
    BY <1>2, Zenon
    DEF CancelRaises, ListTasks, Request, CreateTask, GetTask, GetResult, CancelTask, db
  <2>2. pc'[Worker] = pc[Worker]
    BY <1>2, SMT DEF CancelRaises, ListTasks, Request, CreateTask, GetTask, GetResult,
      CancelTask, Serves, Leave, Call, TypeOK, threads
  <2> QED BY <2>1, <2>2, QueueKept
<1>3. CASE Ack \/ Nack
  <2>1. /\ task[Worker] \in Tasks /\ ~inTx /\ pc[Worker] # "fetch"
        /\ \E u : SetStatusWhere(task[Worker], {"running"}, u)
    BY <1>3 DEF Ack, Nack, Placed
  <2> QED BY <2>1, QueueSet DEF Cancellable
<1>4. CASE ClaimNext
  <2>1. /\ pc[Worker] = "poll" /\ ~inTx /\ rows' = rows /\ inTx' = inTx
        /\ \E t \in Tasks : /\ queue[t].status = "pending"
                             /\ queue' = [queue EXCEPT ![t].status = "running"]
                             /\ Call(Worker, "fetch", "none", t)
    BY <1>4 DEF ClaimNext, Claimable
  <2>2. queue = rows /\ pc'[Worker] = "fetch"
    BY <2>1 DEF QueueInv, Call, TypeOK
  <2>3. PICK t \in Tasks : /\ rows[t].status = "pending"
                           /\ queue' = [rows EXCEPT ![t].status = "running"]
    BY <2>1, <2>2
  <2>4. rows \in [Tasks -> Row]
    BY DEF TypeOK
  <2>5. queue'[t] = [rows[t] EXCEPT !.status = "running"]
    BY <2>3, <2>4
  <2>6. queue'[t].status = "running" /\ queue'[t].result_path = rows[t].result_path
    BY <2>4, <2>5 DEF Row
  <2>7. \A u \in Tasks : Ahead(u)'
    BY <2>1, <2>3, <2>4, <2>6 DEF Ahead
  <2> QED BY <2>1, <2>2, <2>7 DEF QueueInv
<1>5. CASE Fetch \/ WorkerRaises \/ WriteFails \/ (CloseQueue /\ CommitQueue)
  <2>1. rows' = queue'
    BY <1>5, Zenon DEF Fetch, WorkerRaises, WriteFails, CommitQueue
  <2> QED BY <2>1, QueueCommitted
<1>6. CASE LoadTask \/ AgentEnds \/ PersistResult \/ StopPolling \/ ClaimNothing
  <2>1. UNCHANGED <<rows, queue, inTx>>
    BY <1>6, Zenon DEF LoadTask, AgentEnds, PersistResult, StopPolling, ClaimNothing, db, vars
  <2>2. pc[Worker] # "fetch"
    BY <1>6 DEF LoadTask, AgentEnds, PersistResult, StopPolling, ClaimNothing
  <2>3. queue = rows
    BY <2>2 DEF QueueInv
  <2> QED BY <2>1, <2>3, QueueCommitted
<1>7. ASSUME \/ \E f \in {"file", "dir"} : AgentWrites(f)
             \/ StopWorker \/ CloseStorage \/ (CloseQueue /\ UNCHANGED db)
      PROVE  QueueInv'
  <2>1. CASE CloseStorage
    BY <2>1, QueueKept, Zenon DEF CloseStorage, threads
  <2>2. CASE ~CloseStorage
    <3>1. UNCHANGED <<rows, queue, inTx, pc>>
      BY <1>7, <2>2, Zenon DEF AgentWrites, StopWorker, CloseQueue, db, threads
    <3> QED BY <3>1, QueueKept
  <2> QED BY <2>1, <2>2
<1>8. CASE Die
  <2>1. rows' = queue'
    BY <1>8, Zenon DEF Die
  <2> QED BY <2>1, QueueCommitted
<1>9. CASE Boot
  <2>1. UNCHANGED <<rows, queue, inTx>>
    BY <1>9, Zenon DEF Boot, db
  <2>2. queue = rows
    BY <1>9, Zenon DEF Boot, Placed, QueueInv
  <2> QED BY <2>1, <2>2, QueueCommitted
<1> QED BY <1>1, <1>2, <1>3, <1>4, <1>5, <1>6, <1>7, <1>8, <1>9
  DEF WorkerStep, ProcessStep, CloseQueue

LEMMA InvStep ==
  ASSUME Inv, [Next]_vars
  PROVE  Inv'
<1>1. TypeOK' /\ Placed' /\ TxInv'
  BY StepTypes, TxInvStep DEF Inv
<1>2. ASSUME UNCHANGED vars
      PROVE  QueueInv' /\ Snapshot' /\ Fresh' /\ CreateAnswered'
  <2>1. UNCHANGED db /\ UNCHANGED pc
    BY <1>2 DEF vars, threads
  <2>2. KeepsTransactions /\ KeepsInserts /\ BearsOut
    BY <1>2 DEF vars, threads, history, KeepsTransactions, KeepsInserts, BearsOut
  <2>3. QueueInv'
    BY <2>1, QueueKept DEF Inv, db
  <2> QED BY <2>1, <2>2, <2>3, AnswersOutside
<1>3. ASSUME Next
      PROVE  Snapshot' /\ Fresh' /\ CreateAnswered'
  BY <1>3, AnswersTx, AnswersHandler, AnswersWorker, AnswersProcess
  DEF Next, HandlerStep, WorkerStep, Threads
<1>4. ASSUME Next
      PROVE  QueueInv'
  BY <1>4, QueueTx, QueueOutside DEF Next, HandlerStep, Threads, Inv
<1> QED BY <1>1, <1>2, <1>3, <1>4, Zenon DEF Inv

LEMMA InitInv == Init => Inv
<1> SUFFICES ASSUME Init PROVE Inv
  OBVIOUS
<1>1. TxInv
  BY DaemonAssumption, SMT DEF Init, TxInv, TxExclusive, Inside, StorageOpen, Threads
<1>2. Snapshot /\ Fresh
  BY DaemonAssumption, SMT DEF Init, Snapshot, Fresh, Unanswered, AbsentRow, Threads, TxPc
<1>3. CreateAnswered /\ QueueInv
  BY DEF Init, CreateAnswered, QueueInv, Ahead
<1> QED BY <1>1, <1>2, <1>3, InitTypes DEF Inv

LEMMA AlwaysInv == Spec => []Inv
BY InitInv, InvStep, PTL DEF Spec

\* A POST is all or nothing for its client: 201 is on disk, 500 is never seen.
THEOREM CreatesStand == Spec => []CreateAnswered
<1>1. Inv => CreateAnswered
  BY DEF Inv
<1> QED BY <1>1, AlwaysInv, PTL

-----------------------------------------------------------------------------
(* Cancellations.  No statement changes a cancelled row of the queue's     *)
(* connection; what takes one back is the roll back of an open claim.      *)

\* What becomes of a cancelled row of the queue's connection.
Stands(t) ==
  queue[t].status = "cancelled" =>
    \/ queue'[t].status = "cancelled"
    \/ /\ ClaimOpen /\ rows[t].status # "cancelled"
       /\ pc[Worker] = "fetch" /\ pc'[Worker] \in {"dead", "off"}

\* A cancellation is answered when the connection has it.
ToldRight(t) ==
  "cancelled" \in told'[t] => "cancelled" \in told[t] \/ queue'[t].status = "cancelled"

LEMMA CancelTx ==
  ASSUME Inv, NEW th \in Threads, TxStep(th), NEW t \in Tasks
  PROVE  Stands(t) /\ ToldRight(t)
<1>1. CASE Begin(th) \/ BeginRaises(th) \/ TxRaises(th)
  <2>1. queue' = queue
    BY <1>1, Zenon DEF Begin, BeginRaises, TxRaises, db
  <2>2. told' = told \/ Tell(task[th], "create_failed")
    BY <1>1, Zenon DEF Begin, BeginRaises, TxRaises, Raise, history
  <2>3. told'[t] \subseteq told[t] \cup {"create_failed"}
    BY <2>2 DEF Tell, Inv, TypeOK
  <2> QED BY <2>1, <2>3 DEF Stands, ToldRight
<1>2. CASE Exec(th)
  <2>1. queue' = rows /\ inTx /\ told' = told
    BY <1>2, Zenon DEF Exec, Inv, TxInv, TxExclusive, Inside, history
  <2>2. queue = rows
    BY <2>1 DEF Inv, QueueInv
  <2> QED BY <2>1, <2>2 DEF Stands, ToldRight
<1>3. CASE Commit(th)
  <2>1. /\ pc[th] = "commit" /\ inTx /\ queue' = view
        /\ told' = told \/ Tell(task[th], "created")
    BY <1>3, Zenon DEF Commit
  <2>2. queue = rows
    BY <2>1 DEF Inv, QueueInv
  <2>3. told'[t] \subseteq told[t] \cup {"created"}
    BY <2>1 DEF Tell, Inv, TypeOK
  <2>4. CASE t # task[th]
    BY <2>1, <2>2, <2>3, <2>4 DEF Inv, Snapshot, Stands, ToldRight
  <2>5. CASE t = task[th]
    <3>1. sql[th] = "insert" => rows[t].status = "absent"
      BY <2>1, <2>5 DEF Inv, Placed, Fresh, Threads, TxPc
    <3> QED BY <2>1, <2>2, <2>3, <2>5, <3>1 DEF Inv, Snapshot, Stands, ToldRight
  <2> QED BY <2>4, <2>5
<1> QED BY <1>1, <1>2, <1>3 DEF TxStep

LEMMA CancelStep ==
  ASSUME Inv, Next, NEW t \in Tasks
  PROVE  Stands(t) /\ ToldRight(t)
<1>0. TypeOK /\ Placed /\ QueueInv
  BY DEF Inv
<1>1. ASSUME NEW u \in Tasks, NEW from \in SUBSET Cancellable, NEW s, SetStatusWhere(u, from, s)
      PROVE  Stands(t)
  <2>1. CASE UNCHANGED db
    BY <2>1 DEF db, Stands
  <2>2. CASE SetStatus(u, s) /\ queue[u].status \in Cancellable
    <3>1. t # u => queue'[t] = queue[t]
      BY <1>0, <2>2, SetStatusEffect
    <3> QED BY <2>2, <3>1 DEF Stands, Cancellable
  <2> QED BY <1>1, <2>1, <2>2 DEF SetStatusWhere
<1>2. ASSUME NEW h \in Handlers, QueueCancel(h)
      PROVE  Stands(t) /\ ToldRight(t)
  <2>1. /\ task[h] \in Tasks /\ SetStatusWhere(task[h], Cancellable, "cancelled")
        /\ IF queue[task[h]].status \in Cancellable THEN Tell(task[h], "cancelled")
           ELSE UNCHANGED told
    BY <1>0, <1>2 DEF QueueCancel, Placed
  <2>2. CASE queue[task[h]].status \in Cancellable
    <3>1. queue'[task[h]].status = "cancelled"
      BY <1>0, <2>1, <2>2, SetStatusEffect DEF SetStatusWhere
    <3>2. told' = [told EXCEPT ![task[h]] = @ \cup {"cancelled"}]
      BY <2>1, <2>2 DEF Tell
    <3>3. ToldRight(t)
      BY <1>0, <2>1, <3>1, <3>2 DEF ToldRight, TypeOK
    <3> QED BY <1>1, <2>1, <3>3
  <2>3. CASE queue[task[h]].status \notin Cancellable
    BY <1>1, <2>1, <2>3 DEF ToldRight
  <2> QED BY <2>2, <2>3
<1>3. ASSUME NEW h \in Handlers,
             CancelRaises(h) \/ ListTasks(h) \/ \E u \in Tasks : Request(h, u)
      PROVE  Stands(t) /\ ToldRight(t)
  <2>1. queue' = queue
    BY <1>3, Zenon
    DEF CancelRaises, ListTasks, Request, CreateTask, GetTask, GetResult, CancelTask, db
  <2>2. told' = told \/ \E u \in Tasks : Tell(u, "result_unreadable")
    BY <1>3, Zenon
    DEF CancelRaises, ListTasks, Request, CreateTask, GetTask, GetResult, CancelTask, history
  <2>3. told'[t] \subseteq told[t] \cup {"result_unreadable"}
    BY <1>0, <2>2 DEF Tell, TypeOK
  <2> QED BY <2>1, <2>3 DEF Stands, ToldRight
<1>4. CASE \/ WorkerStep /\ ~TxStep(Worker)
           \/ WriteFails
           \/ \E f \in {"file", "dir"} : AgentWrites(f)
  <2>1. told' = told
    BY <1>4, Zenon DEF WorkerStep, ClaimNext, Fetch, ClaimNothing, StopPolling, LoadTask,
      AgentEnds, PersistResult, Ack, Nack, WorkerRaises, WriteFails, AgentWrites, history, vars
  <2>2. CASE ClaimNext
    <3>1. PICK u \in Tasks : /\ queue[u].status = "pending"
                             /\ queue' = [queue EXCEPT ![u].status = "running"]
      BY <2>2 DEF ClaimNext, Claimable
    <3>2. queue[t].status = "cancelled" => queue'[t] = queue[t]
      BY <1>0, <3>1 DEF TypeOK
    <3> QED BY <2>1, <3>2 DEF Stands, ToldRight
  <2>3. CASE Ack \/ Nack
    <3>1. /\ task[Worker] \in Tasks
          /\ \E s : SetStatusWhere(task[Worker], {"running"}, s)
      BY <1>0, <2>3 DEF Ack, Nack, Placed
    <3> QED BY <1>1, <2>1, <3>1 DEF ToldRight, Cancellable
  <2>4. CASE WriteFails
    <3>1. queue' = rows /\ Leave(Worker, "dead")
      BY <2>4, Zenon DEF WriteFails
    <3>2. pc'[Worker] = "dead"
      BY <1>0, <3>1 DEF Leave, Call, TypeOK, Threads
    <3>3. queue[t] # rows[t] => ClaimOpen /\ pc[Worker] = "fetch"
      BY <1>0 DEF QueueInv, ClaimOpen
    <3> QED BY <2>1, <3>1, <3>2, <3>3 DEF Stands, ToldRight
  <2>5. CASE ~(ClaimNext \/ Ack \/ Nack \/ WriteFails)
    <3>1. queue' = queue
      BY <1>4, <2>5, Zenon DEF WorkerStep, Fetch, ClaimNothing, StopPolling, LoadTask,
        AgentEnds, PersistResult, WorkerRaises, AgentWrites, CommitQueue, db, vars
    <3> QED BY <2>1, <3>1 DEF Stands, ToldRight
  <2> QED BY <2>2, <2>3, <2>4, <2>5
<1>5. CASE ProcessStep
  <2>1. told' = told
    BY <1>5, Zenon
    DEF ProcessStep, StopWorker, CloseQueue, CloseStorage, Die, Boot, history
  <2>2. CASE Die
    <3>1. queue' = rows /\ pc'[Worker] = "off"
      BY <2>2 DEF Die, Threads
    <3>2. queue[t] # rows[t] => ClaimOpen /\ pc[Worker] = "fetch"
      BY <1>0 DEF QueueInv, ClaimOpen
    <3> QED BY <2>1, <3>1, <3>2 DEF Stands, ToldRight
  <2>3. CASE ~Die
    <3>1. queue' = queue
      BY <1>5, <2>3, Zenon
      DEF ProcessStep, StopWorker, CloseQueue, CloseStorage, Boot, CommitQueue, db
    <3> QED BY <2>1, <3>1 DEF Stands, ToldRight
  <2> QED BY <2>2, <2>3
<1> QED BY <1>2, <1>3, <1>4, <1>5, CancelTx DEF Next, HandlerStep, Threads

\* A cancellation that was answered with true stands, whatever the worker does later.
\* It is taken back only by an end of the process, or of the worker's thread, between
\* the two calls of a claim that was open when the cancellation came.
THEOREM CancelsStand == Spec => CancelledStays
<1>1. Inv /\ [Next]_vars =>
        [\A t \in Tasks : "cancelled" \in told'[t] =>
           \/ queue'[t].status = "cancelled"
           \/ "cancelled" \in told[t] /\ queue[t].status # "cancelled"
           \/ /\ ClaimOpen /\ rows[t].status # "cancelled"
              /\ pc[Worker] = "fetch" /\ pc'[Worker] \in {"dead", "off"}]_vars
  BY CancelStep DEF Stands, ToldRight
<1> QED BY <1>1, AlwaysInv, PTL DEF Spec, CancelledStays

=============================================================================
