-------------------------- MODULE DaemonLifeProofs --------------------------
(***************************************************************************)
(* More theorems about Daemon: the life of a task, from its claim to its   *)
(* result, for every set of tasks and handler threads, any number of       *)
(* boots, with and without disk faults; and that it is the life which      *)
(* TaskLifecycle promises.                                                 *)
(***************************************************************************)
EXTENDS DaemonProofs

-----------------------------------------------------------------------------
(* The invariant *)

\* The worker holds a task it has claimed and not settled, whose result is published
\* when it comes to ack and not before; at the other places it holds none.
Hands ==
  /\ Working =>
       /\ rows[task[Worker]].status \in {"running", "cancelled"}
       /\ starts[task[Worker]] = 1
       /\ rows[task[Worker]].result_path <=> pc[Worker] = "ack"
  /\ pc[Worker] \in {"poll", "stopped", "dead", "off"} => task[Worker] = NoTask

\* A claim whose row has still to be fetched is of a task that was not handed out and
\* has no result; no other task is running for the queue's connection alone.
Fetching ==
  /\ pc[Worker] = "fetch" =>
       /\ starts[task[Worker]] = 0
       /\ queue[task[Worker]].status \in {"running", "cancelled"}
       /\ ~queue[task[Worker]].result_path
  /\ \A t \in Tasks : queue[t].status = "running" =>
       rows[t].status = "running" \/ (pc[Worker] = "fetch" /\ task[Worker] = t)

\* A task that waits was not claimed and has no result; one that is done has one.
Waits ==
  \A t \in Tasks :
    /\ starts[t] \in {0, 1} /\ life[t] <= boots
    /\ rows[t].status \in {"absent", "pending"} => starts[t] = 0 /\ ~rows[t].result_path
    /\ rows[t].status = "done" => rows[t].result_path

\* A result that the table names, or that the worker is about to name, is on disk;
\* the open transaction changes no other result_path.
Files ==
  /\ \A t \in Tasks : rows[t].result_path => result[t] \in {"file", "dir"}
  /\ pc[Worker] \in TxPc /\ sql[Worker] = "result_path" => result[task[Worker]] \in {"file", "dir"}
  /\ \A th \in Threads : pc[th] = "commit" /\ inTx =>
       (view[task[th]].result_path <=> sql[th] = "result_path" \/ rows[task[th]].result_path)
  /\ \A t \in Tasks : "result_unreadable" \in told[t] => result[t] = "dir"

LifeInv == Inv /\ Hands /\ Fetching /\ Waits /\ Files /\ StrandedOnlyByDeath

LEMMA InitLife == Init => LifeInv
<1> SUFFICES ASSUME Init PROVE LifeInv
  OBVIOUS
<1>1. Hands
  BY SMT DEF Init, Hands, Working, Threads
<1>2. Waits /\ StrandedOnlyByDeath /\ Fetching
  BY SMT DEF Init, Waits, StrandedOnlyByDeath, Fetching, AbsentRow, Threads
<1>3. Files
  BY DaemonAssumption, SMT DEF Init, Files, AbsentRow, TxPc, Threads
<1> QED BY <1>1, <1>2, <1>3, InitInv DEF LifeInv

-----------------------------------------------------------------------------
(* What a step may do to the table *)

\* No row gets another status or result.
Kept == \A t \in Tasks :
  rows'[t].status = rows[t].status /\ rows'[t].result_path = rows[t].result_path

KeptButFor(t) == \A u \in Tasks \ {t} :
  rows'[u].status = rows[u].status /\ rows'[u].result_path = rows[u].result_path

\* t's row, in one of the states from, gets status s.
Moved(t, from, s) ==
  /\ rows[t].status \in from /\ rows'[t].status = s
  /\ rows'[t].result_path = rows[t].result_path
  /\ KeptButFor(t)

\* t's row gets its result.
Named(t) ==
  /\ rows'[t].status = rows[t].status
  /\ rows'[t].result_path
  /\ KeptButFor(t)

\* t's row changes as it does when the commit of a claim takes along what else the
\* queue's connection has.
Carried(t) ==
  /\ rows'[t].result_path = rows[t].result_path
  /\ \/ rows'[t].status = rows[t].status
     \/ rows[t].status = "pending" /\ rows'[t].status \in {"running", "cancelled"}
     \/ rows[t].status = "running" /\ rows'[t].status = "cancelled"

LEMMA SetStatusMoves ==
  ASSUME TypeOK, NEW t \in Tasks, NEW s, NEW from, queue[t].status \in from, SetStatus(t, s)
  PROVE  IF queue = rows THEN Moved(t, from, s) ELSE Kept
<1>1. CASE queue = rows
  BY <1>1, SetStatusEffect DEF Moved, KeptButFor
<1>2. CASE queue # rows
  BY <1>2, SetStatusEffect DEF Kept
<1> QED BY <1>1, <1>2

LEMMA SetStatusWhereMoves ==
  ASSUME TypeOK, NEW t \in Tasks, NEW s, NEW from, SetStatusWhere(t, from, s)
  PROVE  Kept \/ Moved(t, from, s)
BY SetStatusMoves DEF SetStatusWhere, Kept, db

LEMMA CommitCarries ==
  ASSUME QueueInv, CommitQueue
  PROVE  /\ rows' = queue /\ queue' = queue /\ inTx' = inTx
         /\ inTx => UNCHANGED <<rows, view>>
         /\ \A t \in Tasks : Carried(t)
<1>1. /\ rows' = queue /\ queue' = queue /\ inTx' = inTx
      /\ inTx => view' = view /\ queue = rows
  BY Zenon DEF QueueInv, CommitQueue
<1>2. \A t \in Tasks : Carried(t)
  BY <1>1 DEF QueueInv, Ahead, Carried
<1> QED BY <1>1, <1>2

\* The statements of _tx: an insert comes into being, or the worker's result is named.
LEMMA TxMoves ==
  ASSUME LifeInv, NEW th \in Threads, TxStep(th)
  PROVE  \/ Kept
         \/ Commit(th) /\ th # Worker /\ Moved(task[th], {"absent"}, "pending")
         \/ Commit(th) /\ th = Worker /\ sql[th] = "result_path" /\ Named(task[th])
<1>1. CASE ~Commit(th)
  <2>1. Exec(th) => inTx
    BY DEF Exec, LifeInv, Inv, TxInv, TxExclusive, Inside
  <2>2. rows' = rows
    BY <1>1, <2>1, Zenon DEF TxStep, Begin, BeginRaises, Exec, TxRaises, db
  <2> QED BY <2>2 DEF Kept
<1>2. CASE Commit(th)
  <2>1. pc[th] = "commit" /\ inTx /\ rows' = view
    BY <1>2, Zenon DEF Commit
  <2>2. /\ KeptButFor(task[th])
        /\ view[task[th]].status =
             IF sql[th] = "insert" THEN "pending" ELSE rows[task[th]].status
        /\ view[task[th]].result_path <=> sql[th] = "result_path" \/ rows[task[th]].result_path
    BY <2>1 DEF LifeInv, Inv, Snapshot, Files, KeptButFor
  <2>3. task[th] \in Tasks
    BY <2>1, DaemonAssumption DEF LifeInv, Inv, Placed, Threads, TxPc
  <2>4. rows[task[th]].result_path \in BOOLEAN /\ view[task[th]].result_path \in BOOLEAN
    BY <2>3, SMT DEF LifeInv, Inv, TypeOK, Row
  <2>5. CASE th # Worker
    <3>1. sql[th] = "insert" /\ rows[task[th]].status = "absent"
      BY <2>1, <2>5 DEF LifeInv, Inv, Placed, Fresh, Threads, TxPc
    <3>2. ~rows[task[th]].result_path
      BY <2>3, <3>1 DEF LifeInv, Waits
    <3>3. rows'[task[th]].result_path = rows[task[th]].result_path
      BY <2>1, <2>2, <2>4, <3>1, <3>2
    <3> QED BY <1>2, <2>1, <2>2, <2>5, <3>1, <3>3 DEF Moved
  <2>6. CASE th = Worker /\ sql[th] = "result_path"
    BY <1>2, <2>1, <2>2, <2>6 DEF Named
  <2>7. CASE th = Worker /\ sql[th] = "model"
    <3>1. rows'[task[th]].result_path = rows[task[th]].result_path
      BY <2>1, <2>2, <2>4, <2>7
    <3>2. rows'[task[th]].status = rows[task[th]].status
      BY <2>1, <2>2, <2>7
    <3> QED BY <2>2, <3>1, <3>2 DEF Kept, KeptButFor
  <2> QED BY <2>1, <2>5, <2>6, <2>7, DaemonAssumption
    DEF LifeInv, Inv, Placed, TxPc
<1> QED BY <1>1, <1>2

-----------------------------------------------------------------------------
(* Each step keeps the invariant *)

LEMMA NotFetching == ASSUME QueueInv', pc'[Worker] # "fetch" PROVE Fetching'
BY DEF QueueInv, Fetching

LEMMA FetchingKept ==
  ASSUME Fetching, UNCHANGED <<rows, queue, starts>>,
         pc'[Worker] = pc[Worker], task'[Worker] = task[Worker]
  PROVE  Fetching'
BY DEF Fetching

\* What the steps of _tx do to their thread and to the history.
LEMMA TxEffect ==
  ASSUME TypeOK, Placed, NEW th \in Threads, TxStep(th)
  PROVE  /\ pc[th] \in TxPc
         /\ \A u \in Threads \ {th} :
              pc'[u] = pc[u] /\ sql'[u] = sql[u] /\ task'[u] = task[u]
         /\ \/ pc'[th] = "exec" /\ task'[th] = task[th] /\ sql'[th] = sql[th]
            \/ Exec(th) /\ pc'[th] = "commit" /\ task'[th] = task[th] /\ sql'[th] = sql[th]
            \/ th = Worker /\ pc'[th] = "dead" /\ task'[th] = NoTask
            \/ th = Worker /\ Commit(th) /\ task'[th] = task[th]
               /\ pc'[th] = IF sql[th] = "model" THEN "agent" ELSE "ack"
            \/ th # Worker /\ pc'[th] = "idle"
         /\ UNCHANGED <<starts, life, result, phase, boots>>
         /\ \A t \in Tasks : "result_unreadable" \in told'[t] => "result_unreadable" \in told[t]
<1>1. CASE Begin(th)
  BY <1>1, SMT DEF Begin, Goto, TypeOK, TxPc, process, history, claims
<1>2. CASE BeginRaises(th)
  BY <1>2, SMT DEF BeginRaises, Raise, Leave, Call, Tell, TypeOK, TxPc, process, claims
<1>3. CASE Exec(th)
  <2>1. pc[th] = "exec" /\ Goto(th, "commit") /\ UNCHANGED <<result, process, history>>
    BY <1>3 DEF Exec
  <2> QED BY <1>3, <2>1, SMT DEF Goto, TypeOK, TxPc, process, history, claims
<1>4. CASE Commit(th)
  <2>1. /\ pc[th] = "commit" /\ UNCHANGED <<result, process, claims>>
        /\ IF th = Worker
           THEN /\ Call(th, IF sql[th] = "model" THEN "agent" ELSE "ack", "none", task[th])
                /\ UNCHANGED told
           ELSE Leave(th, "idle") /\ Tell(task[th], "created")
    BY <1>4, Zenon DEF Commit
  <2> QED BY <1>4, <2>1, SMT DEF Leave, Call, Tell, TypeOK, TxPc, process, claims
<1>5. CASE TxRaises(th)
  <2>1. /\ pc[th] \in {"exec", "commit"} /\ Raise(th)
        /\ UNCHANGED <<result, process, claims>>
    BY <1>5, Zenon DEF TxRaises
  <2> QED BY <2>1, SMT DEF Raise, Leave, Call, Tell, TypeOK, TxPc, process, claims
<1> QED BY <1>1, <1>2, <1>3, <1>4, <1>5 DEF TxStep

LEMMA LifeStutter ==
  ASSUME LifeInv, UNCHANGED vars
  PROVE  Hands' /\ Fetching' /\ Waits' /\ Files' /\ StrandedOnlyByDeath'
<1>1. UNCHANGED <<rows, view, inTx, queue, result, pc, sql, task, boots, starts, life, told>>
  BY DEF vars, db, threads, process, history, claims
<1>2. Hands' /\ Waits' /\ StrandedOnlyByDeath'
  BY <1>1 DEF LifeInv, Hands, Waits, StrandedOnlyByDeath, Working
<1>3. Fetching' /\ Files'
  BY <1>1 DEF LifeInv, Fetching, Files
<1> QED BY <1>2, <1>3

LEMMA LifeTx ==
  ASSUME LifeInv, NEW th \in Threads, TxStep(th)
  PROVE  Hands' /\ Fetching' /\ Waits' /\ Files' /\ StrandedOnlyByDeath'
<1>0. TypeOK /\ Placed /\ TypeOK' /\ Placed' /\ Inv /\ Inv'
  <2>1. Next
    BY DEF Next, HandlerStep, WorkerStep, Threads
  <2> QED BY <2>1, InvStep, Zenon DEF LifeInv, Inv
<1>1. /\ pc[th] \in TxPc /\ task[th] \in Tasks
      /\ \A u \in Threads \ {th} :
           pc'[u] = pc[u] /\ sql'[u] = sql[u] /\ task'[u] = task[u]
      /\ UNCHANGED <<starts, life, result, phase, boots>>
      /\ \A t \in Tasks : "result_unreadable" \in told'[t] => "result_unreadable" \in told[t]
  BY <1>0, TxEffect, DaemonAssumption DEF Placed, Threads, TxPc
<1>2. ASSUME Commit(th)
      PROVE  /\ pc[th] = "commit" /\ inTx /\ rows' = view /\ ~inTx'
             /\ th = Worker => /\ task'[th] = task[th]
                               /\ pc'[th] = IF sql[th] = "model" THEN "agent" ELSE "ack"
             /\ th # Worker => pc'[th] = "idle"
  <2>1. /\ pc[th] = "commit" /\ inTx /\ rows' = view /\ inTx' = FALSE
        /\ IF th = Worker
           THEN Call(th, IF sql[th] = "model" THEN "agent" ELSE "ack", "none", task[th])
           ELSE Leave(th, "idle")
    BY <1>2, Zenon DEF Commit
  <2> QED BY <1>0, <2>1, SMT DEF Call, Leave, TypeOK
<1>3. Hands' /\ StrandedOnlyByDeath'
  <2>1. CASE th # Worker
    <3>1. pc'[Worker] = pc[Worker] /\ task'[Worker] = task[Worker]
      BY <1>1, <2>1 DEF Threads
    <3>2. \A t \in Tasks :
            \/ rows'[t].status = rows[t].status /\ rows'[t].result_path = rows[t].result_path
            \/ rows[t].status = "absent" /\ rows'[t].status = "pending"
      BY <1>1, <2>1, TxMoves DEF Kept, Moved, KeptButFor
    <3>3. Working' => task[Worker] \in Tasks /\ Working
      BY <1>0, <3>1 DEF Working, TypeOK, Threads
    <3>4. Hands'
      BY <1>1, <3>1, <3>2, <3>3, SMT DEF LifeInv, Hands, Working
    <3>5. StrandedOnlyByDeath'
      BY <1>1, <3>1, <3>2, SMT DEF LifeInv, StrandedOnlyByDeath
    <3> QED BY <3>4, <3>5
  <2>2. CASE th = Worker /\ Commit(th)
    <3>1. Working /\ sql[th] \in {"model", "result_path"} /\ pc[th] = "commit"
      BY <1>0, <1>1, <1>2, <2>2, DaemonAssumption DEF Working, Placed, TxPc
    <3>2. \A t \in Tasks : rows'[t].status = rows[t].status
      BY <2>2, TxMoves DEF Kept, Named, KeptButFor
    <3>3. rows'[task[th]].result_path <=> sql[th] = "result_path"
      BY <1>2, <2>2, <3>1 DEF LifeInv, Files, Hands
    <3>4. Hands'
      BY <1>1, <1>2, <2>2, <3>1, <3>2, <3>3, SMT DEF LifeInv, Hands, Working
    <3>5. StrandedOnlyByDeath'
      BY <1>1, <1>2, <2>2, <3>2, SMT DEF LifeInv, StrandedOnlyByDeath
    <3> QED BY <3>4, <3>5
  <2>3. CASE th = Worker /\ ~Commit(th)
    <3>1. Kept
      BY <2>3, TxMoves
    <3>2. \/ pc'[Worker] \in {"exec", "commit"} /\ task'[Worker] = task[Worker]
          \/ pc'[Worker] = "dead" /\ task'[Worker] = NoTask
      BY <1>0, <2>3, TxEffect
    <3>3. Working /\ pc[Worker] \in TxPc
      BY <1>1, <2>3, DaemonAssumption DEF Working, TxPc
    <3>4. Hands'
      BY <1>1, <2>3, <3>1, <3>2, <3>3, SMT DEF LifeInv, Hands, Working, Kept, TxPc
    <3>5. StrandedOnlyByDeath'
      BY <1>1, <3>1, <3>2, <3>3, SMT DEF LifeInv, StrandedOnlyByDeath, Kept, TxPc
    <3> QED BY <3>4, <3>5
  <2> QED BY <2>1, <2>2, <2>3
<1>4. Waits'
  <2>1. \A t \in Tasks :
          \/ rows'[t].status = rows[t].status /\ rows'[t].result_path = rows[t].result_path
          \/ /\ rows[t].status = "absent" /\ rows'[t].status = "pending"
             /\ rows'[t].result_path = rows[t].result_path
          \/ /\ rows'[t].status = rows[t].status /\ rows'[t].result_path
             /\ t = task[Worker] /\ pc[Worker] # "fetch"
    BY TxMoves DEF Kept, Moved, Named, KeptButFor, Commit
  <2>2. Working => rows[task[Worker]].status \in {"running", "cancelled"}
    BY DEF LifeInv, Hands
  <2> QED BY <1>1, <2>1, <2>2, DaemonAssumption, SMT DEF LifeInv, Waits, Working
<1>5. Files'
  <2>1. \A t \in Tasks : rows'[t].result_path => result[t] \in {"file", "dir"}
    <3>1. \A t \in Tasks :
            \/ rows'[t].result_path = rows[t].result_path
            \/ t = task[Worker] /\ pc[Worker] = "commit" /\ sql[Worker] = "result_path"
      BY <1>2, TxMoves DEF Kept, Moved, Named, KeptButFor
    <3> QED BY <3>1 DEF LifeInv, Files, TxPc
  <2>2. pc'[Worker] \in TxPc /\ sql'[Worker] = "result_path"
          => result[task'[Worker]] \in {"file", "dir"}
    <3>1. pc'[Worker] \in TxPc => /\ pc[Worker] \in TxPc
                                  /\ sql'[Worker] = sql[Worker] /\ task'[Worker] = task[Worker]
      BY <1>0, <1>1, <1>2, TxEffect DEF TxPc, Threads
    <3> QED BY <3>1 DEF LifeInv, Files
  <2>3. ASSUME NEW u \in Threads, pc'[u] = "commit", inTx'
        PROVE  view'[task'[u]].result_path
                 <=> sql'[u] = "result_path" \/ rows'[task'[u]].result_path
    <3>1. CASE u = th
      <4>1. Exec(th) /\ task'[th] = task[th] /\ sql'[th] = sql[th]
        BY <1>0, <1>2, <2>3, <3>1, TxEffect
      <4>2. /\ view' = [view EXCEPT ![task[th]] = Written(th)]
            /\ rows' = rows /\ view = rows
        <5>1. inTx
          BY <2>3, <4>1, Zenon DEF Exec
        <5>2. pc[th] = "exec" /\ rows' = IF inTx THEN rows ELSE view'
          BY <4>1 DEF Exec
        <5> QED BY <4>1, <5>1, <5>2 DEF Exec, LifeInv, Inv, Snapshot
      <4>3. view'[task[th]] = Written(th) /\ rows[task[th]] \in Row
        BY <1>0, <1>1, <4>2 DEF TypeOK
      <4>4. CASE sql[th] = "insert"
        <5>1. rows[task[th]].status = "absent"
          <6>1. th \in Handlers
            BY <1>0, <1>1, <4>4 DEF Placed, Threads
          <6> QED BY <1>1, <6>1 DEF LifeInv, Inv, Fresh
        <5>2. ~rows[task[th]].result_path
          BY <1>1, <5>1 DEF LifeInv, Waits
        <5>3. ~Written(th).result_path
          BY <4>4 DEF Written, AbsentRow
        <5> QED BY <3>1, <4>1, <4>2, <4>3, <4>4, <5>2, <5>3
      <4>5. CASE sql[th] = "model"
        BY <3>1, <4>1, <4>2, <4>3, <4>5 DEF Written
      <4>6. CASE sql[th] = "result_path"
        <5>1. Written(th).result_path
          BY <4>2, <4>3, <4>6 DEF Written, Row
        <5> QED BY <3>1, <4>1, <4>3, <4>6, <5>1
      <4> QED BY <1>0, <1>1, <4>4, <4>5, <4>6 DEF Placed, Threads
    <3>2. CASE u # th
      <4>1. pc[u] = "commit" /\ sql'[u] = sql[u] /\ task'[u] = task[u]
        BY <1>1, <2>3, <3>2
      <4>2. pc[th] = "begin" /\ UNCHANGED db
        <5>1. pc[th] \notin {"exec", "commit"} \/ ~StorageOpen
          BY <3>2, <4>1 DEF LifeInv, Inv, TxInv, TxExclusive, Inside
        <5>2. ~Begin(th)
          <6>1. ASSUME Begin(th) PROVE FALSE
            <7>1. pc'[th] = "exec" /\ pc'[u] = "commit"
              BY <1>0, <2>3, <6>1 DEF Begin, Goto, TypeOK
            <7>2. TxExclusive'
              BY <1>0 DEF Inv, TxInv
            <7> QED BY <3>2, <7>1, <7>2 DEF TxExclusive, Inside
          <6> QED BY <6>1
        <5>3. ~TxRaises(th)
          BY <2>3, Zenon DEF TxRaises
        <5>4. ~Exec(th)
          BY <5>1, Zenon DEF Exec
        <5>5. ~Commit(th)
          BY <1>2, <2>3
        <5> QED BY <5>2, <5>3, <5>4, <5>5 DEF TxStep, BeginRaises
      <4> QED BY <2>3, <4>1, <4>2 DEF db, LifeInv, Files
    <3> QED BY <3>1, <3>2
  <2> QED BY <1>1, <2>1, <2>2, <2>3 DEF LifeInv, Files
<1>6. Fetching'
  <2>1. CASE pc'[Worker] # "fetch"
    BY <1>0, <2>1, NotFetching DEF Inv
  <2>2. CASE pc'[Worker] = "fetch"
    <3>1. th # Worker
      BY <1>0, <1>1, <2>2, TxEffect DEF TxPc
    <3>2. pc'[Worker] = pc[Worker] /\ task'[Worker] = task[Worker] /\ task[Worker] \in Tasks
      BY <1>0, <1>1, <2>2, <3>1 DEF Threads, Placed
    <3>3. UNCHANGED <<rows, queue>> \/ (queue = rows /\ queue' = rows')
      <4>1. CASE BeginRaises(th) \/ TxRaises(th)
        BY <4>1, Zenon DEF BeginRaises, TxRaises, db
      <4>2. CASE Begin(th)
        BY <4>2, Zenon DEF Begin
      <4>3. CASE Exec(th) \/ Commit(th)
        <5>1. inTx
          BY <4>3, Zenon DEF Exec, Commit, LifeInv, Inv, TxInv, TxExclusive, Inside
        <5> QED BY <4>3, <5>1, Zenon DEF Exec, Commit, LifeInv, Inv, QueueInv
      <4> QED BY <4>1, <4>2, <4>3 DEF TxStep
    <3>4. CASE queue = rows /\ queue' = rows'
      <4>1. \A t \in Tasks :
              \/ rows'[t].status = rows[t].status /\ rows'[t].result_path = rows[t].result_path
              \/ rows[t].status = "absent" /\ rows'[t].status = "pending"
        BY <3>1, TxMoves DEF Kept, Moved, KeptButFor
      <4> QED BY <1>1, <3>2, <3>4, <4>1 DEF LifeInv, Fetching
    <3> QED BY <1>1, <3>2, <3>3, <3>4, FetchingKept DEF LifeInv
  <2> QED BY <2>1, <2>2
<1> QED BY <1>3, <1>4, <1>5, <1>6

\* Whatever a read shows as the result is on disk.
LEMMA NamedIsThere ==
  ASSUME LifeInv PROVE \A t \in Tasks : view[t].result_path => result[t] \in {"file", "dir"}
<1>1. CASE view = rows
  BY <1>1 DEF LifeInv, Files
<1>2. CASE view # rows
  <2>1. PICK th \in Threads : pc[th] = "commit" /\ inTx
    BY <1>2 DEF LifeInv, Inv, Snapshot, TxInv, TxExclusive, Inside
  <2>2. /\ \A t \in Tasks : t # task[th] => view[t] = rows[t]
        /\ view[task[th]].result_path => sql[th] = "result_path" \/ rows[task[th]].result_path
    BY <2>1 DEF LifeInv, Inv, Snapshot, Files
  <2>3. sql[th] = "result_path" => th = Worker
    BY <2>1 DEF LifeInv, Inv, Placed, Threads, TxPc
  <2> QED BY <2>1, <2>2, <2>3 DEF LifeInv, Files, TxPc
<1> QED BY <1>1, <1>2

\* What any other step of a handler may do.
LEMMA LifeHandler ==
  ASSUME LifeInv, NEW h \in Handlers,
         \/ QueueCancel(h) \/ CancelRaises(h) \/ ListTasks(h)
         \/ \E t \in Tasks : Request(h, t)
  PROVE  Hands' /\ Fetching' /\ Waits' /\ Files' /\ StrandedOnlyByDeath'
<1>0. /\ TypeOK /\ Placed /\ QueueInv /\ TypeOK' /\ Placed' /\ QueueInv'
      /\ Worker \in Threads /\ h \in Threads /\ h # Worker
  <2>1. Next
    BY Zenon DEF Next, HandlerStep
  <2> QED BY <2>1, InvStep, DaemonAssumption DEF LifeInv, Inv, Threads
<1>1. /\ \A u \in Threads \ {h} : pc'[u] = pc[u] /\ sql'[u] = sql[u] /\ task'[u] = task[u]
      /\ pc'[h] = "commit" => UNCHANGED threads
      /\ UNCHANGED <<starts, life, phase, boots, inTx>>
  <2>1. CASE QueueCancel(h)
    <3>1. Leave(h, "idle") /\ UNCHANGED <<process, claims>>
      BY <2>1 DEF QueueCancel
    <3>2. inTx' = inTx
      BY <2>1, Zenon DEF QueueCancel, SetStatusWhere, SetStatus, db
    <3> QED BY <1>0, <3>1, <3>2, SMT DEF Leave, Call, TypeOK, process, claims
  <2>2. CASE CancelRaises(h)
    BY <1>0, <2>2, SMT DEF CancelRaises, Leave, Call, TypeOK, process, db, history, claims
  <2>3. CASE ListTasks(h)
    BY <2>3, Zenon DEF ListTasks, threads, process, db, claims
  <2>4. ASSUME NEW t \in Tasks, Request(h, t)
        PROVE  /\ \A u \in Threads \ {h} :
                    pc'[u] = pc[u] /\ sql'[u] = sql[u] /\ task'[u] = task[u]
               /\ pc'[h] = "commit" => UNCHANGED threads
               /\ UNCHANGED <<starts, life, phase, boots, inTx>>
    <3>1. CASE CreateTask(h, t)
      BY <1>0, <3>1, SMT DEF CreateTask, Call, TypeOK, process, db, history, claims
    <3>2. CASE GetTask(h, t) \/ GetResult(h, t)
      BY <3>2, Zenon DEF GetTask, GetResult, threads, process, db, claims
    <3>3. CASE CancelTask(h, t)
      BY <1>0, <3>3, SMT DEF CancelTask, Call, TypeOK, process, db, history, claims
    <3> QED BY <2>4, <3>1, <3>2, <3>3 DEF Request
  <2> QED BY <2>1, <2>2, <2>3, <2>4
<1>2. \A t \in Tasks :
        /\ rows'[t].result_path = rows[t].result_path
        /\ \/ rows'[t].status = rows[t].status
           \/ rows[t].status \in Cancellable /\ rows'[t].status = "cancelled"
  <2>1. Kept \/ (\E t \in Tasks : Moved(t, Cancellable, "cancelled"))
    <3>1. CASE QueueCancel(h)
      <4>1. task[h] \in Tasks /\ SetStatusWhere(task[h], Cancellable, "cancelled")
        BY <1>0, <3>1 DEF QueueCancel, Placed
      <4> QED BY <1>0, <4>1, SetStatusWhereMoves
    <3>2. CASE UNCHANGED db
      BY <3>2 DEF db, Kept
    <3> QED BY <3>1, <3>2
      DEF CancelRaises, ListTasks, Request, CreateTask, GetTask, GetResult, CancelTask
  <2> QED BY <2>1 DEF Kept, Moved, KeptButFor
<1>3. /\ \A t \in Tasks : result'[t] = result[t] \/ result[t] = "none"
      /\ \A t \in Tasks : "result_unreadable" \in told'[t] =>
           \/ "result_unreadable" \in told[t]
           \/ view[t].result_path /\ result[t] # "file"
  <2>1. CASE QueueCancel(h)
    BY <1>0, <2>1, SMT DEF QueueCancel, Tell, TypeOK
  <2>2. CASE CancelRaises(h) \/ ListTasks(h)
    BY <2>2 DEF CancelRaises, ListTasks, history
  <2>3. ASSUME NEW t \in Tasks, CreateTask(h, t) \/ GetTask(h, t) \/ CancelTask(h, t)
        PROVE  (\A u \in Tasks : result'[u] = result[u] \/ result[u] = "none") /\ told' = told
    BY <1>0, <2>3 DEF CreateTask, GetTask, CancelTask, history, TypeOK
  <2>4. ASSUME NEW t \in Tasks, GetResult(h, t)
        PROVE  /\ result' = result
               /\ \A u \in Tasks : "result_unreadable" \in told'[u] =>
                    \/ "result_unreadable" \in told[u]
                    \/ view[u].result_path /\ result[u] # "file"
    BY <1>0, <2>4 DEF GetResult, Tell, TypeOK
  <2> QED BY <2>1, <2>2, <2>3, <2>4 DEF Request
<1>4. pc'[Worker] = pc[Worker] /\ task'[Worker] = task[Worker] /\ sql'[Worker] = sql[Worker]
  BY <1>0, <1>1
<1>9. Fetching'
  <2>1. CASE pc[Worker] # "fetch"
    BY <1>0, <1>4, <2>1, NotFetching
  <2>2. CASE pc[Worker] = "fetch" /\ QueueCancel(h)
    <3>1. task[h] \in Tasks /\ SetStatusWhere(task[h], Cancellable, "cancelled")
      BY <1>0, <2>2 DEF QueueCancel, Placed
    <3>2. \A t \in Tasks :
            /\ queue'[t].result_path = queue[t].result_path
            /\ queue'[t].status = queue[t].status \/ queue'[t].status = "cancelled"
      BY <1>0, <3>1, SetStatusEffect DEF SetStatusWhere, db
    <3>3. task[Worker] \in Tasks
      BY <1>0, <2>2 DEF Placed
    <3>4. \A t \in Tasks : queue'[t].status = "running" =>
            queue[t].status = "running" /\ rows'[t].status = rows[t].status
      <4>1. CASE UNCHANGED db
        BY <4>1 DEF db
      <4>2. CASE SetStatus(task[h], "cancelled")
        BY <1>0, <3>1, <4>2, SetStatusEffect
      <4> QED BY <3>1, <4>1, <4>2 DEF SetStatusWhere
    <3> QED BY <1>1, <1>4, <3>2, <3>3, <3>4 DEF LifeInv, Fetching
  <2>3. CASE UNCHANGED db
    BY <1>1, <1>4, <2>3, FetchingKept DEF LifeInv, db
  <2> QED BY <2>1, <2>2, <2>3
    DEF CancelRaises, ListTasks, Request, CreateTask, GetTask, GetResult, CancelTask
<1>5. Hands'
  <2>1. Working' => Working /\ task[Worker] \in Tasks
    BY <1>0, <1>4 DEF Working, TypeOK
  <2> QED BY <1>1, <1>2, <1>4, <2>1, SMT DEF LifeInv, Hands, Working, Cancellable
<1>6. Waits'
  BY <1>1, <1>2, SMT DEF LifeInv, Waits, Cancellable
<1>7. StrandedOnlyByDeath'
  BY <1>1, <1>2, <1>4, SMT DEF LifeInv, StrandedOnlyByDeath
<1>8. Files'
  <2>1. \A t \in Tasks : rows'[t].result_path => result'[t] \in {"file", "dir"}
    BY <1>2, <1>3 DEF LifeInv, Files
  <2>2. pc'[Worker] \in TxPc /\ sql'[Worker] = "result_path"
          => result'[task'[Worker]] \in {"file", "dir"}
    BY <1>0, <1>3, <1>4 DEF LifeInv, Files, Placed
  <2>3. ASSUME NEW u \in Threads, pc'[u] = "commit", inTx'
        PROVE  view'[task'[u]].result_path
                 <=> sql'[u] = "result_path" \/ rows'[task'[u]].result_path
    <3>1. pc[u] = "commit" /\ sql'[u] = sql[u] /\ task'[u] = task[u] /\ inTx
      BY <1>1, <2>3 DEF threads
    <3>2. UNCHANGED db
      BY <3>1 DEF QueueCancel, CancelRaises, ListTasks, Request, CreateTask, GetTask, GetResult,
        CancelTask
    <3> QED BY <3>1, <3>2 DEF db, LifeInv, Files
  <2>4. \A t \in Tasks : view[t].result_path => result[t] \in {"file", "dir"}
    BY NamedIsThere
  <2>5. \A t \in Tasks : "result_unreadable" \in told'[t] => result'[t] = "dir"
    BY <1>3, <2>4 DEF LifeInv, Files
  <2> QED BY <2>1, <2>2, <2>3, <2>5 DEF Files
<1> QED BY <1>5, <1>6, <1>7, <1>8, <1>9

LEMMA LifeWorker ==
  ASSUME LifeInv,
         \/ WorkerStep /\ ~TxStep(Worker)
         \/ WriteFails
         \/ \E f \in {"file", "dir"} : AgentWrites(f)
  PROVE  Hands' /\ Fetching' /\ Waits' /\ Files' /\ StrandedOnlyByDeath'
<1>0. /\ TypeOK /\ Placed /\ QueueInv /\ TypeOK' /\ Placed' /\ QueueInv'
      /\ Worker \in Threads /\ Worker \notin Handlers
  <2>1. Next
    BY Zenon DEF Next
  <2> QED BY <2>1, InvStep, DaemonAssumption DEF LifeInv, Inv, Threads
<1>1. CASE ClaimNext
  <2>1. PICK t \in Claimable : /\ queue' = [queue EXCEPT ![t].status = "running"]
                              /\ Call(Worker, "fetch", "none", t)
    BY <1>1 DEF ClaimNext
  <2>2. /\ pc[Worker] = "poll" /\ t \in Tasks /\ queue = rows /\ rows[t].status = "pending"
        /\ UNCHANGED <<rows, view, result, phase, boots, told, starts, life>>
    BY <1>0, <1>1, <2>1 DEF ClaimNext, Claimable, QueueInv, process, history, claims
  <2>3. inTx' = inTx
    BY <1>1, Zenon DEF ClaimNext
  <2>4. /\ pc'[Worker] = "fetch" /\ task'[Worker] = t
        /\ \A u \in Threads \ {Worker} : pc'[u] = pc[u] /\ sql'[u] = sql[u] /\ task'[u] = task[u]
    BY <1>0, <2>1, SMT DEF Call, TypeOK
  <2>5. Hands' /\ Waits'
    BY <2>2, <2>4 DEF LifeInv, Hands, Waits, Working
  <2>6. Fetching'
    <3>1. /\ queue'[t].status = "running" /\ queue'[t].result_path = rows[t].result_path
          /\ \A u \in Tasks : u # t => queue'[u] = rows[u]
      <4>1. rows \in [Tasks -> Row]
        BY <1>0 DEF TypeOK
      <4>2. /\ queue'[t] = [rows[t] EXCEPT !.status = "running"]
            /\ \A u \in Tasks : u # t => queue'[u] = rows[u]
        BY <2>1, <2>2, <4>1
      <4> QED BY <2>2, <4>1, <4>2 DEF Row
    <3>2. starts[t] = 0 /\ ~rows[t].result_path
      BY <2>2 DEF LifeInv, Waits
    <3> QED BY <2>2, <2>4, <3>1, <3>2 DEF Fetching
  <2>7. StrandedOnlyByDeath'
    <3>1. \A u \in Tasks : task[Worker] # u
      BY <2>2, DaemonAssumption DEF LifeInv, Hands
    <3> QED BY <2>2, <2>4, <3>1 DEF LifeInv, StrandedOnlyByDeath
  <2>8. Files'
    BY <2>2, <2>3, <2>4, SMT DEF LifeInv, Files, TxPc
  <2> QED BY <2>5, <2>6, <2>7, <2>8
<1>7. CASE Fetch
  <2>1. /\ pc[Worker] = "fetch" /\ task[Worker] \in Tasks /\ CommitQueue
        /\ starts' = [starts EXCEPT ![task[Worker]] = @ + 1]
        /\ life' = [life EXCEPT ![task[Worker]] = boots]
        /\ Goto(Worker, "load") /\ UNCHANGED <<result, phase, boots, told>>
    BY <1>0, <1>7 DEF Fetch, Placed, process
  <2>2. /\ rows' = queue
        /\ inTx => UNCHANGED view
        /\ \A t \in Tasks : Carried(t)
    BY <1>0, <2>1, CommitCarries
  <2>3. inTx' => inTx
    BY <1>0, <2>1, CommitCarries, Zenon
  <2>4. /\ pc'[Worker] = "load" /\ task'[Worker] = task[Worker]
        /\ \A u \in Threads \ {Worker} : pc'[u] = pc[u] /\ sql'[u] = sql[u] /\ task'[u] = task[u]
    BY <1>0, <2>1, SMT DEF Goto, TypeOK
  <2>5. /\ starts'[task[Worker]] = 1 /\ life'[task[Worker]] = boots
        /\ \A t \in Tasks : t # task[Worker] => starts'[t] = starts[t] /\ life'[t] = life[t]
    BY <1>0, <2>1, SMT DEF LifeInv, Fetching, TypeOK
  <2>6. /\ rows'[task[Worker]].status \in {"running", "cancelled"}
        /\ ~rows'[task[Worker]].result_path
    BY <2>1, <2>2 DEF LifeInv, Fetching
  <2>7. Hands'
    BY <2>4, <2>5, <2>6 DEF Hands, Working
  <2>8. Waits'
    <3>1. boots \in Nat
      BY <1>0, DaemonAssumption DEF TypeOK
    <3> QED BY <2>1, <2>2, <2>5, <2>6, <3>1, SMT DEF LifeInv, Waits, Carried
  <2>9. StrandedOnlyByDeath'
    <3>1. \A t \in Tasks : rows'[t].status = "running" =>
            rows[t].status = "running" \/ task[Worker] = t
      BY <2>2 DEF LifeInv, Fetching
    <3> QED BY <2>1, <2>4, <2>5, <3>1 DEF LifeInv, StrandedOnlyByDeath
  <2>10. Files'
    <3>1. \A t \in Tasks : rows'[t].result_path = rows[t].result_path
      BY <2>2 DEF Carried
    <3>2. \A th \in Threads : pc'[th] = "commit" => pc[th] = "commit"
                                /\ sql'[th] = sql[th] /\ task'[th] = task[th]
      BY <2>4
    <3>3. \A th \in Threads : pc[th] = "commit" /\ inTx =>
            (view'[task[th]].result_path <=> sql[th] = "result_path" \/ rows'[task[th]].result_path)
      BY <1>0, <2>1, <2>2, CommitCarries DEF LifeInv, Files
    <3> QED BY <2>1, <2>3, <2>4, <3>1, <3>2, <3>3 DEF LifeInv, Files, TxPc
  <2>11. Fetching'
    BY <1>0, <2>4, NotFetching
  <2> QED BY <2>7, <2>8, <2>9, <2>10, <2>11
<1>2. CASE Ack \/ Nack
  <2>1. /\ pc[Worker] \in {"ack", "nack"} /\ ~inTx /\ Leave(Worker, "poll")
        /\ SetStatusWhere(task[Worker], {"running"},
                          IF pc[Worker] = "ack" THEN "done" ELSE "failed")
        /\ UNCHANGED <<result, phase, boots, told, starts, life>>
    BY <1>2 DEF Ack, Nack, process, history, claims
  <2>2. /\ task[Worker] \in Tasks /\ Working
        /\ pc'[Worker] = "poll" /\ task'[Worker] = NoTask
    BY <1>0, <2>1, DaemonAssumption, SMT DEF Placed, Leave, Call, TypeOK, Working
  <2>3. inTx' = inTx
    BY <2>1, Zenon DEF SetStatusWhere, SetStatus, db
  <2>9. queue = rows
    BY <1>0, <2>1 DEF QueueInv
  <2>4. /\ \A t \in Tasks : rows'[t].result_path = rows[t].result_path
        /\ \A t \in Tasks \ {task[Worker]} : rows'[t].status = rows[t].status
        /\ \/ /\ rows[task[Worker]].status = "cancelled"
              /\ rows'[task[Worker]].status = "cancelled"
           \/ /\ rows[task[Worker]].status = "running"
              /\ rows'[task[Worker]].status = IF pc[Worker] = "ack" THEN "done" ELSE "failed"
    <3>1. CASE rows[task[Worker]].status = "running"
      <4>1. Moved(task[Worker], {"running"}, IF pc[Worker] = "ack" THEN "done" ELSE "failed")
        BY <1>0, <2>1, <2>2, <2>9, <3>1, SetStatusMoves DEF SetStatusWhere
      <4> QED BY <3>1, <4>1 DEF Moved, KeptButFor
    <3>2. CASE rows[task[Worker]].status # "running"
      BY <2>1, <2>2, <2>9, <3>2 DEF SetStatusWhere, db, LifeInv, Hands
    <3> QED BY <3>1, <3>2
  <2>5. Hands'
    BY <2>1, <2>2, DaemonAssumption DEF LifeInv, Hands, Working
  <2>6. Waits'
    BY <2>1, <2>2, <2>4, SMT DEF LifeInv, Waits, Hands
  <2>7. StrandedOnlyByDeath'
    BY <2>1, <2>2, <2>4, SMT DEF LifeInv, StrandedOnlyByDeath
  <2>8. Files'
    BY <2>1, <2>2, <2>3, <2>4, SMT DEF LifeInv, Files, TxPc
  <2>10. Fetching'
    BY <1>0, <2>2, NotFetching
  <2> QED BY <2>5, <2>6, <2>7, <2>8, <2>10
<1>3. CASE StopPolling \/ WorkerRaises \/ WriteFails
  <2>1. /\ \E l \in {"stopped", "dead"} : Leave(Worker, l) /\ (l = "stopped" => pc[Worker] = "poll")
        /\ UNCHANGED <<result, boots, told, starts, life>>
    BY <1>3, Zenon DEF StopPolling, WorkerRaises, WriteFails, process, history, claims
  <2>2. /\ pc'[Worker] \in {"stopped", "dead"} /\ task'[Worker] = NoTask
        /\ pc'[Worker] = "stopped" => pc[Worker] = "poll"
        /\ \A th \in Threads \ {Worker} :
             pc'[th] = pc[th] /\ sql'[th] = sql[th] /\ task'[th] = task[th]
    BY <1>0, <2>1, SMT DEF Leave, Call, TypeOK
  <2>3. (inTx' => inTx) /\ (inTx => UNCHANGED <<rows, view>>) /\ \A t \in Tasks : Carried(t)
    <3>1. CASE WorkerRaises
      <4>1. CommitQueue
        BY <3>1 DEF WorkerRaises
      <4>2. inTx' => inTx
        BY <4>1, Zenon DEF CommitQueue
      <4> QED BY <1>0, <4>1, <4>2, CommitCarries, Zenon
    <3>2. CASE StopPolling \/ WriteFails
      <4>1. UNCHANGED <<rows, view, inTx>>
        BY <3>2, Zenon DEF StopPolling, WriteFails, db
      <4> QED BY <4>1 DEF Carried
    <3> QED BY <1>3, <3>1, <3>2
  <2>4. Hands'
    BY <2>2 DEF Hands, Working
  <2>5. Waits'
    BY <2>1, <2>3, SMT DEF LifeInv, Waits, Carried
  <2>6. StrandedOnlyByDeath'
    <3>1. CASE pc'[Worker] = "dead"
      BY <3>1 DEF StrandedOnlyByDeath
    <3>2. CASE StopPolling /\ pc[Worker] = "poll"
      <4>1. UNCHANGED rows /\ \A t \in Tasks : task[Worker] # t
        BY <3>2, DaemonAssumption DEF StopPolling, db, LifeInv, Hands
      <4> QED BY <2>1, <3>2, <4>1 DEF LifeInv, StrandedOnlyByDeath
    <3> QED BY <1>0, <1>3, <2>2, <3>1, <3>2 DEF WorkerRaises, WriteFails, Leave, Call, TypeOK
  <2>7. Files'
    <3>1. \A t \in Tasks : rows'[t].result_path = rows[t].result_path
      BY <2>3 DEF Carried
    <3> QED BY <2>1, <2>2, <2>3, <3>1 DEF LifeInv, Files, TxPc
  <2>8. Fetching'
    BY <1>0, <2>2, NotFetching
  <2> QED BY <2>4, <2>5, <2>6, <2>7, <2>8
<1>4. CASE LoadTask \/ AgentEnds
  <2>1. /\ pc[Worker] \in {"load", "agent"}
        /\ \/ Goto(Worker, "agent") \/ Goto(Worker, "persist") \/ Goto(Worker, "nack")
           \/ Call(Worker, "begin", "model", task[Worker])
        /\ UNCHANGED <<rows, view, inTx>>
        /\ UNCHANGED <<result, phase, boots, told, starts, life>>
    BY <1>4, Zenon DEF LoadTask, AgentEnds, process, history, claims, db
  <2>2. /\ task'[Worker] = task[Worker]
        /\ \/ pc'[Worker] \in {"agent", "persist", "nack"}
           \/ pc'[Worker] = "begin" /\ sql'[Worker] = "model"
        /\ \A th \in Threads \ {Worker} :
             pc'[th] = pc[th] /\ sql'[th] = sql[th] /\ task'[th] = task[th]
    BY <1>0, <2>1, SMT DEF Goto, Call, TypeOK
  <2>3. Fetching'
    BY <1>0, <2>2, NotFetching
  <2>4. Hands'
    BY <2>1, <2>2, SMT DEF LifeInv, Hands, Working
  <2>5. Waits' /\ StrandedOnlyByDeath'
    BY <2>1, <2>2, SMT DEF LifeInv, Waits, StrandedOnlyByDeath
  <2>6. Files'
    BY <2>1, <2>2, SMT DEF LifeInv, Files, TxPc
  <2> QED BY <2>3, <2>4, <2>5, <2>6
<1>5. CASE PersistResult \/ (\E f \in {"file", "dir"} : AgentWrites(f))
  <2>1. /\ pc[Worker] \in {"persist", "agent"} /\ task[Worker] \in Tasks
        /\ UNCHANGED <<rows, view, inTx>> /\ UNCHANGED <<phase, boots, told, starts, life>>
    BY <1>0, <1>5 DEF PersistResult, AgentWrites, process, history, claims, db, Placed
  <2>2. /\ task'[Worker] = task[Worker]
        /\ \/ pc'[Worker] = "agent"
           \/ pc'[Worker] = "begin" /\ PersistResult
        /\ \A th \in Threads \ {Worker} :
             pc'[th] = pc[th] /\ sql'[th] = sql[th] /\ task'[th] = task[th]
    BY <1>0, <1>5, SMT DEF PersistResult, AgentWrites, threads, Call, TypeOK
  <2>3. /\ \A t \in Tasks : result'[t] = result[t] \/ result[t] = "empty"
        /\ \A t \in Tasks : result[t] \in {"file", "dir"} => result'[t] = result[t]
    BY <1>0, <1>5, <2>1, SMT DEF PersistResult, AgentWrites, TypeOK
  <2>4. PersistResult => result'[task[Worker]] \in {"file", "dir"}
    <3>1. result[task[Worker]] # "none"
      <4>1. rows[task[Worker]].status # "absent"
        BY <2>1, DaemonAssumption DEF LifeInv, Hands, Working
      <4> QED BY <2>1, <4>1 DEF LifeInv, Inv, Fresh
    <3> QED BY <1>0, <2>1, <3>1, SMT DEF PersistResult, TypeOK, ResultFile
  <2>5. Hands' /\ Waits' /\ StrandedOnlyByDeath'
    BY <2>1, <2>2, SMT DEF LifeInv, Hands, Waits, StrandedOnlyByDeath, Working
  <2>6. Files'
    BY <2>1, <2>2, <2>3, <2>4, SMT DEF LifeInv, Files, TxPc
  <2>7. Fetching'
    BY <1>0, <2>2, NotFetching
  <2> QED BY <2>5, <2>6, <2>7
<1>6. CASE ClaimNothing
  BY <1>6, LifeStutter DEF ClaimNothing
<1> QED BY <1>1, <1>2, <1>3, <1>4, <1>5, <1>6, <1>7 DEF WorkerStep

LEMMA LifeProcess ==
  ASSUME LifeInv, ProcessStep PROVE Hands' /\ Fetching' /\ Waits' /\ Files' /\ StrandedOnlyByDeath'
<1>0. TypeOK /\ Placed /\ QueueInv /\ Worker \in Threads
  BY DEF LifeInv, Inv, Threads
<1>1. UNCHANGED <<result, starts, life, told>> /\ boots' \in {boots, boots + 1} /\ boots \in Nat
  BY <1>0, DaemonAssumption
  DEF ProcessStep, StopWorker, CloseQueue, CloseStorage, Die, Boot, history, claims, TypeOK
<1>2. UNCHANGED rows \/ (CloseQueue /\ CommitQueue)
  BY Zenon DEF ProcessStep, StopWorker, CloseQueue, CloseStorage, Die, Boot, db
<1>3. \A t \in Tasks : Carried(t)
  BY <1>0, <1>2, CommitCarries DEF Carried
<1>4. Waits'
  <2>1. \A t \in Tasks : life'[t] <= boots'
    BY <1>0, <1>1, SMT DEF LifeInv, Waits, TypeOK
  <2> QED BY <1>1, <1>3, <2>1, SMT DEF LifeInv, Waits, Carried
<1>5. \A t \in Tasks : rows'[t].result_path = rows[t].result_path
  BY <1>3 DEF Carried
<1>6. CASE StopWorker \/ CloseQueue \/ CloseStorage
  <2>1. UNCHANGED <<pc, sql, task, boots>>
    BY <1>6 DEF StopWorker, CloseQueue, CloseStorage, threads
  <2>2. inTx' => inTx /\ UNCHANGED <<rows, view>>
    <3>1. CASE CommitQueue
      BY <1>0, <3>1, CommitCarries, Zenon
    <3>2. CASE UNCHANGED db
      BY <3>2 DEF db
    <3> QED BY <1>6, <3>1, <3>2, Zenon DEF StopWorker, CloseQueue, CloseStorage
  <2>3. UNCHANGED <<rows, queue>> \/ (rows' = queue /\ queue' = queue)
    BY <1>6, Zenon DEF StopWorker, CloseQueue, CloseStorage, CommitQueue, db
  <2>4. Working => UNCHANGED rows
    <3>1. Working => queue = rows
      BY <1>0 DEF Working, QueueInv
    <3> QED BY <2>3, <3>1
  <2>5. Hands'
    BY <1>1, <2>1, <2>4 DEF LifeInv, Hands, Working
  <2>6. Fetching'
    BY <1>1, <2>1, <2>3 DEF LifeInv, Fetching
  <2>7. Files'
    BY <1>1, <1>5, <2>1, <2>2 DEF LifeInv, Files
  <2>8. StrandedOnlyByDeath'
    BY <1>1, <2>1, <2>3 DEF LifeInv, StrandedOnlyByDeath, Fetching
  <2> QED BY <1>4, <2>5, <2>6, <2>7, <2>8
<1>7. CASE Die
  <2>1. /\ \A th \in Threads : pc'[th] = "off" /\ task'[th] = NoTask
        /\ UNCHANGED rows
    BY <1>7 DEF Die
  <2>2. queue' = rows
    BY <1>7, Zenon DEF Die
  <2> QED BY <1>0, <1>1, <1>4, <2>1, <2>2
    DEF LifeInv, Hands, Fetching, Files, StrandedOnlyByDeath, Working, TxPc
<1>8. CASE Boot
  <2>1. /\ pc'[Worker] = "poll" /\ task'[Worker] = task[Worker] /\ pc[Worker] = "off"
        /\ boots' = boots + 1
        /\ \A th \in Threads : pc'[th] \in {"poll", "idle"}
    BY <1>0, <1>8, SMT DEF Boot, Placed
  <2>2. queue = rows /\ UNCHANGED <<rows, queue>>
    BY <1>0, <1>8, <2>1 DEF Boot, QueueInv, db
  <2>3. StrandedOnlyByDeath'
    <3>1. \A t \in Tasks : life'[t] < boots'
      BY <1>0, <1>1, <2>1, SMT DEF LifeInv, Waits, TypeOK
    <3> QED BY <3>1 DEF StrandedOnlyByDeath
  <2>4. Hands' /\ Fetching'
    BY <2>1, <2>2 DEF LifeInv, Hands, Fetching, Working
  <2> QED BY <1>0, <1>1, <1>4, <2>1, <2>2, <2>3, <2>4 DEF LifeInv, Files, TxPc
<1> QED BY <1>6, <1>7, <1>8 DEF ProcessStep

LEMMA LifeStep == LifeInv /\ [Next]_vars => LifeInv'
<1> SUFFICES ASSUME LifeInv, [Next]_vars PROVE LifeInv'
  OBVIOUS
<1>1. Inv'
  BY InvStep DEF LifeInv
<1>2. ASSUME Next
      PROVE  Hands' /\ Fetching' /\ Waits' /\ Files' /\ StrandedOnlyByDeath'
  BY <1>2, LifeTx, LifeHandler, LifeWorker, LifeProcess, Zenon
  DEF Next, HandlerStep, WorkerStep, Threads
<1>3. Hands' /\ Fetching' /\ Waits' /\ Files' /\ StrandedOnlyByDeath'
  BY <1>2, LifeStutter
<1> QED BY <1>1, <1>3 DEF LifeInv

\* The life of a task goes on as LifeInv says, crashes and restarts included.
LEMMA AlwaysLife == Spec => []LifeInv
BY InitLife, LifeStep, PTL DEF Spec

\* A task is claimed once in its life, crashes and restarts included: the agent's side
\* effects happen at most once.
THEOREM ClaimedOnceOnly == Spec => []AtMostOnce
<1>1. LifeInv => AtMostOnce
  BY SMT DEF LifeInv, Waits, AtMostOnce
<1> QED BY <1>1, AlwaysLife, PTL

\* The worker only works on what it has claimed, and what is running or was cancelled
\* under its feet.
THEOREM WorkerKeepsClaim == Spec => []WorkerHoldsClaim
<1>1. LifeInv => WorkerHoldsClaim
  BY SMT DEF LifeInv, Hands, WorkerHoldsClaim
<1> QED BY <1>1, AlwaysLife, PTL

\* A task is left running by the death of the worker's thread or process only: no
\* error path of the worker that goes on with the next task leaves one behind.
THEOREM OnlyDeathStrands == Spec => []StrandedOnlyByDeath
<1>1. LifeInv => StrandedOnlyByDeath
  BY DEF LifeInv
<1> QED BY <1>1, AlwaysLife, PTL

\* A result that any reader can get hold of is on disk, a done task has one, and
\* reading it fails for a directory of that name only.
THEOREM ResultsExist == Spec => []ResultOnDisk
<1>1. LifeInv => ResultOnDisk
  BY NamedIsThere DEF ResultOnDisk, LifeInv, Waits, Files
<1> QED BY <1>1, AlwaysLife, PTL

-----------------------------------------------------------------------------
(* The daemon implements TaskLifecycle.  A step moves each row as          *)
(* TaskLifecycle allows, or not; the commit of a claim may move several.   *)

\* A step as TaskLifecycle sees it, of task t's row or of its result; and which step
\* makes the row.
Moves(t) ==
  \/ rows'[t].status = rows[t].status /\ rows'[t].result_path = rows[t].result_path
  \/ /\ rows'[t].result_path = rows[t].result_path
     /\ \/ /\ rows[t].status = "absent" /\ rows'[t].status = "pending"
           /\ \E h \in Handlers : pc[h] = "commit" /\ task[h] = t
        \/ rows[t].status = "pending" /\ rows'[t].status = "running"
        \/ rows[t].status \in Cancellable /\ rows'[t].status = "cancelled"
        \/ rows[t].status = "running" /\ rows'[t].status = "done" /\ rows[t].result_path
        \/ rows[t].status = "running" /\ rows'[t].status = "failed" /\ ~rows[t].result_path
  \/ /\ rows'[t].status = rows[t].status /\ rows[t].status \in {"running", "cancelled"}
     /\ rows'[t].result_path

LEMMA KeptMoves == ASSUME Kept, NEW t \in Tasks PROVE Moves(t)
BY DEF Kept, Moves

LEMMA CarriedMoves == ASSUME NEW t, Carried(t) PROVE Moves(t)
BY DEF Carried, Moves, Cancellable

\* The steps that may write the tasks table.
LEMMA RowsSteps ==
  ASSUME Next, ~UNCHANGED rows
  PROVE  \/ \E th \in Threads : TxStep(th)
         \/ \E h \in Handlers : QueueCancel(h)
         \/ CommitQueue \/ Ack \/ Nack
<1>1. ASSUME NEW h \in Handlers, NEW t \in Tasks, Request(h, t)
      PROVE  UNCHANGED rows
  BY <1>1, Zenon DEF Request, CreateTask, GetTask, GetResult, CancelTask, db
<1>2. ASSUME \/ \E h \in Handlers : ListTasks(h) \/ CancelRaises(h)
             \/ \E f \in {"file", "dir"} : AgentWrites(f)
             \/ WriteFails \/ ProcessStep
      PROVE  UNCHANGED rows \/ CommitQueue
  BY <1>2, Zenon DEF ListTasks, CancelRaises, AgentWrites, WriteFails, ProcessStep, StopWorker,
    CloseQueue, CloseStorage, Die, Boot, db
<1>3. ASSUME WorkerStep, ~Ack, ~Nack, ~TxStep(Worker)
      PROVE  UNCHANGED rows \/ CommitQueue
  BY <1>3, Zenon DEF WorkerStep, ClaimNext, Fetch, ClaimNothing, StopPolling, LoadTask,
    AgentEnds, PersistResult, WorkerRaises, db, vars
<1> QED BY <1>1, <1>2, <1>3 DEF Next, HandlerStep, Threads

LEMMA StepMoves ==
  ASSUME LifeInv, [Next]_vars, NEW t \in Tasks
  PROVE  Moves(t)
<1>0. TypeOK /\ Placed /\ QueueInv
  BY DEF LifeInv, Inv
<1>1. ASSUME NEW u, NEW from, NEW s, Moved(u, from, s), t # u
      PROVE  Moves(t)
  BY <1>1 DEF Moved, KeptButFor, Moves
<1>2. ASSUME NEW th \in Threads, TxStep(th)
      PROVE  Moves(t)
  <2>1. CASE Commit(th) /\ th # Worker /\ Moved(task[th], {"absent"}, "pending")
    <3>1. th \in Handlers /\ pc[th] = "commit"
      BY <2>1 DEF Commit, Threads
    <3> QED BY <1>1, <2>1, <3>1 DEF Moved, Moves
  <2>2. CASE Commit(th) /\ th = Worker /\ Named(task[th])
    <3>1. Working /\ rows[task[th]].status \in {"running", "cancelled"}
      BY <1>0, <2>2, DaemonAssumption, SMT DEF Commit, Placed, TxPc, Working, LifeInv, Hands
    <3> QED BY <2>2, <3>1 DEF Named, KeptButFor, Moves
  <2> QED BY <1>2, <2>1, <2>2, TxMoves, KeptMoves
<1>3. ASSUME NEW h \in Handlers, QueueCancel(h)
      PROVE  Moves(t)
  <2>1. task[h] \in Tasks /\ SetStatusWhere(task[h], Cancellable, "cancelled")
    BY <1>0, <1>3 DEF QueueCancel, Placed
  <2>2. Kept \/ Moved(task[h], Cancellable, "cancelled")
    BY <1>0, <2>1, SetStatusWhereMoves
  <2> QED BY <1>1, <2>2, KeptMoves DEF Moved, Moves
<1>4. CASE CommitQueue
  BY <1>0, <1>4, CommitCarries, CarriedMoves
<1>5. CASE Ack
  <2>1. /\ task[Worker] \in Tasks /\ SetStatusWhere(task[Worker], {"running"}, "done")
        /\ rows[task[Worker]].result_path
    BY <1>0, <1>5, DaemonAssumption DEF Ack, Placed, LifeInv, Hands, Working
  <2>2. Kept \/ Moved(task[Worker], {"running"}, "done")
    BY <1>0, <2>1, SetStatusWhereMoves
  <2> QED BY <1>1, <2>1, <2>2, KeptMoves DEF Moved, Moves
<1>6. CASE Nack
  <2>1. /\ task[Worker] \in Tasks /\ SetStatusWhere(task[Worker], {"running"}, "failed")
        /\ ~rows[task[Worker]].result_path
    BY <1>0, <1>6, DaemonAssumption DEF Nack, Placed, LifeInv, Hands, Working
  <2>2. Kept \/ Moved(task[Worker], {"running"}, "failed")
    BY <1>0, <2>1, SetStatusWhereMoves
  <2> QED BY <1>1, <2>1, <2>2, KeptMoves DEF Moved, Moves
<1>7. CASE UNCHANGED rows
  BY <1>7, KeptMoves DEF Kept
<1>8. CASE UNCHANGED vars
  BY <1>7, <1>8 DEF vars, db
<1>9. CASE Next
  BY <1>2, <1>3, <1>4, <1>5, <1>6, <1>7, <1>9, RowsSteps
<1> QED BY <1>8, <1>9

LEMMA MovesImplement ==
  ASSUME NEW t \in Tasks, rows[t].result_path \in BOOLEAN, rows'[t].result_path \in BOOLEAN,
         Moves(t)
  PROVE  [Lifecycle(t)!Next]_<<rows[t].status, rows[t].result_path>>
<1>1. CASE rows'[t].status = rows[t].status /\ rows'[t].result_path = rows[t].result_path
  BY <1>1
<1>2. CASE /\ rows'[t].result_path = rows[t].result_path
           /\ rows[t].status = "absent" /\ rows'[t].status = "pending"
  BY <1>2 DEF Lifecycle!Next, Lifecycle!Submit, Lifecycle!Move
<1>3. CASE /\ rows'[t].result_path = rows[t].result_path
           /\ rows[t].status = "pending" /\ rows'[t].status = "running"
  BY <1>3 DEF Lifecycle!Next, Lifecycle!Claim, Lifecycle!Move
<1>4. CASE /\ rows'[t].result_path = rows[t].result_path
           /\ rows[t].status \in Cancellable /\ rows'[t].status = "cancelled"
  BY <1>4 DEF Lifecycle!Next, Lifecycle!Cancel, Lifecycle!Move, Lifecycle!Cancellable, Cancellable
<1>5. CASE /\ rows'[t].result_path = rows[t].result_path
           /\ rows[t].status = "running" /\ rows'[t].status = "done" /\ rows[t].result_path
  BY <1>5 DEF Lifecycle!Next, Lifecycle!Finish, Lifecycle!Move
<1>6. CASE /\ rows'[t].result_path = rows[t].result_path
           /\ rows[t].status = "running" /\ rows'[t].status = "failed" /\ ~rows[t].result_path
  BY <1>6 DEF Lifecycle!Next, Lifecycle!Fail, Lifecycle!Move
<1>7. CASE /\ rows'[t].status = rows[t].status /\ rows[t].status \in {"running", "cancelled"}
           /\ rows'[t].result_path
  BY <1>7 DEF Lifecycle!Next, Lifecycle!Publish
<1> QED BY <1>1, <1>2, <1>3, <1>4, <1>5, <1>6, <1>7 DEF Moves

\* "create, claim, run, publish, settle" in this order and once for each task: whatever
\* the threads, crashes and faults do, the table shows the life TaskLifecycle promises.
THEOREM DaemonImplements == Spec => ImplementsLifecycle
<1>1. Init => \A t \in Tasks : Lifecycle(t)!Init
  BY SMT DEF Init, AbsentRow, Lifecycle!Init
<1>2. LifeInv /\ [Next]_vars =>
        [\A t \in Tasks : [Lifecycle(t)!Next]_<<rows[t].status, rows[t].result_path>>]_vars
  <2>1. ASSUME LifeInv, [Next]_vars, NEW t \in Tasks
        PROVE  [Lifecycle(t)!Next]_<<rows[t].status, rows[t].result_path>>
    <3>1. TypeOK /\ TypeOK'
      BY <2>1, InvStep DEF LifeInv, Inv
    <3>2. rows[t].result_path \in BOOLEAN /\ rows'[t].result_path \in BOOLEAN
      BY <3>1, SMT DEF TypeOK, Row
    <3> QED BY <2>1, <3>2, StepMoves, MovesImplement
  <2> QED BY <2>1
<1> QED BY <1>1, <1>2, InitLife, LifeStep, PTL DEF Spec, ImplementsLifecycle

-----------------------------------------------------------------------------
(* What status reads show.  A read may be dirty, of an insert whose COMMIT *)
(* fails; what it shows is then gone for good, as no id is used twice.     *)

Follows(s) == {s} \cup MayFollow(s)

\* What a client saw last is what the row is, or what it has gone on from; of a task
\* that is being inserted a client can only have seen the uncommitted row.
SeenOfRows ==
  /\ \A t \in Tasks :
       /\ result[t] = "none" => seen[t] = "unseen"
       /\ \/ seen[t] \in {"unseen", "pending"}
          \/ seen[t] = "absent" /\ rows[t].status = "absent"
          \/ rows[t].status \in Follows(seen[t])
  /\ \A h \in Handlers :
       /\ pc[h] \in {"begin", "exec"} => seen[task[h]] = "unseen"
       /\ pc[h] = "commit" => seen[task[h]] # "absent"

SeenInv == LifeInv /\ SeenOfRows

\* A committed row only moves forward, and is never deleted.
LEMMA RowsMoveOn ==
  ASSUME LifeInv, [Next]_vars, NEW t \in Tasks
  PROVE  \/ rows'[t].status = rows[t].status
         \/ rows[t].status = "absent" /\ rows'[t].status = "pending"
         \/ rows[t].status = "pending" /\ rows'[t].status \in {"running", "cancelled"}
         \/ rows[t].status = "running" /\ rows'[t].status \in {"done", "failed", "cancelled"}
BY StepMoves DEF Moves, Cancellable

\* A row appears by the COMMIT of the handler that inserted it.
LEMMA RowsAppear ==
  ASSUME LifeInv, [Next]_vars, NEW t \in Tasks,
         rows[t].status = "absent", rows'[t].status # "absent"
  PROVE  \E h \in Handlers : pc[h] = "commit" /\ task[h] = t
BY StepMoves DEF Moves, Cancellable

\* The connection's view shows the committed row, or "pending" for the one that a
\* handler has inserted and not committed.
LEMMA ViewShows ==
  ASSUME Inv, StorageOpen, NEW t \in Tasks
  PROVE  /\ \/ view[t].status = rows[t].status
            \/ /\ view[t].status = "pending" /\ rows[t].status = "absent"
               /\ \E h \in Handlers : pc[h] = "commit" /\ task[h] = t
         /\ \A h \in Handlers : pc[h] = "commit" /\ task[h] = t => view[t].status = "pending"
<1>1. \A th \in Threads : Inside(th) => inTx
  BY DEF Inv, TxInv, TxExclusive
<1>2. ASSUME NEW h \in Handlers, pc[h] = "commit", task[h] = t
      PROVE  view[t].status = "pending" /\ rows[t].status = "absent"
  BY <1>1, <1>2 DEF Inv, Snapshot, Placed, Fresh, Threads, TxPc, Inside
<1>3. CASE view = rows
  BY <1>2, <1>3
<1>4. CASE view # rows
  <2>1. PICK th \in Threads : pc[th] = "commit" /\ inTx
    BY <1>4 DEF Inv, Snapshot, TxInv, TxExclusive, Inside
  <2>2. CASE th = Worker
    BY <1>2, <2>1, <2>2 DEF Inv, Snapshot, Placed, TxPc
  <2>3. CASE th \in Handlers
    <3>1. t # task[th] => view[t] = rows[t]
      BY <2>1 DEF Inv, Snapshot
    <3> QED BY <1>2, <2>1, <2>3, <3>1
  <2> QED BY <2>2, <2>3 DEF Threads
<1> QED BY <1>3, <1>4

\* What a read of the connection's view may show of t after what was seen before.
LEMMA ReadFollows ==
  ASSUME SeenInv, StorageOpen, NEW t \in Tasks
  PROVE  \/ view[t].status \in Follows(seen[t])
         \/ view[t].status = "absent" /\ "created" \notin told[t]
<1>0. view[t].status \in Status \cup {"absent"}
  BY DEF SeenInv, LifeInv, Inv, TypeOK, Row
<1>1. CASE view[t].status = "absent"
  BY <1>1, ViewShows DEF SeenInv, LifeInv, Inv, CreateAnswered
<1>2. CASE view[t].status # "absent"
  <2>1. CASE seen[t] \in {"unseen", "pending"}
    BY <1>0, <1>2, <2>1 DEF Follows, MayFollow
  <2>2. CASE seen[t] = "absent" /\ rows[t].status = "absent"
    BY <1>2, <2>2, ViewShows DEF SeenInv, LifeInv, SeenOfRows
  <2>3. CASE rows[t].status \in Follows(seen[t]) /\ seen[t] \notin {"unseen", "pending", "absent"}
    <3>1. CASE seen[t] = "running"
      <4>1. rows[t].status # "absent"
        BY <2>3, <3>1 DEF Follows, MayFollow, Status, Terminal
      <4> QED BY <2>3, <4>1, ViewShows DEF SeenInv, LifeInv
    <3>2. CASE seen[t] # "running"
      <4>1. rows[t].status = seen[t]
        BY <2>3, <3>2 DEF Follows, MayFollow
      <4> QED BY <2>3, <4>1, ViewShows DEF SeenInv, LifeInv
    <3> QED BY <3>1, <3>2
  <2> QED BY <2>1, <2>2, <2>3 DEF SeenInv, SeenOfRows, Follows, MayFollow
<1> QED BY <1>1, <1>2

\* A read: each client sees what the view has, of a task whose id it knows, or sees
\* what it saw before.
Reads ==
  /\ phase = "up"
  /\ \A t \in Tasks :
       seen'[t] = seen[t] \/ (seen'[t] = view[t].status /\ (Known(t) \/ view[t].status # "absent"))

LEMMA StepReads ==
  ASSUME TypeOK, [Next]_vars
  PROVE  \/ UNCHANGED seen
         \/ Reads /\ UNCHANGED <<db, threads, result>>
<1>1. ASSUME NEW h \in Handlers, NEW t \in Tasks, GetTask(h, t)
      PROVE  Reads /\ UNCHANGED <<db, threads, result>>
  BY <1>1 DEF GetTask, Serves, Reads, TypeOK
<1>2. ASSUME NEW h \in Handlers, ListTasks(h)
      PROVE  Reads /\ UNCHANGED <<db, threads, result>>
  <2>1. PICK s \in {"any"} \cup Status, n \in {-1, 1} :
          seen' = [t \in Tasks |-> IF t \in Newest(s, n) THEN view[t].status ELSE seen[t]]
    BY <1>2, Zenon DEF ListTasks
  <2>2. \A t \in Newest(s, n) : view[t].status # "absent"
    BY DEF Newest
  <2> QED BY <1>2, <2>1, <2>2 DEF ListTasks, Serves, Reads
<1>3. ASSUME NEW h \in Handlers, NEW t \in Tasks, Request(h, t), ~GetTask(h, t)
      PROVE  UNCHANGED seen
  BY <1>3, Zenon DEF Request, CreateTask, GetResult, CancelTask, history
<1>4. ASSUME NEW th \in Threads, TxStep(th)
      PROVE  UNCHANGED seen
  BY <1>4, Zenon DEF TxStep, Begin, BeginRaises, Exec, Commit, TxRaises, history
<1>5. ASSUME NEW h \in Handlers, QueueCancel(h) \/ CancelRaises(h)
      PROVE  UNCHANGED seen
  BY <1>5, Zenon DEF QueueCancel, CancelRaises, history
<1>6. ASSUME \/ \E f \in {"file", "dir"} : AgentWrites(f)
             \/ WriteFails \/ ProcessStep
      PROVE  UNCHANGED seen
  BY <1>6, Zenon DEF AgentWrites, WriteFails, ProcessStep, StopWorker, CloseQueue, CloseStorage,
    Die, Boot, history
<1>7. ASSUME WorkerStep, ~TxStep(Worker)
      PROVE  UNCHANGED seen
  BY <1>7, Zenon DEF WorkerStep, ClaimNext, Fetch, ClaimNothing, StopPolling, LoadTask,
    AgentEnds, PersistResult, Ack, Nack, WorkerRaises, history, vars
<1>8. CASE UNCHANGED vars
  BY <1>8 DEF vars, history
<1>9. CASE Next
  <2>1. CASE \E h \in Handlers : HandlerStep(h)
    BY <1>4, <1>5, <2>1 DEF HandlerStep, Threads
  <2>2. CASE \E h \in Handlers, t \in Tasks : Request(h, t)
    BY <1>1, <1>3, <2>2
  <2>3. CASE WorkerStep
    BY <1>4, <1>7, <2>3 DEF Threads
  <2> QED BY <1>2, <1>5, <1>6, <1>9, <2>1, <2>2, <2>3, Zenon DEF Next
<1> QED BY <1>8, <1>9

\* How the inserts go on: a handler begins one for a task that had no workspace.
InsertsGoOn ==
  /\ \A t \in Tasks : result'[t] = "none" => result[t] = "none"
  /\ \A h \in Handlers :
       /\ pc'[h] \in {"begin", "exec"} =>
            \/ pc[h] \in {"begin", "exec"} /\ task'[h] = task[h]
            \/ result[task'[h]] = "none" /\ task'[h] \in Tasks
       /\ pc'[h] = "commit" => pc[h] \in {"exec", "commit"} /\ task'[h] = task[h]

LEMMA StepInserts ==
  ASSUME TypeOK, Placed, [Next]_vars
  PROVE  InsertsGoOn
<1> USE DaemonAssumption DEF TypeOK, Threads
<1>0. CASE UNCHANGED <<pc, task, result>>
  BY <1>0 DEF InsertsGoOn
<1>1. ASSUME NEW th \in Threads, TxStep(th)
      PROVE  InsertsGoOn
  <2>1. /\ UNCHANGED result
        /\ \A u \in Threads \ {th} : pc'[u] = pc[u] /\ task'[u] = task[u]
        /\ pc[th] \in TxPc
    BY <1>1, TxEffect
  <2>2. th \in Handlers => \/ pc'[th] = "exec" /\ task'[th] = task[th] /\ pc[th] = "begin"
                           \/ pc'[th] = "commit" /\ task'[th] = task[th] /\ pc[th] = "exec"
                           \/ pc'[th] = "idle"
    <3>1. CASE Begin(th)
      <4>1. pc[th] = "begin" /\ Goto(th, "exec")
        BY <3>1 DEF Begin
      <4> QED BY <4>1 DEF Goto
    <3>2. CASE Exec(th)
      <4>1. pc[th] = "exec" /\ Goto(th, "commit")
        BY <3>2 DEF Exec
      <4> QED BY <4>1 DEF Goto
    <3>3. CASE (BeginRaises(th) \/ TxRaises(th) \/ Commit(th)) /\ th # Worker
      <4>1. Leave(th, "idle")
        BY <3>3, Zenon DEF BeginRaises, TxRaises, Commit, Raise
      <4> QED BY <4>1 DEF Leave, Call
    <3> QED BY <1>1, <3>1, <3>2, <3>3 DEF TxStep
  <2> QED BY <2>1, <2>2 DEF InsertsGoOn
<1>2. ASSUME NEW h \in Handlers, QueueCancel(h) \/ CancelRaises(h)
      PROVE  InsertsGoOn
  BY <1>2 DEF QueueCancel, CancelRaises, Leave, Call, InsertsGoOn
<1>3. ASSUME NEW h \in Handlers, NEW t \in Tasks, CreateTask(h, t)
      PROVE  InsertsGoOn
  BY <1>3 DEF CreateTask, Call, InsertsGoOn
<1>4. ASSUME NEW h \in Handlers, NEW t \in Tasks, CancelTask(h, t)
      PROVE  InsertsGoOn
  BY <1>4 DEF CancelTask, Call, InsertsGoOn
<1>5. ASSUME NEW h \in Handlers, NEW t \in Tasks,
             GetTask(h, t) \/ GetResult(h, t)
      PROVE  InsertsGoOn
  BY <1>0, <1>5, Zenon DEF GetTask, GetResult, threads
<1>6. ASSUME \/ WorkerStep /\ ~TxStep(Worker)
             \/ WriteFails \/ \E f \in {"file", "dir"} : AgentWrites(f)
      PROVE  InsertsGoOn
  <2>1. \A h \in Handlers : pc'[h] = pc[h] /\ task'[h] = task[h]
    <3>1. CASE UNCHANGED threads
      BY <3>1 DEF threads
    <3>2. ASSUME NEW l, Goto(Worker, l) \/ Leave(Worker, l)
          PROVE  \A h \in Handlers : pc'[h] = pc[h] /\ task'[h] = task[h]
      BY <3>2 DEF Goto, Leave, Call
    <3>3. ASSUME NEW l, NEW s, NEW t, Call(Worker, l, s, t)
          PROVE  \A h \in Handlers : pc'[h] = pc[h] /\ task'[h] = task[h]
      BY <3>3 DEF Call
    <3>4. \/ UNCHANGED threads
          \/ \E l : Goto(Worker, l) \/ Leave(Worker, l) \/ \E s, t : Call(Worker, l, s, t)
      BY <1>6, Zenon DEF WorkerStep, WriteFails, AgentWrites, ClaimNext, Fetch, ClaimNothing,
        StopPolling, LoadTask, AgentEnds, PersistResult, Ack, Nack, WorkerRaises, vars
    <3> QED BY <3>1, <3>2, <3>3, <3>4
  <2>2. \A t \in Tasks : result'[t] = "none" => result[t] = "none"
    <3>1. UNCHANGED result \/ PersistResult \/ \E f \in {"file", "dir"} : AgentWrites(f)
      BY <1>6, Zenon DEF WorkerStep, WriteFails, ClaimNext, Fetch, ClaimNothing, StopPolling,
        LoadTask, AgentEnds, Ack, Nack, WorkerRaises, vars
    <3> QED BY <3>1 DEF PersistResult, AgentWrites
  <2> QED BY <2>1, <2>2 DEF InsertsGoOn
<1>7. CASE ProcessStep
  BY <1>7 DEF ProcessStep, StopWorker, CloseQueue, CloseStorage, Die, Boot, threads, InsertsGoOn
<1>8. CASE UNCHANGED vars
  BY <1>0, <1>8 DEF vars, threads
<1>9. CASE Next
  <2>1. CASE \E h \in Handlers : HandlerStep(h)
    BY <1>1, <1>2, <2>1 DEF HandlerStep
  <2>2. CASE \E h \in Handlers, t \in Tasks : Request(h, t)
    BY <1>3, <1>4, <1>5, <2>2 DEF Request
  <2>3. CASE \E h \in Handlers : ListTasks(h)
    BY <1>0, <2>3, Zenon DEF ListTasks, threads
  <2>4. CASE WorkerStep
    BY <1>1, <1>6, <2>4
  <2> QED BY <1>2, <1>6, <1>7, <1>9, <2>1, <2>2, <2>3, <2>4, Zenon DEF Next
<1> QED BY <1>8, <1>9

LEMMA StepSeen == SeenInv /\ [Next]_vars => SeenInv'
<1> SUFFICES ASSUME SeenInv, [Next]_vars PROVE SeenInv'
  OBVIOUS
<1>0. LifeInv /\ LifeInv' /\ Inv /\ TypeOK /\ Placed /\ SeenOfRows
  BY LifeStep DEF SeenInv, LifeInv, Inv
<1>1. InsertsGoOn
  BY <1>0, StepInserts
<1>2. ASSUME NEW t \in Tasks, seen[t] \notin {"unseen", "pending"}
      PROVE  \/ seen[t] = "absent" /\ rows'[t].status = "absent"
             \/ rows'[t].status \in Follows(seen[t])
  <2>1. CASE rows[t].status \in Follows(seen[t]) /\ seen[t] # "absent"
    BY <1>0, <1>2, <2>1, RowsMoveOn DEF Follows, MayFollow, Status, Terminal
  <2>2. CASE seen[t] = "absent" /\ rows[t].status = "absent"
    BY <1>0, <2>2, RowsAppear DEF SeenOfRows
  <2> QED BY <1>0, <1>2, <2>1, <2>2 DEF SeenOfRows, Follows, MayFollow
<1>3. CASE UNCHANGED seen
  <2>1. ASSUME NEW h \in Handlers, pc'[h] \in {"begin", "exec"}
        PROVE  seen[task'[h]] = "unseen"
    BY <1>0, <1>1, <2>1 DEF SeenOfRows, InsertsGoOn
  <2>2. ASSUME NEW h \in Handlers, pc'[h] = "commit"
        PROVE  seen[task'[h]] # "absent"
    BY <1>0, <1>1, <2>2 DEF SeenOfRows, InsertsGoOn
  <2>3. \A t \in Tasks : result'[t] = "none" => seen[t] = "unseen"
    BY <1>0, <1>1 DEF SeenOfRows, InsertsGoOn
  <2> QED BY <1>0, <1>2, <1>3, <2>1, <2>2, <2>3 DEF SeenInv, SeenOfRows
<1>4. CASE Reads /\ UNCHANGED <<db, threads, result>>
  <2>1. StorageOpen /\ UNCHANGED <<rows, pc, task, result>>
    BY <1>4 DEF Reads, StorageOpen, db, threads
  <2>2. ASSUME NEW t \in Tasks, seen'[t] # seen[t]
        PROVE  seen'[t] = view[t].status /\ (Known(t) \/ view[t].status # "absent")
    BY <1>4, <2>2 DEF Reads
  <2>3. ASSUME NEW t \in Tasks, result[t] = "none"
        PROVE  seen'[t] = "unseen"
    <3>1. view[t].status = "absent" /\ ~Known(t)
      BY <1>0, <2>3, NothingToRead DEF SeenOfRows, Known, Inv, Fresh, Unanswered
    <3> QED BY <1>0, <2>2, <2>3, <3>1 DEF SeenOfRows
  <2>4. ASSUME NEW t \in Tasks
        PROVE  \/ seen'[t] \in {"unseen", "pending"}
               \/ seen'[t] = "absent" /\ rows[t].status = "absent"
               \/ rows[t].status \in Follows(seen'[t])
    BY <1>0, <2>1, <2>2, ViewShows DEF SeenOfRows, Follows
  <2>5. ASSUME NEW h \in Handlers, pc[h] \in {"begin", "exec"}
        PROVE  seen'[task[h]] = "unseen"
    <3>1. task[h] \in Tasks /\ rows[task[h]].status = "absent" /\ Unanswered(task[h])
      BY <1>0, <2>5 DEF Placed, Inv, Fresh, TxPc, Threads
    <3>2. view[task[h]].status = "absent"
      BY <1>0, <2>5, <3>1, NothingToRead DEF Inv, Snapshot, Threads
    <3>3. ~Known(task[h])
      BY <1>0, <2>5, <3>1 DEF SeenOfRows, Known, Unanswered
    <3> QED BY <1>0, <2>2, <2>5, <3>1, <3>2, <3>3 DEF SeenOfRows
  <2>6. ASSUME NEW h \in Handlers, pc[h] = "commit"
        PROVE  seen'[task[h]] # "absent"
    <3>1. task[h] \in Tasks
      BY <1>0, <2>6 DEF Placed, TxPc, Threads
    <3>2. view[task[h]].status = "pending"
      BY <1>0, <2>1, <2>6, <3>1, ViewShows
    <3> QED BY <1>0, <2>2, <2>6, <3>1, <3>2 DEF SeenOfRows
  <2> QED BY <1>0, <2>1, <2>3, <2>4, <2>5, <2>6 DEF SeenInv, SeenOfRows
<1> QED BY <1>0, <1>3, <1>4, StepReads

\* GET never takes back what it showed, whatever is rolled back or crashes between two
\* reads, but for an insert that was seen before it was committed.
THEOREM ReadsGoForward == Spec => ReadsMonotone
<1>1. Init => SeenInv
  <2>1. Init => SeenOfRows
    BY DaemonAssumption DEF SeenOfRows, Init, Threads
  <2> QED BY <2>1, InitLife DEF SeenInv
<1>2. SeenInv /\ [Next]_vars =>
        [\A t \in Tasks :
           \/ seen'[t] \in {seen[t]} \cup MayFollow(seen[t])
           \/ seen'[t] = "absent" /\ "created" \notin told[t]]_seen
  <2> SUFFICES ASSUME SeenInv, Reads, NEW t \in Tasks, seen'[t] # seen[t]
               PROVE  \/ seen'[t] \in {seen[t]} \cup MayFollow(seen[t])
                      \/ seen'[t] = "absent" /\ "created" \notin told[t]
    BY StepReads DEF SeenInv, LifeInv, Inv
  <2>1. StorageOpen /\ seen'[t] = view[t].status
    BY DEF Reads, StorageOpen
  <2> QED BY <2>1, ReadFollows DEF Follows
<1> QED BY <1>1, <1>2, StepSeen, PTL DEF Spec, ReadsMonotone

=============================================================================
