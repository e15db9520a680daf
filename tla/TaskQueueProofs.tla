-------------------------- MODULE TaskQueueProofs --------------------------
(***************************************************************************)
(* Theorems about TaskQueue, for every number of tasks, workers, callers   *)
(* and crashes, every priority and every schedule.                         *)
(***************************************************************************)
EXTENDS TaskQueue, TLAPS

-----------------------------------------------------------------------------
(* Types, and what each user holds at each place *)

Waits == {"idle", "claim"}
Works == {"work", "publish", "ack", "done", "failed"}

Placed ==
  /\ \A w \in Workers :
       \/ pc[w] \in Waits /\ task[w] = None
       \/ pc[w] \in Works \cup {"fetch"} /\ task[w] \in Tasks
  /\ \A a \in Callers :
       pc[a] = "idle" \/ (pc[a] = "cancel" /\ task[a] \in Tasks)

\* The tables and the lock have their types.
DbTypes ==
  /\ rows \in [Tasks -> Row] /\ view \in [Tasks -> Row]
  /\ lock \in Conns \cup {None}
  /\ \A t \in Tasks : Unstarted(rows[t]) /\ Unstarted(view[t])

\* The users' part of the types.
UserTypes ==
  /\ pc \in [Users -> Waits \cup Works \cup {"fetch", "cancel"}]
  /\ task \in [Users -> Tasks \cup {None}]
  /\ at \in [Users -> Nat]

OtherTypes ==
  /\ published \in SUBSET Tasks
  /\ created \in [Tasks -> Nat] /\ clock \in Nat
  /\ crashes \in 0 .. MaxCrashes
  /\ starts \in [Tasks -> Nat]
  /\ told \in SUBSET Tasks
  /\ before \in [Tasks -> SUBSET Tasks]

Shape == DbTypes /\ UserTypes /\ OtherTypes /\ Placed

LEMMA ShapeTypes == Shape => TypeOK
<1>1. Waits \cup Works \cup {"fetch", "cancel"}
        = {"idle", "claim", "fetch", "work", "publish", "ack", "done", "failed", "cancel"}
  BY SMT DEF Waits, Works
<1> QED BY <1>1, Zenon DEF Shape, TypeOK, DbTypes, UserTypes, OtherTypes

LEMMA RowUpdates ==
  /\ \A r \in Row, s \in Status :
       [r EXCEPT !.status = s] \in Row /\ [r EXCEPT !.status = s].status = s
  /\ \A r \in Row, x \in Nat :
       /\ [r EXCEPT !.started_at = x] \in Row /\ [r EXCEPT !.started_at = x].status = r.status
       /\ [r EXCEPT !.completed_at = x] \in Row
       /\ [r EXCEPT !.completed_at = x].status = r.status
<1>1. ASSUME NEW r \in Row, NEW s \in Status
      PROVE  [r EXCEPT !.status = s] \in Row /\ [r EXCEPT !.status = s].status = s
  BY SMT DEF Row
<1>2. ASSUME NEW r \in Row, NEW x \in Nat
      PROVE  /\ [r EXCEPT !.started_at = x] \in Row
             /\ [r EXCEPT !.started_at = x].status = r.status
             /\ [r EXCEPT !.completed_at = x] \in Row
             /\ [r EXCEPT !.completed_at = x].status = r.status
  BY SMT DEF Row
<1> QED BY <1>1, <1>2

LEMMA SettledType ==
  ASSUME DbTypes, NEW t \in Tasks, NEW s \in Terminal, NEW x \in Nat
  PROVE  /\ Settled(t, s, x) \in [Tasks -> Row]
         /\ \A u \in Tasks : Unstarted(Settled(t, s, x)[u])
         /\ \A u \in Tasks : u # t => Settled(t, s, x)[u] = view[u]
         /\ Settled(t, s, x)[t].status = s
<1>1. view[t] \in Row /\ s \in Status
  BY DEF DbTypes, Status
<1> DEFINE q == [view[t] EXCEPT !.status = s]
<1> DEFINE r == [q EXCEPT !.completed_at = x]
<1>2. Settled(t, s, x) = [view EXCEPT ![t] = r]
  BY DEF Settled
<1>3. r \in Row /\ r.status = s
  <2>1. q \in Row /\ q.status = s
    BY <1>1, RowUpdates
  <2> HIDE DEF q
  <2> QED BY <2>1, RowUpdates
<1> HIDE DEF r
<1>4. view \in [Tasks -> Row] /\ \A u \in Tasks : Unstarted(view[u])
  BY DEF DbTypes
<1> QED BY <1>2, <1>3, <1>4, SMT DEF Unstarted, Terminal

LEMMA FinishedTypes ==
  ASSUME DbTypes, NEW u \in Users, NEW new \in [Tasks -> Row],
         \A t \in Tasks : Unstarted(new[t]), Finished(u, new)
  PROVE  DbTypes'
<1>1. ConnOf[u] \in Conns
  BY QueueAssumption
<1> QED BY <1>1, SMT DEF Finished, DbTypes, Unstarted

\* What a step that only moves one user leaves to be shown.
LEMMA GotoTypes ==
  ASSUME UserTypes, Placed, NEW u \in Users, NEW l, NEW t \in Tasks \cup {None}, NEW x \in Nat,
         Goto(u, l, t, x),
         u \in Workers => \/ l \in Waits /\ t = None
                          \/ l \in Works \cup {"fetch"} /\ t \in Tasks,
         u \in Callers => l = "idle" \/ (l = "cancel" /\ t \in Tasks)
  PROVE  UserTypes' /\ Placed'
<1>2. l \in Waits \cup Works \cup {"fetch", "cancel"}
  BY QueueAssumption DEF Users, Waits
<1>3. UserTypes'
  BY <1>2, SMT DEF UserTypes, Goto
<1>4. \A v \in Users : /\ pc'[v] = IF v = u THEN l ELSE pc[v]
                       /\ task'[v] = IF v = u THEN t ELSE task[v]
  BY SMT DEF UserTypes, Goto
<1>5. Placed'
  BY <1>4, QueueAssumption, SMT DEF Placed, Users
<1> QED BY <1>3, <1>5

LEMMA InitShape == Init => Shape
<1> SUFFICES ASSUME Init PROVE Shape
  OBVIOUS
<1>1. [status |-> "absent", started_at |-> 0, completed_at |-> 0] \in Row
  BY SMT DEF Row
<1>2. rows = [t \in Tasks |-> [status |-> "absent", started_at |-> 0, completed_at |-> 0]]
      /\ view = rows /\ lock = None
  BY DEF Init
<1>3. DbTypes
  BY <1>1, <1>2, SMT DEF DbTypes, Unstarted
<1>4. UserTypes /\ Placed
  BY QueueAssumption, SMT DEF Init, UserTypes, Placed, Users, Waits
<1>5. OtherTypes
  BY QueueAssumption, SMT DEF Init, OtherTypes
<1> QED BY <1>3, <1>4, <1>5 DEF Shape

LEMMA SameUsers ==
  ASSUME UserTypes, Placed, UNCHANGED users PROVE UserTypes' /\ Placed'
<1>1. UNCHANGED pc /\ UNCHANGED task /\ UNCHANGED at
  BY DEF users
<1>2. UserTypes'
  BY <1>1 DEF UserTypes
<1>3. Placed'
  BY <1>1 DEF Placed
<1> QED BY <1>2, <1>3

LEMMA SameDb == ASSUME DbTypes, UNCHANGED db PROVE DbTypes'
BY SMT DEF DbTypes, db, Unstarted

\* The steps of a submission and of the clock.
Outside == Tick \/ \E t \in Tasks : Construct(t) \/ Insert(t)

LEMMA OutsideShape == ASSUME Shape, Outside PROVE Shape'
<1> USE DEF Shape
<1>1. CASE Tick
  <2>1. OtherTypes'
    BY <1>1, SMT DEF Tick, OtherTypes, history
  <2>2. UNCHANGED <<db, users>>
    BY <1>1 DEF Tick
  <2> QED BY <2>1, <2>2, SameUsers, SameDb
<1>2. ASSUME NEW t \in Tasks, Construct(t) PROVE Shape'
  <2>1. OtherTypes'
    BY <1>2, SMT DEF Construct, OtherTypes
  <2>2. UNCHANGED <<db, users>>
    BY <1>2 DEF Construct
  <2> QED BY <2>1, <2>2, SameUsers, SameDb
<1>3. ASSUME NEW t \in Tasks, Insert(t) PROVE Shape'
  <2>1. rows' = [rows EXCEPT ![t] = [rows[t] EXCEPT !.status = "pending"]]
        /\ view' = rows' /\ UNCHANGED lock /\ rows[t].status = "absent"
    BY <1>3 DEF Insert
  <2> DEFINE r == [rows[t] EXCEPT !.status = "pending"]
  <2>2. r \in Row /\ Unstarted(r)
    BY <2>1, SMT DEF DbTypes, Row, Unstarted, Status
  <2> HIDE DEF r
  <2>3. rows' = [rows EXCEPT ![t] = r]
    BY <2>1 DEF r
  <2>4. DbTypes'
    BY <2>1, <2>2, <2>3, SMT DEF DbTypes, Unstarted
  <2>5. OtherTypes'
    BY <1>3, SMT DEF Insert, OtherTypes, history
  <2>6. UNCHANGED users
    BY <1>3 DEF Insert
  <2> QED BY <2>4, <2>5, <2>6, SameUsers
<1> QED BY <1>1, <1>2, <1>3 DEF Outside

LEMMA WorkerShape == ASSUME Shape, NEW w \in Workers, WorkerStep(w) PROVE Shape'
<1> USE DEF Shape
<1>0. /\ w \in Users /\ w \notin Callers
      /\ clock \in Nat /\ at[w] \in Nat /\ view \in [Tasks -> Row]
      /\ \A t \in Tasks : Unstarted(view[t])
      /\ pc[w] \notin Waits => task[w] \in Tasks
  BY QueueAssumption, SMT DEF Users, UserTypes, OtherTypes, DbTypes, Placed, Waits, Works
<1>1. CASE ReadNow(w)
  <2>1. UserTypes' /\ Placed'
    BY <1>0, <1>1, GotoTypes, SMT DEF ReadNow, Waits
  <2>2. OtherTypes' /\ UNCHANGED db
    BY <1>1, SMT DEF ReadNow, OtherTypes, history
  <2> QED BY <2>1, <2>2, SameDb
<1>2. CASE Claim(w)
  <2>1. PICK t \in Due(at[w]) :
          /\ view' = [view EXCEPT ![t] = [@ EXCEPT !.status = "running", !.started_at = at[w]]]
          /\ lock' = ConnOf[w] /\ UNCHANGED rows
          /\ Goto(w, "fetch", t, at[w])
    BY <1>2 DEF Claim
  <2>2. t \in Tasks
    BY <2>1 DEF Due
  <2> DEFINE q == [view[t] EXCEPT !.status = "running"]
  <2> DEFINE r == [q EXCEPT !.started_at = at[w]]
  <2>3. view' = [view EXCEPT ![t] = r]
    BY <2>1
  <2>4. r \in Row /\ Unstarted(r)
    <3>1. q \in Row /\ q.status = "running"
      BY <1>0, <2>2, RowUpdates DEF Status
    <3> HIDE DEF q
    <3>2. r \in Row /\ r.status = "running"
      BY <1>0, <3>1, RowUpdates
    <3> QED BY <3>2 DEF Unstarted
  <2> HIDE DEF r
  <2>5. DbTypes'
    BY <1>0, <2>1, <2>2, <2>3, <2>4, QueueAssumption, SMT DEF DbTypes, Unstarted
  <2>6. UserTypes' /\ Placed'
    BY <1>0, <2>1, <2>2, GotoTypes
  <2>7. OtherTypes'
    BY <1>2, SMT DEF Claim, OtherTypes, history
  <2> QED BY <2>5, <2>6, <2>7
<1>3. CASE ClaimNothing(w)
  <2>1. UserTypes' /\ Placed'
    BY <1>0, <1>3, GotoTypes, SMT DEF ClaimNothing, Waits
  <2>2. OtherTypes'
    BY <1>3, SMT DEF ClaimNothing, OtherTypes, history
  <2>3. DbTypes'
    BY <1>0, <1>3, FinishedTypes DEF ClaimNothing
  <2> QED BY <2>1, <2>2, <2>3
<1>4. CASE Fetch(w)
  <2>1. UserTypes' /\ Placed'
    BY <1>0, <1>4, GotoTypes, SMT DEF Fetch, Waits, Works
  <2>2. OtherTypes'
    BY <1>0, <1>4, SMT DEF Fetch, OtherTypes, Waits
  <2>3. DbTypes'
    BY <1>0, <1>4, FinishedTypes DEF Fetch
  <2> QED BY <2>1, <2>2, <2>3
<1>5. CASE AgentEnds(w)
  <2>1. UserTypes' /\ Placed'
    <3>1. task[w] \in Tasks
      BY <1>0, <1>5 DEF AgentEnds, Waits
    <3>2. CASE Goto(w, "publish", task[w], 0)
      BY <1>0, <3>1, <3>2, GotoTypes DEF Works
    <3>3. CASE Goto(w, "failed", task[w], clock)
      BY <1>0, <3>1, <3>3, GotoTypes DEF Works
    <3> QED BY <1>5, <3>2, <3>3 DEF AgentEnds
  <2>2. OtherTypes' /\ UNCHANGED db
    BY <1>5, SMT DEF AgentEnds, OtherTypes, history
  <2> QED BY <2>1, <2>2, SameDb
<1>6. CASE Publish(w)
  <2>1. UserTypes' /\ Placed'
    BY <1>0, <1>6, GotoTypes, SMT DEF Publish, Waits, Works
  <2>2. OtherTypes' /\ UNCHANGED db
    BY <1>0, <1>6, SMT DEF Publish, OtherTypes, history, Waits
  <2> QED BY <2>1, <2>2, SameDb
<1>7. CASE ReadEnd(w)
  <2>1. UserTypes' /\ Placed'
    BY <1>0, <1>7, GotoTypes, SMT DEF ReadEnd, Waits, Works
  <2>2. OtherTypes' /\ UNCHANGED db
    BY <1>7, SMT DEF ReadEnd, OtherTypes, history
  <2> QED BY <2>1, <2>2, SameDb
<1>8. CASE Settle(w)
  <2>1. UserTypes' /\ Placed'
    BY <1>0, <1>8, GotoTypes, SMT DEF Settle, Waits
  <2>2. OtherTypes'
    BY <1>8, SMT DEF Settle, OtherTypes, history
  <2>3. pc[w] \in Terminal /\ task[w] \in Tasks
    BY <1>0, <1>8 DEF Settle, Terminal, Waits
  <2>4. DbTypes'
    BY <1>0, <1>8, <2>3, SettledType, FinishedTypes DEF Settle
  <2> QED BY <2>1, <2>2, <2>4
<1> QED BY <1>1, <1>2, <1>3, <1>4, <1>5, <1>6, <1>7, <1>8 DEF WorkerStep

CallerStep(a) == Cancel(a) \/ \E t \in Tasks : ReadCancel(a, t)

LEMMA CallerShape == ASSUME Shape, NEW a \in Callers, CallerStep(a) PROVE Shape'
<1> USE DEF Shape
<1>0. /\ a \in Users /\ a \notin Workers
      /\ clock \in Nat /\ at[a] \in Nat /\ view \in [Tasks -> Row]
      /\ \A t \in Tasks : Unstarted(view[t])
      /\ pc[a] = "cancel" => task[a] \in Tasks
  BY QueueAssumption, SMT DEF Users, UserTypes, OtherTypes, DbTypes, Placed
<1>1. ASSUME NEW t \in Tasks, ReadCancel(a, t) PROVE Shape'
  <2>1. UserTypes' /\ Placed'
    BY <1>0, <1>1, GotoTypes, SMT DEF ReadCancel
  <2>2. OtherTypes' /\ UNCHANGED db
    BY <1>1, SMT DEF ReadCancel, OtherTypes, history
  <2> QED BY <2>1, <2>2, SameDb
<1>2. CASE Cancel(a)
  <2>1. UserTypes' /\ Placed'
    BY <1>0, <1>2, GotoTypes, SMT DEF Cancel
  <2>2. task[a] \in Tasks /\ "cancelled" \in Terminal
    BY <1>0, <1>2 DEF Cancel, Terminal
  <2>3. OtherTypes'
    BY <1>2, <2>2, SMT DEF Cancel, OtherTypes
  <2>4. DbTypes'
    BY <1>0, <1>2, <2>2, SettledType, FinishedTypes DEF Cancel
  <2> QED BY <2>1, <2>3, <2>4
<1> QED BY <1>1, <1>2 DEF CallerStep

LEMMA CrashShape == ASSUME Shape, NEW c \in Conns, Crash(c) PROVE Shape'
<1> USE DEF Shape
<1>1. UserTypes'
  BY SMT DEF Crash, UserTypes, Waits
<1>2. Placed'
  BY SMT DEF Crash, UserTypes, Placed, Users, Waits
<1>3. DbTypes'
  BY SMT DEF Crash, DbTypes, Unstarted
<1>4. OtherTypes'
  BY QueueAssumption, SMT DEF Crash, OtherTypes, history
<1> QED BY <1>1, <1>2, <1>3, <1>4

\* Every step is one of these.
LEMMA Steps ==
  ASSUME Next
  PROVE  \/ Outside
         \/ \E w \in Workers : WorkerStep(w)
         \/ \E a \in Callers : CallerStep(a)
         \/ \E c \in Conns : Crash(c)
BY Zenon DEF Next, Outside, CallerStep

LEMMA StepShape == Shape /\ [Next]_vars => Shape'
<1> SUFFICES ASSUME Shape, [Next]_vars PROVE Shape'
  OBVIOUS
<1>1. CASE Next
  BY <1>1, Steps, OutsideShape, WorkerShape, CallerShape, CrashShape
<1>2. CASE UNCHANGED vars
  <2>1. UNCHANGED db /\ UNCHANGED users /\ OtherTypes'
    BY <1>2, SMT DEF vars, history, Shape, OtherTypes
  <2> QED BY <2>1, SameDb, SameUsers DEF Shape
<1> QED BY <1>1, <1>2

\* Every reachable state of the queue is well typed, and every user holds at each
\* place the task the code there needs.
THEOREM TypeCorrect == Spec => []TypeOK
<1>1. Spec => []Shape
  BY InitShape, StepShape, PTL DEF Spec
<1>2. Shape => TypeOK
  BY ShapeTypes
<1> QED BY <1>1, <1>2, PTL

-----------------------------------------------------------------------------
(* The atomic claim.  It needs workers that do not share their SQLiteQueue *)
(* with one another; the daemon's handlers may share its worker's.         *)

OwnQueues == \A v, w \in Workers : ConnOf[v] = ConnOf[w] => v = w

\* Who holds the write lock between two calls is a worker that has a row to fetch,
\* and nothing is uncommitted when nobody holds it.
Locked ==
  /\ lock = None => view = rows
  /\ lock # None => \E w \in Workers : pc[w] = "fetch" /\ ConnOf[w] = lock
  /\ \A w \in Workers : pc[w] = "fetch" => lock = ConnOf[w]

InHand == {"running", "cancelled"}
Taken  == {"running"} \cup Terminal

\* What a worker holds is running or cancelled, and its alone.
Held ==
  /\ \A w \in Workers : task[w] # None => view[task[w]].status \in InHand
  /\ \A w \in Workers : pc[w] \in Works => rows[task[w]].status \in InHand
  /\ \A v, w \in Workers : task[v] = task[w] /\ task[v] # None => v = w

\* A task is handed out once, and is then never pending again, on disk or in view.
Handed ==
  /\ \A t \in Tasks : starts[t] = 0 \/ starts[t] = 1
  /\ \A t \in Tasks : starts[t] = 1 => rows[t].status \in Taken /\ view[t].status \in Taken
  /\ \A w \in Workers : pc[w] = "fetch" => starts[task[w]] = 0

Claimed == Shape /\ Locked /\ Held /\ Handed

LEMMA InitClaimed == Init => Claimed
<1> SUFFICES ASSUME Init PROVE Claimed
  OBVIOUS
<1>1. Shape
  BY InitShape
<1>2. Locked
  BY QueueAssumption, SMT DEF Init, Locked, Users
<1>3. Held /\ Handed
  BY QueueAssumption, SMT DEF Init, Held, Handed, Users, Works
<1> QED BY <1>1, <1>2, <1>3 DEF Claimed

\* A worker that can write and has nothing to fetch finds nothing uncommitted, and
\* what it writes is committed at once.
LEMMA FreeToWrite ==
  ASSUME OwnQueues, Claimed, NEW w \in Workers, pc[w] # "fetch", CanWrite(w)
  PROVE  lock = None /\ view = rows /\ Open(w) = {} /\ \A v \in Workers : pc[v] # "fetch"
<1>1. \A v \in Workers : v \in Users /\ ConnOf[v] \in Conns /\ ConnOf[v] # None
  BY QueueAssumption DEF Users
<1>2. lock = None
  BY <1>1, SMT DEF OwnQueues, Claimed, Locked, CanWrite
<1>3. \A v \in Workers : pc[v] # "fetch"
  BY <1>1, <1>2 DEF Claimed, Locked
<1> QED BY <1>2, <1>3 DEF Claimed, Locked, Open

\* So for the row it has to fetch: no other statement of its connection is open.
LEMMA FreeToFetch ==
  ASSUME OwnQueues, NEW w \in Workers
  PROVE  Open(w) = {}
BY DEF OwnQueues, Open

\* Steps that leave the tables, the lock and the claims alone, and move a worker
\* at most to wait or to work on.
Quiet ==
  /\ UNCHANGED <<db, starts>>
  /\ \A w \in Workers :
       \/ pc'[w] = pc[w] /\ task'[w] = task[w]
       \/ pc'[w] \in Waits /\ task'[w] = None /\ pc[w] # "fetch"
       \/ pc[w] \in Works /\ pc'[w] \in Works /\ task'[w] = task[w]

LEMMA QuietClaimed == ASSUME Claimed, Quiet, Shape' PROVE Claimed'
<1>1. UNCHANGED <<rows, view, lock, starts>>
  BY DEF Quiet, db
<1>2. \A w \in Workers : (pc'[w] = "fetch") <=> (pc[w] = "fetch")
  BY SMT DEF Quiet, Waits, Works
<1>3. Locked'
  BY <1>1, <1>2, Zenon DEF Claimed, Locked
<1>4. Held'
  BY <1>1, SMT DEF Claimed, Held, Quiet, Waits, Works
<1>5. Handed'
  BY <1>1, <1>2, SMT DEF Claimed, Handed, Quiet, Waits, Works
<1> QED BY <1>3, <1>4, <1>5 DEF Claimed

\* A step that commits at once what it changes: nobody is fetching, the rows that
\* change are not in anybody's hands any more, and none is pending again.
Commits ==
  /\ lock = None /\ lock' = None /\ rows' = view' /\ UNCHANGED starts
  /\ \A w \in Workers : pc[w] # "fetch"
  /\ \A w \in Workers :
       \/ /\ pc'[w] = pc[w] /\ task'[w] = task[w]
          /\ task[w] # None => \/ view'[task[w]].status = view[task[w]].status
                              \/ view'[task[w]].status = "cancelled"
       \/ pc'[w] \in Waits /\ task'[w] = None
  /\ \A t \in Tasks : \/ view'[t].status = view[t].status
                       \/ view'[t].status \in Taken
                       \/ view[t].status = "absent"

LEMMA CommitsClaimed == ASSUME Claimed, Commits, Shape' PROVE Claimed'
<1>1. view = rows
  BY DEF Claimed, Locked, Commits
<1>2. Locked'
  BY SMT DEF Commits, Locked, Waits
<1>2a. \A w \in Workers : task[w] # None => task[w] \in Tasks
  BY SMT DEF Claimed, Shape, Placed
<1>2b. \A w \in Workers :
         \/ task'[w] = None /\ pc'[w] \in Waits
         \/ /\ pc'[w] = pc[w] /\ task'[w] = task[w] /\ task[w] # None
            /\ view'[task[w]].status \in InHand
  BY <1>2a, QueueAssumption, SMT DEF Claimed, Shape, Placed, Held, Commits, InHand, Waits, Works
<1>3. Held'
  BY <1>2b, SMT DEF Claimed, Held, Commits, Waits, Works
<1>4. Handed'
  BY <1>1, SMT DEF Claimed, Handed, Commits, Waits, Taken, Terminal
<1> QED BY <1>2, <1>3, <1>4 DEF Claimed

LEMMA LockFree == Claimed /\ lock = None => view = rows /\ \A w \in Workers : pc[w] # "fetch"
<1>1. \A w \in Workers : ConnOf[w] # None
  BY QueueAssumption, SMT DEF Users
<1> QED BY <1>1 DEF Claimed, Locked

\* Where u goes, and where everybody else stays.
LEMMA GotoPlaces ==
  ASSUME Shape, NEW u \in Users, NEW l, NEW t, NEW x, Goto(u, l, t, x)
  PROVE  /\ pc'[u] = l /\ task'[u] = t
         /\ \A v \in Users \ {u} : pc'[v] = pc[v] /\ task'[v] = task[v]
BY SMT DEF Shape, UserTypes, Goto

LEMMA OutsideClaimed == ASSUME Claimed, Outside PROVE Claimed'
<1>0. Shape'
  BY OutsideShape DEF Claimed
<1>1. CASE Tick
  BY <1>0, <1>1, QuietClaimed, SMT DEF Tick, Quiet, users, history
<1>2. ASSUME NEW t \in Tasks, Construct(t) PROVE Claimed'
  BY <1>0, <1>2, QuietClaimed, SMT DEF Construct, Quiet, users
<1>3. ASSUME NEW t \in Tasks, Insert(t) PROVE Claimed'
  <2>1. /\ lock = None /\ rows[t].status = "absent"
        /\ rows' = [rows EXCEPT ![t] = [rows[t] EXCEPT !.status = "pending"]]
        /\ view' = rows' /\ UNCHANGED <<lock, users, starts>>
    BY <1>3 DEF Insert, history
  <2>2. view = rows /\ \A w \in Workers : pc[w] # "fetch"
    BY <2>1, LockFree
  <2>3. rows \in [Tasks -> Row]
    BY DEF Claimed, Shape, DbTypes
  <2>4. \A u \in Tasks : u # t => view'[u] = view[u]
    BY <2>1, <2>2, <2>3
  <2>5. \A w \in Workers : task[w] # None => task[w] # t
    BY <2>1, <2>2, SMT DEF Claimed, Held, InHand
  <2>6. \A w \in Workers : task[w] # None => task[w] \in Tasks
    BY SMT DEF Claimed, Shape, Placed
  <2>7. Commits
    BY <2>1, <2>2, <2>4, <2>5, <2>6, SMT DEF Commits, users
  <2> QED BY <1>0, <2>7, CommitsClaimed
<1> QED BY <1>1, <1>2, <1>3 DEF Outside

\* A worker that writes and goes back to wait, having changed its own row at most.
LEMMA WorkerCommits ==
  ASSUME OwnQueues, Claimed, Shape', NEW w \in Workers, pc[w] # "fetch", CanWrite(w),
         NEW new, Finished(w, new), Goto(w, "idle", None, 0), UNCHANGED starts,
         \A t \in Tasks : \/ new[t].status = view[t].status
                          \/ t = task[w] /\ new[t].status \in Taken
  PROVE  Claimed'
<1>1. lock = None /\ view = rows /\ Open(w) = {} /\ \A v \in Workers : pc[v] # "fetch"
  BY FreeToWrite
<1>2. view' = new /\ rows' = new /\ lock' = None
  BY <1>1 DEF Finished
<1>3. /\ pc'[w] = "idle" /\ task'[w] = None
      /\ \A v \in Workers \ {w} : pc'[v] = pc[v] /\ task'[v] = task[v]
  BY GotoPlaces DEF Claimed, Users
<1>4. \A v \in Workers : task[v] # None => task[v] \in Tasks
  BY SMT DEF Claimed, Shape, Placed
<1>5. \A v \in Workers \ {w} : task[v] # None => task[v] # task[w]
  BY DEF Claimed, Held
<1>6. Commits
  BY <1>1, <1>2, <1>3, <1>4, <1>5, SMT DEF Commits, Waits
<1> QED BY <1>6, CommitsClaimed

LEMMA MovesQuietly ==
  ASSUME Shape, NEW w \in Workers, NEW l, NEW t, NEW x, Goto(w, l, t, x),
         UNCHANGED <<db, starts>>,
         \/ pc[w] = "idle" /\ l = "claim" /\ t = None
         \/ pc[w] \in Works /\ l \in Works /\ t = task[w]
  PROVE  Quiet
<1>1. /\ pc'[w] = l /\ task'[w] = t
      /\ \A v \in Workers \ {w} : pc'[v] = pc[v] /\ task'[v] = task[v]
  BY GotoPlaces DEF Users
<1>2. "claim" \in Waits
  BY DEF Waits
<1>3. \A v \in Workers :
       \/ pc'[v] = pc[v] /\ task'[v] = task[v]
       \/ pc'[v] \in Waits /\ task'[v] = None /\ pc[v] # "fetch"
       \/ pc[v] \in Works /\ pc'[v] \in Works /\ task'[v] = task[v]
  BY <1>1, <1>2
<1> QED BY <1>3 DEF Quiet

LEMMA WorkerClaimed ==
  ASSUME OwnQueues, Claimed, NEW w \in Workers, WorkerStep(w) PROVE Claimed'
<1>0. Shape' /\ Shape /\ w \in Users
  BY WorkerShape DEF Claimed, Users
<1>1. CASE ReadNow(w) \/ AgentEnds(w) \/ Publish(w) \/ ReadEnd(w)
  <2>1. UNCHANGED <<db, starts>>
    BY <1>1 DEF ReadNow, AgentEnds, Publish, ReadEnd, history
  <2>2. ASSUME NEW l, NEW t, NEW x, Goto(w, l, t, x),
               \/ pc[w] = "idle" /\ l = "claim" /\ t = None
               \/ pc[w] \in Works /\ l \in Works /\ t = task[w]
        PROVE  Claimed'
    BY <1>0, <2>1, <2>2, MovesQuietly, QuietClaimed
  <2>3. CASE ReadNow(w)
    BY <2>2, <2>3, Zenon DEF ReadNow
  <2>4. CASE AgentEnds(w)
    BY <2>2, <2>4, Zenon DEF AgentEnds, Works
  <2>5. CASE Publish(w)
    BY <2>2, <2>5, Zenon DEF Publish, Works
  <2>6. CASE ReadEnd(w)
    BY <2>2, <2>6, Zenon DEF ReadEnd, Works
  <2> QED BY <1>1, <2>3, <2>4, <2>5, <2>6
<1>2. CASE Claim(w)
  <2>1. PICK t \in Due(at[w]) :
          /\ view' = [view EXCEPT ![t] = [@ EXCEPT !.status = "running", !.started_at = at[w]]]
          /\ lock' = ConnOf[w] /\ UNCHANGED rows
          /\ Goto(w, "fetch", t, at[w])
    BY <1>2 DEF Claim
  <2>2. /\ pc[w] = "claim" /\ CanWrite(w) /\ UNCHANGED starts
        /\ t \in Tasks /\ view[t].status = "pending"
    BY <1>2, <2>1 DEF Claim, Due, history
  <2>3. lock = None /\ view = rows /\ \A v \in Workers : pc[v] # "fetch"
    BY <2>2, FreeToWrite
  <2>4. /\ view'[t].status = "running"
        /\ \A u \in Tasks : u # t => view'[u] = view[u]
    <3>1. view \in [Tasks -> Row] /\ at[w] \in Nat
      BY <1>0 DEF Shape, DbTypes, UserTypes
    <3> DEFINE q == [view[t] EXCEPT !.status = "running"]
    <3> DEFINE r == [q EXCEPT !.started_at = at[w]]
    <3>2. view' = [view EXCEPT ![t] = r]
      BY <2>1
    <3>3. r.status = "running"
      <4>1. q \in Row /\ q.status = "running"
        BY <2>2, <3>1, RowUpdates DEF Status
      <4> HIDE DEF q
      <4> QED BY <3>1, <4>1, RowUpdates
    <3> HIDE DEF r
    <3> QED BY <2>2, <3>1, <3>2, <3>3, SMT
  <2>5. /\ pc'[w] = "fetch" /\ task'[w] = t
        /\ \A v \in Workers \ {w} : pc'[v] = pc[v] /\ task'[v] = task[v]
    BY <1>0, <2>1, GotoPlaces DEF Users
  <2>6. \A v \in Workers : task[v] # None => task[v] \in Tasks /\ task[v] # t
    BY <1>0, <2>2, SMT DEF Shape, Placed, Claimed, Held, InHand
  <2>7. Locked'
    BY <2>1, <2>3, <2>5, QueueAssumption, SMT DEF Locked, Users
  <2>8. Held'
    BY <2>1, <2>4, <2>5, <2>6, SMT DEF Claimed, Held, InHand, Works
  <2>9. Handed'
    <3>1. starts[t] = 0
      BY <2>2, SMT DEF Claimed, Handed, Taken, Terminal
    <3> QED BY <2>1, <2>2, <2>3, <2>4, <2>5, <3>1, SMT DEF Claimed, Handed, Taken
  <2> QED BY <1>0, <2>7, <2>8, <2>9 DEF Claimed
<1>3. CASE ClaimNothing(w)
  BY <1>0, <1>3, WorkerCommits, Zenon DEF ClaimNothing, history
<1>4. CASE Fetch(w)
  <2>1. view' = view /\ rows' = view /\ lock' = None
    BY <1>4, FreeToFetch DEF Fetch, Finished
  <2>2. /\ pc[w] = "fetch" /\ task[w] \in Tasks
        /\ starts' = [starts EXCEPT ![task[w]] = @ + 1]
        /\ starts \in [Tasks -> Nat]
    BY <1>0, <1>4, SMT DEF Fetch, Shape, Placed, Waits, OtherTypes
  <2>3. /\ pc'[w] = "work" /\ task'[w] = task[w]
        /\ \A v \in Workers \ {w} : pc'[v] = pc[v] /\ task'[v] = task[v]
    BY <1>0, <1>4, GotoPlaces DEF Fetch, Users
  <2>4. \A v \in Workers : pc'[v] # "fetch"
    BY <2>2, <2>3, SMT DEF Claimed, Locked, OwnQueues
  <2>5. Locked'
    BY <2>1, <2>4 DEF Locked
  <2>6. \A v \in Workers : task'[v] = task[v]
    BY <2>3
  <2>7. \A v \in Workers : pc[v] \in Works \/ v = w => task[v] # None
    BY <1>0, <2>2, QueueAssumption, SMT DEF Shape, Placed, Works, Waits
  <2>8. Held'
    BY <2>1, <2>3, <2>6, <2>7, SMT DEF Claimed, Held
  <2>9. Handed'
    <3>1. starts[task[w]] = 0 /\ view[task[w]].status \in Taken
      BY <2>2, <2>7, SMT DEF Claimed, Handed, Held, InHand, Taken, Terminal
    <3> QED BY <2>1, <2>2, <2>4, <3>1, SMT DEF Claimed, Handed
  <2> QED BY <1>0, <2>5, <2>8, <2>9 DEF Claimed
<1>5. CASE Settle(w)
  <2>1. pc[w] \in Terminal /\ pc[w] # "fetch" /\ task[w] \in Tasks /\ at[w] \in Nat
    BY <1>0, <1>5, SMT DEF Settle, Terminal, Shape, Placed, UserTypes, Waits
  <2> DEFINE new == IF view[task[w]].status = "running"
                    THEN Settled(task[w], pc[w], at[w]) ELSE view
  <2>2. \A t \in Tasks : \/ new[t].status = view[t].status
                         \/ t = task[w] /\ new[t].status \in Taken
    BY <1>0, <2>1, SettledType, SMT DEF Shape, Taken
  <2>3. Finished(w, new) /\ CanWrite(w) /\ Goto(w, "idle", None, 0) /\ UNCHANGED starts
    BY <1>5 DEF Settle, history
  <2> HIDE DEF new
  <2> QED BY <1>0, <2>1, <2>2, <2>3, WorkerCommits
<1> QED BY <1>1, <1>2, <1>3, <1>4, <1>5 DEF WorkerStep

LEMMA CallerClaimed ==
  ASSUME Claimed, NEW a \in Callers, CallerStep(a) PROVE Claimed'
<1>0. Shape' /\ Shape /\ a \in Users /\ a \notin Workers
  BY CallerShape, QueueAssumption DEF Claimed, Users
<1>1. ASSUME NEW t \in Tasks, ReadCancel(a, t) PROVE Claimed'
  <2>1. \A w \in Workers : pc'[w] = pc[w] /\ task'[w] = task[w]
    BY <1>0, <1>1, GotoPlaces DEF ReadCancel, Users
  <2>2. UNCHANGED <<db, starts>>
    BY <1>1 DEF ReadCancel, history
  <2> QED BY <1>0, <2>1, <2>2, QuietClaimed DEF Quiet
<1>2. CASE Cancel(a)
  <2> DEFINE new == IF view[task[a]].status \in Cancellable
                    THEN Settled(task[a], "cancelled", at[a]) ELSE view
  <2>1. Finished(a, new) /\ CanWrite(a) /\ UNCHANGED starts
    BY <1>2 DEF Cancel
  <2>2. \A w \in Workers : pc'[w] = pc[w] /\ task'[w] = task[w]
    BY <1>0, <1>2, GotoPlaces DEF Cancel, Users
  <2>3. \A t \in Tasks : new[t].status \in {view[t].status, "cancelled"}
    <3>1. task[a] \in Tasks /\ at[a] \in Nat /\ "cancelled" \in Terminal
      BY <1>0, <1>2, SMT DEF Cancel, Shape, Placed, UserTypes, Terminal
    <3> QED BY <1>0, <3>1, SettledType, SMT DEF Shape
  <2> HIDE DEF new
  <2>4. \A w \in Workers : task[w] # None => task[w] \in Tasks
    BY <1>0, SMT DEF Shape, Placed
  <2>5. CASE lock = None
    <3>1. view = rows /\ \A w \in Workers : pc[w] # "fetch"
      BY <2>5, LockFree
    <3>2. view' = new /\ rows' = new /\ lock' = None
      BY <2>1, <3>1 DEF Finished, Open
    <3>3. Commits
      BY <2>1, <2>2, <2>3, <2>4, <2>5, <3>1, <3>2, SMT DEF Commits, Taken, Terminal
    <3> QED BY <1>0, <3>3, CommitsClaimed
  <2>6. CASE lock # None
    <3>1. lock = ConnOf[a] /\ Open(a) # {}
      BY <1>0, <2>1, <2>6, SMT DEF CanWrite, Claimed, Locked, Open
    <3>2. view' = new /\ rows' = rows /\ lock' = lock
      BY <2>1, <3>1 DEF Finished
    <3>3. Locked'
      BY <2>2, <2>6, <3>2, SMT DEF Claimed, Locked
    <3>4. Held'
      BY <2>2, <2>3, <2>4, <3>2, SMT DEF Claimed, Held, InHand
    <3>5. Handed'
      BY <2>1, <2>2, <2>3, <3>2, SMT DEF Claimed, Handed, Taken, Terminal
    <3> QED BY <1>0, <3>3, <3>4, <3>5 DEF Claimed
  <2> QED BY <2>5, <2>6
<1> QED BY <1>1, <1>2 DEF CallerStep

\* A crash takes back only what was not committed, and a claim that was not committed
\* had not been handed out.
LEMMA CrashClaimed == ASSUME Claimed, NEW c \in Conns, Crash(c) PROVE Claimed'
<1>0. Shape' /\ Shape
  BY CrashShape DEF Claimed
<1>1. \A w \in Workers :
        /\ ConnOf[w] = c => pc'[w] = "idle" /\ task'[w] = None
        /\ ConnOf[w] # c => pc'[w] = pc[w] /\ task'[w] = task[w]
  BY DEF Crash, Users
<1>2. /\ rows' = rows /\ starts' = starts /\ c # None
      /\ IF lock = c THEN view' = rows /\ lock' = None ELSE view' = view /\ lock' = lock
  BY QueueAssumption DEF Crash, history
<1>3. Locked'
  BY <1>1, <1>2, SMT DEF Claimed, Locked
<1>4. Held'
  <2>1. ASSUME NEW w \in Workers, task'[w] # None PROVE view'[task[w]].status \in InHand
    <3>1. ConnOf[w] # c /\ task'[w] = task[w]
      BY <1>1, <2>1
    <3>2. CASE lock = c
      <4>1. pc[w] \in Works
        BY <1>0, <2>1, <3>1, <3>2, SMT DEF Shape, Placed, Claimed, Locked
      <4> QED BY <1>2, <3>2, <4>1 DEF Claimed, Held
    <3>3. CASE lock # c
      BY <1>2, <2>1, <3>1, <3>3 DEF Claimed, Held
    <3> QED BY <3>2, <3>3
  <2>2. \A w \in Workers : pc'[w] \in Works => ConnOf[w] # c
    BY <1>1, SMT DEF Works
  <2> QED BY <1>1, <1>2, <2>1, <2>2, SMT DEF Claimed, Held
<1>5. Handed'
  BY <1>1, <1>2, SMT DEF Claimed, Handed
<1> QED BY <1>0, <1>3, <1>4, <1>5 DEF Claimed

LEMMA StepClaimed == ASSUME OwnQueues PROVE Claimed /\ [Next]_vars => Claimed'
<1> SUFFICES ASSUME Claimed, [Next]_vars PROVE Claimed'
  OBVIOUS
<1>1. CASE Next
  BY <1>1, Steps, OutsideClaimed, WorkerClaimed, CallerClaimed, CrashClaimed
<1>2. CASE UNCHANGED vars
  <2>1. Quiet
    BY <1>2 DEF vars, users, history, Quiet
  <2>2. Shape'
    BY <1>2, StepShape DEF Claimed
  <2> QED BY <2>1, <2>2, QuietClaimed
<1> QED BY <1>1, <1>2

\* The claims hold in every state, crashes and cancellations included.
LEMMA AlwaysClaimed == ASSUME OwnQueues PROVE Spec => []Claimed
BY InitClaimed, StepClaimed, PTL DEF Spec

\* Workers with a SQLiteQueue each never hold the same task, and no task is handed
\* out twice, whatever crashes and is cancelled.
THEOREM ClaimsExclude == ASSUME OwnQueues PROVE Spec => []ClaimedOnce
<1>1. Claimed => ClaimedOnce
  BY SMT DEF Claimed, Shape, OtherTypes, Held, Handed, ClaimedOnce, Works, InHand
<1> QED BY <1>1, AlwaysClaimed, PTL

\* What a worker works on is claimed on disk, not only in a connection's view that a
\* crash would take back.
THEOREM WorkStandsOnDisk == ASSUME OwnQueues PROVE Spec => []WorkIsCommitted
<1>1. Claimed => WorkIsCommitted
  BY SMT DEF Claimed, Shape, OtherTypes, Held, Handed, WorkIsCommitted, Works, InHand
<1> QED BY <1>1, AlwaysClaimed, PTL

-----------------------------------------------------------------------------
(* The order of claims, for workers that share what they like *)

Present(t) == rows[t].status # "absent" \/ view[t].status # "absent"

\* A row is of a task that was constructed, and what was answered before a task was
\* constructed had been constructed earlier.
Ages ==
  /\ \A t \in Tasks : created[t] <= clock
  /\ \A t \in Tasks : Present(t) => created[t] # 0
  /\ \A t \in Tasks : \A u \in before[t] : created[u] # 0 /\ created[u] < created[t]

LEMMA InitAges == Init => Ages
BY SMT DEF Init, Ages, Present

LEMMA FinishedPresent ==
  ASSUME NEW u \in Users, NEW new, Finished(u, new), NEW t \in Tasks,
         new[t].status # "absent" => view[t].status # "absent"
  PROVE  Present(t)' => Present(t)
BY DEF Finished, Present

\* Rows appear by an insert only.
LEMMA PresentBefore ==
  ASSUME Shape, NEW t \in Tasks,
         \/ \E w \in Workers : WorkerStep(w)
         \/ \E a \in Callers : CallerStep(a)
         \/ \E c \in Conns : Crash(c)
  PROVE  Present(t)' => Present(t)
<1>0. DbTypes /\ Placed /\ UserTypes
  BY DEF Shape
<1>1. ASSUME NEW w \in Workers, WorkerStep(w) PROVE Present(t)' => Present(t)
  <2>0. w \in Users /\ at[w] \in Nat
    BY <1>0 DEF Users, UserTypes
  <2>1. CASE ReadNow(w) \/ AgentEnds(w) \/ Publish(w) \/ ReadEnd(w)
    BY <2>1 DEF ReadNow, AgentEnds, Publish, ReadEnd, db, Present
  <2>2. CASE Claim(w)
    <3>1. PICK u \in Due(at[w]) :
            /\ view' = [view EXCEPT ![u] = [@ EXCEPT !.status = "running", !.started_at = at[w]]]
            /\ UNCHANGED rows
      BY <2>2 DEF Claim
    <3>2. view[u].status = "pending"
      BY <3>1 DEF Due
    <3>3. t # u => view'[t] = view[t]
      BY <1>0, <3>1 DEF DbTypes
    <3> QED BY <3>1, <3>2, <3>3 DEF Present
  <2>3. CASE ClaimNothing(w) \/ Fetch(w)
    BY <2>0, <2>3, FinishedPresent DEF ClaimNothing, Fetch
  <2>4. CASE Settle(w)
    <3>1. pc[w] \in Terminal /\ task[w] \in Tasks
      BY <1>0, <2>4 DEF Settle, Terminal, Placed, Waits
    <3>2. Finished(w, IF view[task[w]].status = "running"
                      THEN Settled(task[w], pc[w], at[w]) ELSE view)
      BY <2>4 DEF Settle
    <3>3. CASE view[task[w]].status = "running"
      <4>1. t # task[w] => Settled(task[w], pc[w], at[w])[t] = view[t]
        BY <1>0, <2>0, <3>1, SettledType
      <4> QED BY <2>0, <3>2, <3>3, <4>1, FinishedPresent
    <3>4. CASE view[task[w]].status # "running"
      BY <2>0, <3>2, <3>4, FinishedPresent
    <3> QED BY <3>3, <3>4
  <2> QED BY <1>1, <2>1, <2>2, <2>3, <2>4 DEF WorkerStep
<1>2. ASSUME NEW a \in Callers, CallerStep(a) PROVE Present(t)' => Present(t)
  <2>0. a \in Users /\ at[a] \in Nat
    BY <1>0 DEF Users, UserTypes
  <2>1. ASSUME NEW u \in Tasks, ReadCancel(a, u) PROVE Present(t)' => Present(t)
    BY <2>1 DEF ReadCancel, db, Present
  <2>2. CASE Cancel(a) /\ view[task[a]].status \in Cancellable
    <3>1. task[a] \in Tasks /\ "cancelled" \in Terminal
      BY <1>0, <2>2, SMT DEF Cancel, Placed, Terminal
    <3>2. t # task[a] => Settled(task[a], "cancelled", at[a])[t] = view[t]
      BY <1>0, <2>0, <3>1, SettledType
    <3>3. Finished(a, Settled(task[a], "cancelled", at[a]))
      BY <2>2 DEF Cancel
    <3>4. view[task[a]].status # "absent"
      BY <2>2, SMT DEF Cancellable
    <3> QED BY <2>0, <3>2, <3>3, <3>4, FinishedPresent
  <2>3. CASE Cancel(a) /\ view[task[a]].status \notin Cancellable
    BY <2>0, <2>3, FinishedPresent DEF Cancel
  <2> QED BY <1>2, <2>1, <2>2, <2>3 DEF CallerStep
<1>3. ASSUME NEW c \in Conns, Crash(c) PROVE Present(t)' => Present(t)
  BY <1>3 DEF Crash, Present
<1> QED BY <1>1, <1>2, <1>3

LEMMA StepAges == Shape /\ Ages /\ [Next]_vars => Ages'
<1> SUFFICES ASSUME Shape, Ages, [Next]_vars PROVE Ages'
  OBVIOUS
<1>0. /\ created \in [Tasks -> Nat] /\ clock \in Nat
      /\ before \in [Tasks -> SUBSET Tasks]
      /\ rows \in [Tasks -> Row]
  BY DEF Shape, OtherTypes, DbTypes
<1>1. CASE Tick
  BY <1>0, <1>1, SMT DEF Tick, db, history, Ages, Present
<1>2. ASSUME NEW t \in Tasks, Construct(t) PROVE Ages'
  <2>1. /\ created[t] = 0 /\ clock' = clock + 1
        /\ created' = [created EXCEPT ![t] = clock + 1]
        /\ before' = [before EXCEPT ![t] = {u \in Tasks : rows[u].status # "absent"}]
        /\ rows' = rows /\ view' = view
    BY <1>2 DEF Construct, db
  <2> QED BY <1>0, <2>1, SMT DEF Ages, Present
<1>3. ASSUME NEW t \in Tasks, Insert(t) PROVE Ages'
  <2>1. /\ created[t] # 0 /\ view' = rows' /\ UNCHANGED <<created, clock, before>>
        /\ \A u \in Tasks : u # t => rows'[u] = rows[u]
    BY <1>0, <1>3 DEF Insert, history
  <2>2. \A u \in Tasks : Present(u)' => created'[u] # 0
    BY <2>1 DEF Ages, Present
  <2> QED BY <2>1, <2>2 DEF Ages
<1>4. ASSUME \/ \E w \in Workers : WorkerStep(w)
             \/ \E a \in Callers : CallerStep(a)
             \/ \E c \in Conns : Crash(c)
      PROVE  Ages'
  <2>1. UNCHANGED <<created, clock, before>>
    BY <1>4, Zenon DEF WorkerStep, ReadNow, Claim, ClaimNothing, Fetch, AgentEnds, Publish,
      ReadEnd, Settle, CallerStep, Cancel, ReadCancel, Crash, history
  <2>2. \A t \in Tasks : Present(t)' => Present(t)
    BY <1>4, PresentBefore
  <2> QED BY <2>1, <2>2 DEF Ages
<1>5. CASE UNCHANGED vars
  BY <1>5 DEF vars, db, history, Ages, Present
<1> QED BY <1>1, <1>2, <1>3, <1>4, <1>5, Steps DEF Outside

\* Nothing but its own claim takes a worker from the claim to the fetch.
LEMMA ClaimStep ==
  ASSUME Shape, Next, NEW w \in Workers, pc[w] = "claim", pc'[w] = "fetch" PROVE Claim(w)
<1>0. w \in Users /\ w \notin Callers /\ \A v \in Workers \cup Callers : v \in Users
  BY QueueAssumption DEF Users
<1>1. ~Outside
  BY DEF Outside, Tick, Construct, Insert, users
<1>2. ASSUME NEW a \in Callers, CallerStep(a) PROVE FALSE
  <2>1. PICK l, t, x : Goto(a, l, t, x)
    BY <1>2, Zenon DEF CallerStep, Cancel, ReadCancel
  <2> QED BY <1>0, <2>1, GotoPlaces
<1>3. ASSUME NEW c \in Conns, Crash(c) PROVE FALSE
  BY <1>0, <1>3 DEF Crash
<1>4. ASSUME NEW v \in Workers, WorkerStep(v) PROVE Claim(w)
  <2>1. PICK l, t, x : Goto(v, l, t, x)
    BY <1>4, Zenon DEF WorkerStep, ReadNow, Claim, ClaimNothing, Fetch, AgentEnds, Publish,
      ReadEnd, Settle
  <2>2. v = w
    BY <1>0, <2>1, GotoPlaces
  <2>3. ~ClaimNothing(w)
    <3>1. ASSUME Goto(w, "idle", None, 0) PROVE FALSE
      BY <1>0, <3>1, GotoPlaces
    <3> QED BY <3>1 DEF ClaimNothing
  <2> QED BY <1>4, <2>2, <2>3
    DEF WorkerStep, ReadNow, Fetch, AgentEnds, Publish, ReadEnd, Settle
<1> QED BY <1>1, <1>2, <1>3, <1>4, Steps

\* For every priority and schedule, and workers and handlers on whatever connections:
\* no task is claimed over one that was answered before it was even submitted, is due,
\* and is as urgent.
THEOREM ClaimsInOrder == Spec => NoOvertaking
<1>1. Init => Shape /\ Ages
  BY InitShape, InitAges
<1>2. Shape /\ Ages /\ [Next]_vars => (Shape /\ Ages)'
  BY StepShape, StepAges
<1> DEFINE Passes == \A w \in Workers, t \in Tasks : Claims(w, t) =>
                       \A u \in before[t] :
                         \/ view[u].status # "pending"
                         \/ ScheduledFor[u] > at[w]
                         \/ Priority[t] > Priority[u]
<1>3. Shape /\ Ages /\ [Next]_vars => [Passes]_vars
  <2> SUFFICES ASSUME Shape, Ages, Next, NEW w \in Workers, NEW t \in Tasks, Claims(w, t),
                      NEW u \in before[t], view[u].status = "pending",
                      ~(ScheduledFor[u] > at[w])
               PROVE  Priority[t] > Priority[u]
    OBVIOUS
  <2>1. Claim(w) /\ w \in Users
    BY ClaimStep DEF Claims, Users
  <2>2. PICK s \in Due(at[w]) : /\ \A v \in Due(at[w]) : NotAfter(s, v)
                               /\ Goto(w, "fetch", s, at[w])
    BY <2>1 DEF Claim
  <2>3. s = t
    BY <2>1, <2>2, GotoPlaces DEF Claims
  <2>4. u \in Tasks /\ at[w] \in Nat
    BY <2>1 DEF Shape, OtherTypes, UserTypes
  <2>5. u \in Due(at[w])
    BY <2>4, QueueAssumption, SMT DEF Due
  <2>6. NotAfter(t, u)
    BY <2>2, <2>3, <2>5
  <2>7. created[u] < created[t] /\ created[u] \in Nat /\ created[t] \in Nat
    BY <2>4, SMT DEF Ages, Shape, OtherTypes
  <2> QED BY <2>4, <2>6, <2>7, QueueAssumption, SMT DEF NotAfter
<1> QED BY <1>1, <1>2, <1>3, PTL DEF Spec, NoOvertaking

-----------------------------------------------------------------------------
(* The times of a task *)

\* A row of task t, created at born, is started no earlier than its time, by the clock
\* reading now, and ends no earlier than it is started and created.
Timed(r, t, born, now) ==
  /\ r.status \in {"running", "done", "failed"} => ScheduledFor[t] <= r.started_at
  /\ r.status = "running" => r.started_at <= now
  /\ r.status \in {"done", "failed"} =>
       r.started_at <= r.completed_at /\ born <= r.completed_at

\* The time x was read after the one at which the row was started.
Late(r, x) == r.status = "running" => r.started_at <= x

Ends == {"done", "failed"}

Times ==
  /\ \A t \in Tasks : Timed(rows[t], t, created[t], clock) /\ Timed(view[t], t, created[t], clock)
  /\ \A w \in Workers : pc[w] = "claim" => at[w] <= clock
  /\ \A w \in Workers : pc[w] \in Ends =>
       /\ created[task[w]] <= at[w]
       /\ Late(rows[task[w]], at[w]) /\ Late(view[task[w]], at[w])

Ordered == Claimed /\ Ages /\ Times

LEMMA InitTimes == Init => Times
BY QueueAssumption, SMT DEF Init, Times, Timed, Users, Ends

LEMMA SettledTimes ==
  ASSUME DbTypes, NEW t \in Tasks, NEW s \in Terminal, NEW x \in Nat
  PROVE  /\ Settled(t, s, x)[t].started_at = view[t].started_at
         /\ Settled(t, s, x)[t].completed_at = x
<1>1. view \in [Tasks -> Row] /\ view[t] \in Row
  BY DEF DbTypes
<1> DEFINE r == [[view[t] EXCEPT !.status = s] EXCEPT !.completed_at = x]
<1>2. Settled(t, s, x) = [view EXCEPT ![t] = r]
  BY DEF Settled
<1>3. r.started_at = view[t].started_at /\ r.completed_at = x
  BY <1>1 DEF Row
<1> HIDE DEF r
<1> QED BY <1>1, <1>2, <1>3

\* Who is at work on a task that is there, and was created by now.
LEMMA WorkIsOld ==
  ASSUME Ordered, NEW w \in Workers, pc[w] \in Works
  PROVE  /\ task[w] \in Tasks /\ rows[task[w]].status \in InHand /\ view[task[w]].status \in InHand
         /\ created[task[w]] # 0 /\ created[task[w]] <= clock
<1>1. task[w] \in Tasks /\ task[w] # None
  BY QueueAssumption, SMT DEF Ordered, Claimed, Shape, Placed, Works, Waits
<1>2. rows[task[w]].status \in InHand /\ view[task[w]].status \in InHand
  BY <1>1 DEF Ordered, Claimed, Held
<1>3. Present(task[w])
  BY <1>2, SMT DEF Present, InHand
<1> QED BY <1>1, <1>2, <1>3 DEF Ordered, Ages

\* What a step has to keep for the times to stay in order.
LEMMA TimesKept ==
  ASSUME Ordered, clock \in Nat, clock' \in Nat, clock <= clock',
         UNCHANGED created,
         \A t \in Tasks : /\ Timed(rows'[t], t, created[t], clock')
                          /\ Timed(view'[t], t, created[t], clock'),
         \A w \in Workers :
           \/ /\ pc'[w] = pc[w] /\ task'[w] = task[w] /\ at'[w] = at[w]
              /\ pc[w] \in Ends =>
                   Late(rows'[task[w]], at[w]) /\ Late(view'[task[w]], at[w])
           \/ pc'[w] \notin Ends \cup {"claim"}
  PROVE  Times'
<1>1. \A w \in Workers : pc'[w] = "claim" => at'[w] <= clock'
  <2> SUFFICES ASSUME NEW w \in Workers, pc'[w] = "claim" PROVE at'[w] <= clock'
    OBVIOUS
  <2>1. pc[w] = "claim" /\ at'[w] = at[w]
    BY DEF Ends
  <2>2. at[w] <= clock /\ at[w] \in Nat
    BY <2>1, SMT DEF Ordered, Times, Claimed, Shape, UserTypes, Users
  <2> QED BY <2>1, <2>2
<1>2. \A w \in Workers : pc'[w] \in Ends =>
        /\ created'[task'[w]] <= at'[w]
        /\ Late(rows'[task'[w]], at'[w]) /\ Late(view'[task'[w]], at'[w])
  BY Zenon DEF Ordered, Times
<1> QED BY <1>1, <1>2, Zenon DEF Times

LEMMA TimedLater ==
  ASSUME NEW r \in Row, NEW t, NEW born, NEW now \in Nat, NEW later \in Nat, now <= later,
         Timed(r, t, born, now)
  PROVE  Timed(r, t, born, later)
<1>1. r.started_at \in Nat
  BY DEF Row
<1> QED BY <1>1, SMT DEF Timed

\* A statement that finishes, and leaves everybody but its user where they are.
LEMMA FinishedTimes ==
  ASSUME Ordered, NEW u \in Users, NEW new, Finished(u, new), UNCHANGED <<created, clock>>,
         \A t \in Tasks : Timed(new[t], t, created[t], clock),
         \A w \in Workers :
           \/ /\ pc'[w] = pc[w] /\ task'[w] = task[w] /\ at'[w] = at[w]
              /\ pc[w] \in Ends => Late(new[task[w]], at[w])
           \/ pc'[w] \notin Ends \cup {"claim"}
  PROVE  Times'
<1>1. view' = new /\ (rows' = rows \/ rows' = new)
  BY DEF Finished
<1>2. clock \in Nat /\ clock' = clock
  BY DEF Ordered, Claimed, Shape, OtherTypes
<1>3. \A t \in Tasks : Timed(rows'[t], t, created[t], clock')
  BY <1>1, <1>2 DEF Ordered, Times
<1>4. \A w \in Workers :
        pc[w] \in Ends /\ Late(new[task[w]], at[w]) => Late(rows'[task[w]], at[w])
  BY <1>1 DEF Ordered, Times
<1>5. \A w \in Workers :
        \/ /\ pc'[w] = pc[w] /\ task'[w] = task[w] /\ at'[w] = at[w]
           /\ pc[w] \in Ends =>
                Late(rows'[task[w]], at[w]) /\ Late(view'[task[w]], at[w])
        \/ pc'[w] \notin Ends \cup {"claim"}
  BY <1>1, <1>4
<1>6. clock <= clock'
  BY <1>2
<1> QED BY <1>1, <1>2, <1>3, <1>5, <1>6, TimesKept

LEMMA SameTables ==
  ASSUME Ordered, UNCHANGED <<db, created, clock>>, NEW w \in Workers,
         \A v \in Workers \ {w} : pc'[v] = pc[v] /\ task'[v] = task[v] /\ at'[v] = at[v],
         \/ pc'[w] = pc[w] /\ task'[w] = task[w] /\ at'[w] = at[w]
         \/ pc'[w] \notin Ends \cup {"claim"}
         \/ pc'[w] = "claim" /\ at'[w] = clock
         \/ pc'[w] \in Ends /\ pc[w] \in Works /\ task'[w] = task[w] /\ at'[w] = clock
  PROVE  Times'
<1>1. clock \in Nat /\ UNCHANGED <<rows, view>>
  BY DEF Ordered, Claimed, Shape, OtherTypes, db
<1>2. pc[w] \in Works => /\ created[task[w]] <= clock
                         /\ Late(rows[task[w]], clock) /\ Late(view[task[w]], clock)
  BY WorkIsOld DEF Ordered, Times, Timed, Late
<1>3. \A t \in Tasks : /\ Timed(rows'[t], t, created'[t], clock')
                       /\ Timed(view'[t], t, created'[t], clock')
  BY <1>1 DEF Ordered, Times
<1>4. \A v \in Workers : pc'[v] = "claim" => at'[v] <= clock'
  BY <1>1 DEF Ordered, Times, Ends
<1>5. \A v \in Workers \ {w} : pc'[v] \in Ends =>
        /\ created'[task'[v]] <= at'[v]
        /\ Late(rows'[task'[v]], at'[v]) /\ Late(view'[task'[v]], at'[v])
  BY <1>1 DEF Ordered, Times
<1>6. pc'[w] \in Ends =>
        /\ created'[task'[w]] <= at'[w]
        /\ Late(rows'[task'[w]], at'[w]) /\ Late(view'[task'[w]], at'[w])
  <2>1. CASE pc'[w] = pc[w] /\ task'[w] = task[w] /\ at'[w] = at[w]
    BY <1>1, <2>1 DEF Ordered, Times
  <2>2. CASE pc'[w] \in Ends /\ pc[w] \in Works /\ task'[w] = task[w] /\ at'[w] = clock
    BY <1>1, <1>2, <2>2
  <2> QED BY <2>1, <2>2 DEF Ends
<1> QED BY <1>3, <1>4, <1>5, <1>6, Zenon DEF Times

LEMMA GotoTimes ==
  ASSUME Shape, NEW u \in Users, NEW l, NEW t, NEW x, Goto(u, l, t, x)
  PROVE  at'[u] = x /\ \A v \in Users \ {u} : at'[v] = at[v]
BY SMT DEF Shape, UserTypes, Goto

LEMMA OutsideTimes == ASSUME Ordered, Outside PROVE Times'
<1>0. /\ created \in [Tasks -> Nat] /\ clock \in Nat
      /\ rows \in [Tasks -> Row] /\ view \in [Tasks -> Row]
      /\ \A t \in Tasks : /\ Timed(rows[t], t, created[t], clock)
                          /\ Timed(view[t], t, created[t], clock)
  BY DEF Ordered, Claimed, Shape, OtherTypes, DbTypes, Times
<1>1. CASE Tick
  <2>1. clock' = clock + 1 /\ UNCHANGED <<rows, view, pc, task, at, created>>
    BY <1>1 DEF Tick, db, users
  <2>2. clock' \in Nat /\ clock <= clock'
    BY <1>0, <2>1
  <2>3. \A t \in Tasks : /\ Timed(rows'[t], t, created[t], clock')
                         /\ Timed(view'[t], t, created[t], clock')
    BY <1>0, <2>1, <2>2, TimedLater
  <2>4. \A w \in Workers :
          /\ pc'[w] = pc[w] /\ task'[w] = task[w] /\ at'[w] = at[w]
          /\ pc[w] \in Ends => Late(rows'[task[w]], at[w]) /\ Late(view'[task[w]], at[w])
    BY <2>1 DEF Ordered, Times
  <2> QED BY <1>0, <2>1, <2>2, <2>3, <2>4, TimesKept
<1>2. ASSUME NEW t \in Tasks, Construct(t) PROVE Times'
  <2>1. /\ created[t] = 0 /\ clock' = clock + 1
        /\ created' = [created EXCEPT ![t] = clock + 1]
        /\ UNCHANGED <<rows, view, pc, task, at>>
    BY <1>2 DEF Construct, db, users
  <2>2. ~Present(t)
    BY <2>1 DEF Ordered, Ages
  <2>3. clock + 1 \in Nat /\ clock <= clock + 1
    BY <1>0
  <2>4. \A u \in Tasks : /\ Timed(rows'[u], u, created'[u], clock')
                         /\ Timed(view'[u], u, created'[u], clock')
    <3> SUFFICES ASSUME NEW u \in Tasks PROVE /\ Timed(rows[u], u, created'[u], clock + 1)
                                             /\ Timed(view[u], u, created'[u], clock + 1)
      BY <2>1
    <3>1. CASE u = t
      <4>1. rows[u].status = "absent" /\ view[u].status = "absent"
        BY <2>2, <3>1 DEF Present
      <4> QED BY <4>1 DEF Timed
    <3>2. CASE u # t
      <4>1. created'[u] = created[u]
        BY <1>0, <2>1, <3>2
      <4> QED BY <1>0, <2>3, <4>1, TimedLater
    <3> QED BY <3>1, <3>2
  <2>5. \A w \in Workers : pc[w] \in Ends => task[w] # t /\ task[w] \in Tasks
    <3>1. Ends \subseteq Works
      BY DEF Ends, Works
    <3> QED BY <2>1, <3>1, WorkIsOld
  <2>6. \A w \in Workers : pc'[w] \in Ends =>
          /\ created'[task'[w]] <= at'[w]
          /\ Late(rows'[task'[w]], at'[w]) /\ Late(view'[task'[w]], at'[w])
    BY <1>0, <2>1, <2>5 DEF Ordered, Times
  <2>7. \A w \in Workers : pc'[w] = "claim" => at'[w] <= clock'
    <3>1. \A w \in Workers : at[w] \in Nat
      BY DEF Ordered, Claimed, Shape, UserTypes, Users
    <3> QED BY <1>0, <2>1, <3>1, SMT DEF Ordered, Times
  <2> QED BY <2>4, <2>6, <2>7, Zenon DEF Times
<1>3. ASSUME NEW t \in Tasks, Insert(t) PROVE Times'
  <2>1. /\ lock = None /\ rows' = [rows EXCEPT ![t] = [rows[t] EXCEPT !.status = "pending"]]
        /\ view' = rows' /\ UNCHANGED <<pc, task, at, created, clock>>
    BY <1>3 DEF Insert, users
  <2>2. view = rows
    BY <2>1, LockFree DEF Ordered
  <2>3. rows'[t].status = "pending" /\ \A u \in Tasks : u # t => rows'[u] = rows[u]
    BY <1>0, <2>1, RowUpdates DEF Status
  <2>4. \A u \in Tasks : Timed(rows'[u], u, created[u], clock)
    BY <1>0, <2>3 DEF Timed
  <2>5. \A w \in Workers : pc[w] \in Ends => Late(rows'[task[w]], at[w])
    <3>1. \A w \in Workers : pc[w] \in Ends => task[w] \in Tasks
      BY WorkIsOld DEF Ends, Works
    <3> QED BY <2>3, <3>1 DEF Ordered, Times, Late
  <2> QED BY <1>0, <2>1, <2>4, <2>5, TimesKept
<1> QED BY <1>1, <1>2, <1>3 DEF Outside

LEMMA WorkerTimes ==
  ASSUME OwnQueues, Ordered, NEW w \in Workers, WorkerStep(w) PROVE Times'
<1>0. /\ Shape /\ Claimed /\ DbTypes /\ w \in Users /\ at[w] \in Nat
      /\ \A v \in Workers \ {w} : v \in Users \ {w}
  BY DEF Ordered, Claimed, Shape, UserTypes, Users
<1>0a. \A t \in Tasks : Timed(rows[t], t, created[t], clock) /\ Timed(view[t], t, created[t], clock)
  BY DEF Ordered, Times
<1>0b. ASSUME NEW l, NEW t, NEW x, Goto(w, l, t, x)
       PROVE  /\ pc'[w] = l /\ task'[w] = t /\ at'[w] = x
              /\ \A v \in Workers \ {w} : pc'[v] = pc[v] /\ task'[v] = task[v] /\ at'[v] = at[v]
  BY <1>0, <1>0b, GotoPlaces, GotoTimes
<1>1. CASE ReadNow(w)
  <2>1. Goto(w, "claim", None, clock) /\ UNCHANGED <<db, created, clock>>
    BY <1>1 DEF ReadNow
  <2> QED BY <1>0b, <2>1, SameTables
<1>2. CASE AgentEnds(w)
  <2>1. /\ pc[w] \in Works /\ UNCHANGED <<db, created, clock>>
        /\ Goto(w, "publish", task[w], 0) \/ Goto(w, "failed", task[w], clock)
    BY <1>2 DEF AgentEnds, Works
  <2>2. CASE Goto(w, "publish", task[w], 0)
    <3>1. pc'[w] \notin Ends \cup {"claim"}
      BY <1>0b, <2>2 DEF Ends
    <3> QED BY <1>0b, <2>1, <2>2, <3>1, SameTables
  <2>3. CASE Goto(w, "failed", task[w], clock)
    <3>1. pc'[w] \in Ends
      BY <1>0b, <2>3 DEF Ends
    <3> QED BY <1>0b, <2>1, <2>3, <3>1, SameTables
  <2> QED BY <2>1, <2>2, <2>3
<1>3. CASE Publish(w)
  <2>1. Goto(w, "ack", task[w], 0) /\ UNCHANGED <<db, created, clock>>
    BY <1>3 DEF Publish
  <2>2. pc'[w] \notin Ends \cup {"claim"}
    BY <1>0b, <2>1 DEF Ends
  <2> QED BY <1>0b, <2>1, <2>2, SameTables
<1>4. CASE ReadEnd(w)
  <2>1. /\ pc[w] \in Works /\ UNCHANGED <<db, created, clock>>
        /\ Goto(w, "done", task[w], clock)
    BY <1>4 DEF ReadEnd, Works
  <2>2. pc'[w] \in Ends
    BY <1>0b, <2>1 DEF Ends
  <2> QED BY <1>0b, <2>1, <2>2, SameTables
<1>5. CASE Claim(w)
  <2>1. PICK t \in Due(at[w]) :
          /\ view' = [view EXCEPT ![t] = [@ EXCEPT !.status = "running", !.started_at = at[w]]]
          /\ UNCHANGED rows
          /\ Goto(w, "fetch", t, at[w])
    BY <1>5 DEF Claim
  <2>2. /\ pc[w] = "claim" /\ UNCHANGED <<created, clock>>
        /\ t \in Tasks /\ view[t].status = "pending" /\ ScheduledFor[t] <= at[w]
    BY <1>5, <2>1 DEF Claim, Due
  <2>3. view'[t].status = "running" /\ view'[t].started_at = at[w]
        /\ \A u \in Tasks : u # t => view'[u] = view[u]
    <3>1. view \in [Tasks -> Row] /\ view[t] \in Row
      BY <1>0, <2>2 DEF DbTypes
    <3> DEFINE r == [[view[t] EXCEPT !.status = "running"] EXCEPT !.started_at = at[w]]
    <3>2. view' = [view EXCEPT ![t] = r]
      BY <2>1
    <3>3. r.status = "running" /\ r.started_at = at[w]
      BY <3>1 DEF Row
    <3> HIDE DEF r
    <3> QED BY <2>2, <3>1, <3>2, <3>3
  <2>4. at[w] <= clock
    BY <2>2 DEF Ordered, Times
  <2>5. \A u \in Tasks : Timed(view'[u], u, created[u], clock)
    BY <1>0a, <2>2, <2>3, <2>4 DEF Timed
  <2>6. /\ pc'[w] = "fetch"
        /\ \A v \in Workers \ {w} : pc'[v] = pc[v] /\ task'[v] = task[v] /\ at'[v] = at[v]
    BY <1>0b, <2>1
  <2>7. \A v \in Workers : pc[v] \in Ends => Late(view'[task[v]], at[v])
    <3>1. \A v \in Workers : pc[v] \in Ends => task[v] \in Tasks /\ task[v] # t
      BY <2>2, WorkIsOld, SMT DEF Ends, Works, InHand
    <3> QED BY <2>3, <3>1 DEF Ordered, Times
  <2>8. \A v \in Workers : pc[v] \in Ends => Late(rows[task[v]], at[v])
    BY DEF Ordered, Times
  <2>9. clock \in Nat /\ clock <= clock
    BY <1>0 DEF Shape, OtherTypes
  <2>10. "fetch" \notin Ends \cup {"claim"}
    BY DEF Ends
  <2> QED BY <1>0a, <2>1, <2>2, <2>5, <2>6, <2>7, <2>8, <2>9, <2>10, TimesKept
<1>6. ASSUME NEW new, Finished(w, new), UNCHANGED <<created, clock>>,
             \A t \in Tasks : Timed(new[t], t, created[t], clock),
             NEW l \in {"idle", "work"}, NEW t, NEW x, Goto(w, l, t, x),
             \A v \in Workers \ {w} : pc[v] \in Ends => Late(new[task[v]], at[v])
      PROVE  Times'
  <2>1. pc'[w] \notin Ends \cup {"claim"}
    BY <1>0b, <1>6 DEF Ends
  <2> QED BY <1>0, <1>0b, <1>6, <2>1, FinishedTimes
<1>7. \A v \in Workers : pc[v] \in Ends => Late(view[task[v]], at[v])
  BY DEF Ordered, Times
<1>8. CASE ClaimNothing(w)
  BY <1>0a, <1>6, <1>7, <1>8 DEF ClaimNothing
<1>9. CASE Fetch(w)
  BY <1>0a, <1>6, <1>7, <1>9 DEF Fetch
<1>10. CASE Settle(w)
  <2> DEFINE new == IF view[task[w]].status = "running"
                    THEN Settled(task[w], pc[w], at[w]) ELSE view
  <2>1. /\ pc[w] \in Ends /\ pc[w] \in Works /\ pc[w] \in Terminal
        /\ Finished(w, new) /\ Goto(w, "idle", None, 0) /\ UNCHANGED <<created, clock>>
    BY <1>10 DEF Settle, Ends, Works, Terminal
  <2>2. task[w] \in Tasks
    BY <2>1, WorkIsOld
  <2>3. /\ Settled(task[w], pc[w], at[w])[task[w]].status \in Ends
        /\ Settled(task[w], pc[w], at[w])[task[w]].started_at = view[task[w]].started_at
        /\ Settled(task[w], pc[w], at[w])[task[w]].completed_at = at[w]
        /\ \A u \in Tasks : u # task[w] => Settled(task[w], pc[w], at[w])[u] = view[u]
    BY <1>0, <2>1, <2>2, SettledType, SettledTimes
  <2>4. \A u \in Tasks : Timed(new[u], u, created[u], clock)
    <3>1. view[task[w]].status = "running" =>
            /\ ScheduledFor[task[w]] <= view[task[w]].started_at
            /\ view[task[w]].started_at <= at[w] /\ created[task[w]] <= at[w]
      BY <1>0a, <2>1, <2>2 DEF Timed, Ordered, Times, Late
    <3>2. view[task[w]].status = "running" =>
            Timed(Settled(task[w], pc[w], at[w])[task[w]], task[w], created[task[w]], clock)
      BY <2>3, <3>1 DEF Timed, Ends
    <3> QED BY <1>0a, <2>3, <3>2
  <2>5. \A v \in Workers \ {w} : pc[v] \in Ends => Late(new[task[v]], at[v])
    <3>1. \A v \in Workers \ {w} : pc[v] \in Ends => task[v] \in Tasks /\ task[v] # task[w]
      <4>1. \A v \in Workers : pc[v] \in Ends => task[v] \in Tasks
        BY WorkIsOld DEF Ends, Works
      <4> QED BY <2>2, <4>1, QueueAssumption DEF Claimed, Held, Ordered
    <3> QED BY <1>7, <2>3, <3>1
  <2> HIDE DEF new
  <2> QED BY <1>6, <2>1, <2>4, <2>5
<1> QED BY <1>1, <1>2, <1>3, <1>4, <1>5, <1>8, <1>9, <1>10 DEF WorkerStep

LEMMA CallerTimes ==
  ASSUME Ordered, NEW a \in Callers, CallerStep(a) PROVE Times'
<1>0. /\ Shape /\ DbTypes /\ a \in Users /\ at[a] \in Nat
      /\ \A v \in Workers : v \in Users \ {a}
  BY QueueAssumption, SMT DEF Ordered, Claimed, Shape, UserTypes, Users
<1>0a. \A t \in Tasks : Timed(rows[t], t, created[t], clock) /\ Timed(view[t], t, created[t], clock)
  BY DEF Ordered, Times
<1>0b. ASSUME NEW l, NEW t, NEW x, Goto(a, l, t, x)
       PROVE  \A v \in Workers : pc'[v] = pc[v] /\ task'[v] = task[v] /\ at'[v] = at[v]
  BY <1>0, <1>0b, GotoPlaces, GotoTimes
<1>0c. \A v \in Workers : pc[v] \in Ends => Late(rows[task[v]], at[v]) /\ Late(view[task[v]], at[v])
  BY DEF Ordered, Times
<1>1. ASSUME NEW t \in Tasks, ReadCancel(a, t) PROVE Times'
  <2>1. /\ UNCHANGED <<rows, view, created, clock>> /\ clock \in Nat /\ clock <= clock
        /\ \A v \in Workers : pc'[v] = pc[v] /\ task'[v] = task[v] /\ at'[v] = at[v]
    BY <1>0, <1>0b, <1>1 DEF ReadCancel, db, Shape, OtherTypes
  <2> QED BY <1>0a, <1>0c, <2>1, TimesKept
<1>2. CASE Cancel(a)
  <2> DEFINE new == IF view[task[a]].status \in Cancellable
                    THEN Settled(task[a], "cancelled", at[a]) ELSE view
  <2>1. Finished(a, new) /\ UNCHANGED <<created, clock>>
    BY <1>2 DEF Cancel
  <2>2. \A v \in Workers : pc'[v] = pc[v] /\ task'[v] = task[v] /\ at'[v] = at[v]
    BY <1>0b, <1>2 DEF Cancel
  <2>3. task[a] \in Tasks /\ "cancelled" \in Terminal
    BY <1>0, <1>2, SMT DEF Cancel, Shape, Placed, Terminal
  <2>4. \A t \in Tasks : new[t] = view[t] \/ new[t].status = "cancelled"
    BY <1>0, <2>3, SettledType
  <2> HIDE DEF new
  <2>5. \A t \in Tasks : Timed(new[t], t, created[t], clock)
    BY <1>0a, <2>4 DEF Timed
  <2>6. \A v \in Workers : pc[v] \in Ends => Late(new[task[v]], at[v])
    <3>1. \A v \in Workers : pc[v] \in Ends => task[v] \in Tasks
      BY WorkIsOld DEF Ends, Works
    <3> QED BY <1>0c, <2>4, <3>1 DEF Late
  <2> QED BY <1>0, <2>1, <2>2, <2>5, <2>6, FinishedTimes
<1> QED BY <1>1, <1>2 DEF CallerStep

LEMMA CrashTimes == ASSUME Ordered, NEW c \in Conns, Crash(c) PROVE Times'
<1>1. \A w \in Workers :
        \/ pc'[w] = pc[w] /\ task'[w] = task[w] /\ at'[w] = at[w]
        \/ pc'[w] = "idle"
  BY DEF Crash, Users
<1>2. rows' = rows /\ (view' = rows \/ view' = view) /\ UNCHANGED <<created, clock>>
  BY DEF Crash
<1>3. clock \in Nat /\ clock <= clock
  BY DEF Ordered, Claimed, Shape, OtherTypes
<1>4. "idle" \notin Ends \cup {"claim"}
  BY DEF Ends
<1>5. \A t \in Tasks : /\ Timed(rows'[t], t, created[t], clock)
                       /\ Timed(view'[t], t, created[t], clock)
  BY <1>2 DEF Ordered, Times
<1>6. \A w \in Workers : pc[w] \in Ends =>
        Late(rows'[task[w]], at[w]) /\ Late(view'[task[w]], at[w])
  BY <1>2 DEF Ordered, Times
<1> QED BY <1>1, <1>2, <1>3, <1>4, <1>5, <1>6, TimesKept

LEMMA StepTimes == ASSUME OwnQueues PROVE Ordered /\ [Next]_vars => Ordered'
<1> SUFFICES ASSUME Ordered, [Next]_vars PROVE Ordered'
  OBVIOUS
<1>1. Claimed' /\ Ages'
  BY StepClaimed, StepAges DEF Ordered, Claimed
<1>2. CASE Next
  BY <1>1, <1>2, Steps, OutsideTimes, WorkerTimes, CallerTimes, CrashTimes DEF Ordered
<1>3. CASE UNCHANGED vars
  <2>1. UNCHANGED <<rows, view, pc, task, at, created, clock>>
    BY <1>3 DEF vars, db, users
  <2> QED BY <1>1, <2>1 DEF Ordered, Times
<1> QED BY <1>2, <1>3

\* Although the queue reads each time before its statement waits for the lock, no task is
\* started before it is due, and none ends before it is started or created.
THEOREM TimesInOrder == ASSUME OwnQueues PROVE Spec => []TimesOrdered
<1>1. Init => Ordered
  BY InitClaimed, InitAges, InitTimes DEF Ordered
<1>2. Ordered /\ [Next]_vars => Ordered'
  BY StepTimes
<1>3. Ordered => TimesOrdered
  BY SMT DEF Ordered, Times, Timed, TimesOrdered
<1> QED BY <1>1, <1>2, <1>3, PTL DEF Spec

-----------------------------------------------------------------------------
(* The queue implements TaskLifecycle *)

\* What a commit may bring to a row: a claim, a cancellation, or one after the other.
Commit(from, to) ==
  \/ to = from
  \/ from = "pending" /\ to = "running"
  \/ from \in Cancellable /\ to = "cancelled"

\* A task is published once it was handed out, between the end of its run and its ack.
Published ==
  /\ \A t \in published : starts[t] = 1
  /\ \A w \in Workers :
       /\ pc[w] \in Works => starts[task[w]] = 1
       /\ pc[w] \in {"ack", "done"} => task[w] \in published
       /\ pc[w] \in {"work", "publish", "failed"} => task[w] \notin published

Living ==
  /\ Claimed /\ Published
  /\ \A t \in Tasks : Commit(rows[t].status, view[t].status)

LEMMA InitLiving == Init => Living
<1>1. Init => Published /\ \A t \in Tasks : Commit(rows[t].status, view[t].status)
  <2>1. Init => Published
    BY SMT DEF Init, Published, Users, Works
  <2>2. Init => \A t \in Tasks : Commit(rows[t].status, view[t].status)
    BY DEF Init, Commit
  <2> QED BY <2>1, <2>2
<1> QED BY <1>1, InitClaimed DEF Living

\* A step as TaskLifecycle sees it: of task t's row, of its publication, or neither.
Moves(t) ==
  \/ UNCHANGED <<rows[t].status, t \in published>>
  \/ /\ UNCHANGED (t \in published)
     /\ \/ rows[t].status = "absent" /\ rows'[t].status = "pending"
        \/ rows[t].status = "pending" /\ rows'[t].status = "running"
        \/ rows[t].status \in Cancellable /\ rows'[t].status = "cancelled"
        \/ rows[t].status = "running" /\ rows'[t].status = "done" /\ t \in published
        \/ rows[t].status = "running" /\ rows'[t].status = "failed" /\ t \notin published
  \/ /\ UNCHANGED rows[t].status /\ rows[t].status \in {"running", "cancelled"}
     /\ (t \in published)'

LEMMA MovesImplement ==
  ASSUME NEW t \in Tasks, Moves(t)
  PROVE  [Lifecycle(t)!Next]_<<rows[t].status, t \in published>>
<1>1. CASE UNCHANGED <<rows[t].status, t \in published>>
  BY <1>1
<1>2. CASE UNCHANGED (t \in published) /\ rows[t].status = "absent" /\ rows'[t].status = "pending"
  BY <1>2 DEF Lifecycle!Next, Lifecycle!Submit, Lifecycle!Move
<1>3. CASE UNCHANGED (t \in published) /\ rows[t].status = "pending" /\ rows'[t].status = "running"
  BY <1>3 DEF Lifecycle!Next, Lifecycle!Claim, Lifecycle!Move
<1>4. CASE /\ UNCHANGED (t \in published)
           /\ rows[t].status \in Cancellable /\ rows'[t].status = "cancelled"
  BY <1>4 DEF Lifecycle!Next, Lifecycle!Cancel, Lifecycle!Move, Lifecycle!Cancellable, Cancellable
<1>5. CASE /\ UNCHANGED (t \in published)
           /\ rows[t].status = "running" /\ rows'[t].status = "done" /\ t \in published
  BY <1>5 DEF Lifecycle!Next, Lifecycle!Finish, Lifecycle!Move
<1>6. CASE /\ UNCHANGED (t \in published)
           /\ rows[t].status = "running" /\ rows'[t].status = "failed" /\ t \notin published
  BY <1>6 DEF Lifecycle!Next, Lifecycle!Fail, Lifecycle!Move
<1>7. CASE /\ UNCHANGED rows[t].status /\ rows[t].status \in {"running", "cancelled"}
           /\ (t \in published)'
  BY <1>7 DEF Lifecycle!Next, Lifecycle!Publish
<1> QED BY <1>1, <1>2, <1>3, <1>4, <1>5, <1>6, <1>7 DEF Moves

\* Steps that touch neither the tables nor a publication.
LEMMA StillMoves == ASSUME UNCHANGED <<rows, published>>, NEW t PROVE Moves(t)
BY DEF Moves

LEMMA LivingOutside ==
  ASSUME Living, Outside PROVE Living' /\ \A t \in Tasks : Moves(t)
<1>0. Claimed /\ Claimed' /\ rows \in [Tasks -> Row]
  BY OutsideClaimed DEF Living, Claimed, Shape, DbTypes
<1>1. UNCHANGED <<published, starts, pc, task>>
  BY DEF Outside, Tick, Construct, Insert, users, history
<1>2. Published'
  BY <1>1 DEF Living, Published
<1>3. CASE Tick \/ \E t \in Tasks : Construct(t)
  <2>1. UNCHANGED <<rows, view>>
    BY <1>3 DEF Tick, Construct, db
  <2> QED BY <1>0, <1>1, <1>2, <2>1, StillMoves DEF Living
<1>4. ASSUME NEW t \in Tasks, Insert(t) PROVE Living' /\ \A u \in Tasks : Moves(u)
  <2>1. /\ rows[t].status = "absent" /\ view' = rows'
        /\ rows' = [rows EXCEPT ![t] = [rows[t] EXCEPT !.status = "pending"]]
    BY <1>4 DEF Insert
  <2>2. rows'[t].status = "pending" /\ \A u \in Tasks : u # t => rows'[u] = rows[u]
    BY <1>0, <2>1, RowUpdates DEF Status
  <2>3. \A u \in Tasks : Moves(u)
    BY <1>1, <2>1, <2>2 DEF Moves
  <2> QED BY <1>0, <1>2, <2>1, <2>3 DEF Living, Commit
<1> QED BY <1>3, <1>4 DEF Outside

LEMMA LivingWorker ==
  ASSUME OwnQueues, Living, NEW w \in Workers, WorkerStep(w)
  PROVE  Living' /\ \A t \in Tasks : Moves(t)
<1>0. /\ Claimed /\ Claimed' /\ Shape /\ DbTypes /\ w \in Users /\ at[w] \in Nat
      /\ starts \in [Tasks -> Nat]
      /\ \A t \in Tasks : Commit(rows[t].status, view[t].status)
  BY WorkerClaimed DEF Living, Claimed, Shape, UserTypes, OtherTypes, Users
<1>1. ASSUME NEW l, NEW t, NEW x, Goto(w, l, t, x)
      PROVE  /\ pc'[w] = l /\ task'[w] = t
             /\ \A v \in Workers \ {w} : pc'[v] = pc[v] /\ task'[v] = task[v]
  BY <1>0, <1>1, GotoPlaces DEF Users
<1>2. \A v \in Workers : pc[v] \in Works =>
        task[v] \in Tasks /\ task[v] # None /\ rows[task[v]].status \in InHand
  BY <1>0, QueueAssumption, SMT DEF Claimed, Held, Shape, Placed, Works, Waits
\* A worker that goes to wait, or on with its task.
<1>3. ASSUME NEW l, NEW t, NEW x, Goto(w, l, t, x), UNCHANGED <<published, starts>>,
             \/ l \in Waits \cup {"fetch"}
             \/ t = task[w] /\ pc[w] = "work" /\ l \in {"publish", "failed"}
             \/ t = task[w] /\ pc[w] = "ack" /\ l = "done"
      PROVE  Published'
  BY <1>1, <1>3, SMT DEF Living, Published, Waits, Works
<1>4. CASE ReadNow(w) \/ AgentEnds(w) \/ ReadEnd(w)
  <2>1. UNCHANGED <<rows, view, published, starts>>
    BY <1>4 DEF ReadNow, AgentEnds, ReadEnd, db, history
  <2>2. Published'
    <3>1. CASE ReadNow(w)
      BY <1>3, <2>1, <3>1 DEF ReadNow, Waits
    <3>2. CASE AgentEnds(w)
      BY <1>3, <2>1, <3>2 DEF AgentEnds
    <3>3. CASE ReadEnd(w)
      BY <1>3, <2>1, <3>3 DEF ReadEnd
    <3> QED BY <1>4, <3>1, <3>2, <3>3
  <2> QED BY <1>0, <2>1, <2>2, StillMoves DEF Living
<1>5. CASE Publish(w)
  <2>1. /\ pc[w] = "publish" /\ published' = published \cup {task[w]}
        /\ Goto(w, "ack", task[w], 0) /\ UNCHANGED <<rows, view, starts>>
    BY <1>5 DEF Publish, db, history
  <2>2. pc[w] \in Works /\ task[w] \in Tasks /\ rows[task[w]].status \in InHand
    BY <1>2, <2>1 DEF Works
  <2>3. \A v \in Workers \ {w} : pc[v] \in Works => task[v] # task[w]
    BY <1>0, <1>2, <2>2, QueueAssumption DEF Claimed, Held
  <2>4. pc'[w] = "ack" /\ task'[w] = task[w]
        /\ \A v \in Workers \ {w} : pc'[v] = pc[v] /\ task'[v] = task[v]
    BY <1>1, <2>1
  <2>5. Published'
    BY <2>1, <2>2, <2>3, <2>4, SMT DEF Living, Published, Works
  <2>6. \A t \in Tasks : Moves(t)
    BY <2>1, <2>2 DEF Moves, InHand
  <2> QED BY <1>0, <2>1, <2>5, <2>6 DEF Living
<1>6. CASE Claim(w)
  <2>1. PICK t \in Due(at[w]) :
          /\ view' = [view EXCEPT ![t] = [@ EXCEPT !.status = "running", !.started_at = at[w]]]
          /\ UNCHANGED rows
          /\ Goto(w, "fetch", t, at[w])
    BY <1>6 DEF Claim
  <2>2. /\ pc[w] = "claim" /\ CanWrite(w) /\ UNCHANGED <<published, starts>>
        /\ t \in Tasks /\ view[t].status = "pending"
    BY <1>6, <2>1 DEF Claim, Due, history
  <2>3. view = rows
    BY <1>0, <2>2, FreeToWrite
  <2>4. view'[t].status = "running" /\ \A u \in Tasks : u # t => view'[u] = view[u]
    <3>1. view \in [Tasks -> Row] /\ view[t] \in Row
      BY <1>0, <2>2 DEF DbTypes
    <3> DEFINE r == [[view[t] EXCEPT !.status = "running"] EXCEPT !.started_at = at[w]]
    <3>2. view' = [view EXCEPT ![t] = r]
      BY <2>1
    <3>3. r.status = "running"
      BY <3>1 DEF Row
    <3> HIDE DEF r
    <3> QED BY <2>2, <3>1, <3>2, <3>3
  <2>5. \A u \in Tasks : Commit(rows'[u].status, view'[u].status)
    BY <2>1, <2>2, <2>3, <2>4 DEF Commit
  <2>6. Published'
    BY <1>3, <2>1, <2>2
  <2>7. UNCHANGED <<rows, published>>
    BY <2>1, <2>2
  <2> QED BY <1>0, <2>5, <2>6, <2>7, StillMoves DEF Living
<1>7. CASE ClaimNothing(w)
  <2>1. /\ pc[w] # "fetch" /\ CanWrite(w) /\ Finished(w, view) /\ Goto(w, "idle", None, 0)
        /\ UNCHANGED <<published, starts>>
    BY <1>7 DEF ClaimNothing, history
  <2>2. view = rows /\ Open(w) = {}
    BY <1>0, <2>1, FreeToWrite
  <2>3. UNCHANGED <<rows, view, published>>
    BY <2>1, <2>2 DEF Finished
  <2>4. Published'
    BY <1>3, <2>1 DEF Waits
  <2> QED BY <1>0, <2>3, <2>4, StillMoves DEF Living
<1>8. CASE Fetch(w)
  <2>1. /\ pc[w] = "fetch" /\ Finished(w, view) /\ Goto(w, "work", task[w], 0)
        /\ starts' = [starts EXCEPT ![task[w]] = @ + 1] /\ UNCHANGED published
    BY <1>8 DEF Fetch
  <2>2. rows' = view /\ view' = view
    BY <2>1, FreeToFetch DEF Finished
  <2>3. task[w] \in Tasks /\ task[w] # None /\ starts[task[w]] = 0
    BY <1>0, <2>1, QueueAssumption, SMT DEF Claimed, Handed, Shape, Placed, Waits
  <2>4. task[w] \notin published
    BY <2>3 DEF Living, Published
  <2>5. /\ pc'[w] = "work" /\ task'[w] = task[w]
        /\ \A v \in Workers \ {w} : pc'[v] = pc[v] /\ task'[v] = task[v]
    BY <1>1, <2>1
  <2>6. starts'[task[w]] = 1 /\ \A t \in Tasks : t # task[w] => starts'[t] = starts[t]
    BY <1>0, <2>1, <2>3
  <2>7. \A v \in Workers \ {w} : pc[v] \in Works => task[v] # task[w]
    BY <1>0, <1>2, <2>3 DEF Claimed, Held
  <2>8. \A t \in published : starts'[t] = 1
    BY <1>0, <2>4, <2>6 DEF Living, Published, Shape, OtherTypes
  <2>9. \A v \in Workers : pc'[v] \in Works => starts'[task'[v]] = 1
    BY <1>2, <2>5, <2>6, <2>7 DEF Living, Published
  <2>10. Published'
    BY <2>1, <2>4, <2>5, <2>8, <2>9, SMT DEF Living, Published
  <2>11. \A t \in Tasks : Moves(t)
    BY <1>0, <2>1, <2>2 DEF Moves, Commit
  <2> QED BY <1>0, <2>2, <2>10, <2>11 DEF Living, Commit
<1>9. CASE Settle(w)
  <2> DEFINE new == IF view[task[w]].status = "running"
                    THEN Settled(task[w], pc[w], at[w]) ELSE view
  <2>1. /\ pc[w] \in {"done", "failed"} /\ pc[w] # "fetch" /\ CanWrite(w)
        /\ Finished(w, new) /\ Goto(w, "idle", None, 0) /\ UNCHANGED <<published, starts>>
    BY <1>9 DEF Settle, history
  <2>2. task[w] \in Tasks /\ pc[w] \in Terminal
    BY <1>2, <2>1 DEF Works, Terminal
  <2>3. /\ Settled(task[w], pc[w], at[w])[task[w]].status = pc[w]
        /\ \A u \in Tasks : u # task[w] => Settled(task[w], pc[w], at[w])[u] = view[u]
    BY <1>0, <2>2, SettledType
  <2>4. view = rows /\ view' = new /\ rows' = new
    BY <1>0, <2>1, FreeToWrite DEF Finished
  <2>5. (pc[w] = "done" => task[w] \in published) /\ (pc[w] = "failed" => task[w] \notin published)
    BY DEF Living, Published
  <2>6. \A t \in Tasks :
          \/ new[t].status = view[t].status
          \/ t = task[w] /\ view[t].status = "running" /\ new[t].status = pc[w]
    BY <2>3
  <2>7. Published'
    BY <1>3, <2>1 DEF Waits
  <2> HIDE DEF new
  <2>8. \A t \in Tasks : Moves(t)
    BY <2>1, <2>4, <2>5, <2>6 DEF Moves
  <2> QED BY <1>0, <2>4, <2>7, <2>8 DEF Living, Commit
<1> QED BY <1>4, <1>5, <1>6, <1>7, <1>8, <1>9 DEF WorkerStep

LEMMA LivingCaller ==
  ASSUME Living, NEW a \in Callers, CallerStep(a)
  PROVE  Living' /\ \A t \in Tasks : Moves(t)
<1>0. /\ Claimed /\ Claimed' /\ Shape /\ DbTypes /\ a \in Users /\ a \notin Workers /\ at[a] \in Nat
      /\ \A t \in Tasks : Commit(rows[t].status, view[t].status)
  BY CallerClaimed, QueueAssumption DEF Living, Claimed, Shape, UserTypes, Users
<1>1. UNCHANGED <<published, starts>> /\ \A w \in Workers : pc'[w] = pc[w] /\ task'[w] = task[w]
  <2>1. PICK l, t, x : Goto(a, l, t, x)
    BY Zenon DEF CallerStep, Cancel, ReadCancel
  <2> QED BY <1>0, <2>1, GotoPlaces DEF CallerStep, Cancel, ReadCancel, history, Users
<1>2. Published'
  BY <1>1 DEF Living, Published
<1>3. ASSUME NEW t \in Tasks, ReadCancel(a, t) PROVE Living' /\ \A u \in Tasks : Moves(u)
  <2>1. UNCHANGED <<rows, view>>
    BY <1>3 DEF ReadCancel, db
  <2> QED BY <1>0, <1>1, <1>2, <2>1, StillMoves DEF Living
<1>4. CASE Cancel(a)
  <2> DEFINE new == IF view[task[a]].status \in Cancellable
                    THEN Settled(task[a], "cancelled", at[a]) ELSE view
  <2>1. Finished(a, new) /\ CanWrite(a)
    BY <1>4 DEF Cancel
  <2>2. task[a] \in Tasks /\ "cancelled" \in Terminal
    BY <1>0, <1>4, SMT DEF Cancel, Shape, Placed, Terminal
  <2>3. \A t \in Tasks :
          \/ new[t].status = view[t].status
          \/ view[t].status \in Cancellable /\ new[t].status = "cancelled"
    BY <1>0, <2>2, SettledType
  <2> HIDE DEF new
  <2>4. CASE Open(a) = {}
    <3>1. lock = None
      BY <1>0, <2>1, <2>4, SMT DEF CanWrite, Claimed, Locked, Open
    <3>2. view = rows /\ rows' = new /\ view' = new
      BY <1>0, <2>1, <2>4, <3>1, LockFree DEF Finished
    <3>3. \A t \in Tasks : Moves(t)
      BY <1>1, <2>3, <3>2 DEF Moves
    <3> QED BY <1>0, <1>2, <3>2, <3>3 DEF Living, Commit
  <2>5. CASE Open(a) # {}
    <3>1. view' = new /\ rows' = rows
      BY <2>1, <2>5 DEF Finished
    <3>2. \A t \in Tasks : Commit(rows'[t].status, view'[t].status)
      BY <1>0, <2>3, <3>1, SMT DEF Commit, Cancellable
    <3> QED BY <1>0, <1>1, <1>2, <3>1, <3>2, StillMoves DEF Living
  <2> QED BY <2>4, <2>5
<1> QED BY <1>3, <1>4 DEF CallerStep

LEMMA LivingCrash ==
  ASSUME Living, NEW c \in Conns, Crash(c) PROVE Living' /\ \A t \in Tasks : Moves(t)
<1>1. \A w \in Workers : (pc'[w] = pc[w] /\ task'[w] = task[w]) \/ pc'[w] = "idle"
  BY DEF Crash, Users
<1>2. UNCHANGED <<rows, published, starts>> /\ (view' = rows \/ view' = view)
  BY DEF Crash, history
<1>3. Published'
  BY <1>1, <1>2, SMT DEF Living, Published, Works
<1>4. \A t \in Tasks : Commit(rows'[t].status, view'[t].status)
  BY <1>2 DEF Living, Commit
<1> QED BY <1>2, <1>3, <1>4, CrashClaimed, StillMoves DEF Living

LEMMA StepMoves ==
  ASSUME OwnQueues, Living, Next PROVE Living' /\ \A t \in Tasks : Moves(t)
BY Steps, LivingOutside, LivingWorker, LivingCaller, LivingCrash

\* Each task's row and publication live as TaskLifecycle says, whoever claims, cancels,
\* crashes and commits what, as long as no two workers share their SQLiteQueue.
THEOREM QueueImplements == ASSUME OwnQueues PROVE Spec => ImplementsLifecycle
<1>1. Init => Living /\ \A t \in Tasks : Lifecycle(t)!Init
  BY InitLiving DEF Init, Lifecycle!Init
<1>2. Living /\ [Next]_vars => Living'
  <2>1. Living /\ UNCHANGED vars => Living'
    <3> SUFFICES ASSUME Living, UNCHANGED vars PROVE Living'
      OBVIOUS
    <3>1. UNCHANGED <<rows, view, published, starts, pc, task>>
      BY DEF vars, db, users, history
    <3> QED BY <3>1, StepClaimed DEF Living, Published
  <2> QED BY <2>1, StepMoves
<1>3. Living /\ [Next]_vars =>
        [\A t \in Tasks : [Lifecycle(t)!Next]_<<rows[t].status, t \in published>>]_vars
  BY StepMoves, MovesImplement
<1> QED BY <1>1, <1>2, <1>3, PTL DEF Spec, ImplementsLifecycle

=============================================================================
