--------------------------- MODULE TaskRunProofs ---------------------------
(***************************************************************************)
(* Theorems about TaskRun: the result of a task, from the agent's run to   *)
(* the clients, for every run that module AgentLoop allows.                *)
(***************************************************************************)
EXTENDS TaskRun, AgentLoopProofs

-----------------------------------------------------------------------------
(* The invariant *)

\* A result.md that the run has left so far is that of its last write there.
LoopResult ==
  IF ResultWrites = {} THEN ~IsFile(ResultPath)
  ELSE /\ IsFile(ResultPath)
       /\ tree[ResultPath] = << <<"text", ran[Max(ResultWrites)].sig.args.content>> >>

\* What ResultIsTheRuns says of a published result.
RunsResult ==
  \/ IsDir(ResultPath)
  \/ tree[ResultPath] =
       IF ResultWrites = {} THEN FinalText
       ELSE << <<"text", ran[Max(ResultWrites)].sig.args.content>> >>

\* The row and the run at each point of the worker.
Phases ==
  /\ at \in {"queue", "agent", "persist", "publish", "ack", "nack", "over", "dead"}
  /\ at = "queue" => status \in {"absent", "pending", "cancelled"}
  /\ at \in {"agent", "persist", "publish", "ack", "nack"} => status \in {"running", "cancelled"}
  /\ at \in {"queue", "agent", "persist", "publish", "nack"} => ~result_path
  /\ at \in {"persist", "publish", "ack"} => pc = "text"
  /\ at = "nack" => pc = "exception"
  /\ RowAgreesWithRun

\* The result, from the run to the worker's final text and the row.
Results ==
  /\ at \in {"queue", "agent", "persist"} => LoopResult
  /\ at \in {"publish", "ack"} \/ result_path => RunsResult

\* Clients were shown what is there, and only what was published.
Shown == \A s \in shown : result_path /\ s = tree[ResultPath]

TaskInv == Inv /\ Phases /\ Results /\ Shown

-----------------------------------------------------------------------------
(* The agent's run and result.md *)

\* This call of the run wrote result.md.
WroteResult(r) ==
  /\ r.ok /\ r.sig.args.kind = "write"
  /\ Resolve(r.sig.args.path) = ResultPath

LEMMA WritesMean ==
  /\ ResultWrites = {i \in DOMAIN ran : WroteResult(ran[i])}
  /\ ResultWrites' = {i \in DOMAIN ran' : WroteResult(ran'[i])}
BY DEF ResultWrites, WroteResult

\* A call more: the last write to result.md is this one, or the one it was.
LEMMA WritesNext ==
  ASSUME TypeOK, NEW r, ran' = Append(ran, r), r \in [sig : Signature, ok : BOOLEAN]
  PROVE  /\ WroteResult(r) => ResultWrites' # {} /\ ran'[Max(ResultWrites')] = r
         /\ ~WroteResult(r) /\ ResultWrites = {} => ResultWrites' = {}
         /\ ~WroteResult(r) /\ ResultWrites # {} =>
              ResultWrites' # {} /\ ran'[Max(ResultWrites')] = ran[Max(ResultWrites)]
<1> DEFINE n == Len(ran)
<1>1. /\ ran'[n + 1] = r /\ \A i \in 1 .. n : ran'[i] = ran[i]
      /\ DOMAIN ran' = 1 .. n + 1 /\ DOMAIN ran = 1 .. n /\ n \in Nat
  <2>1. ran \in Seq([sig : Signature, ok : BOOLEAN])
    BY DEF TypeOK, Signature
  <2> QED BY <2>1
<1> HIDE DEF n
<1>2. /\ ResultWrites = {i \in 1 .. n : WroteResult(ran[i])}
      /\ ResultWrites' = {i \in 1 .. n + 1 : WroteResult(ran'[i])}
  BY <1>1, WritesMean
<1>3. CASE WroteResult(r)
  <2>1. n + 1 \in ResultWrites'
    BY <1>1, <1>2, <1>3
  <2>2. ResultWrites' \in SUBSET (1 .. n + 1) /\ ResultWrites' # {}
    BY <1>2, <2>1
  <2> DEFINE S == ResultWrites'
  <2>3. S \in SUBSET (1 .. n + 1) /\ S # {} /\ n + 1 \in S
    BY <2>1, <2>2
  <2> HIDE DEF S
  <2>4. Max(S) = n + 1
    BY <1>1, <2>3, MaxOfNext
  <2> QED BY <1>1, <1>3, <2>2, <2>4 DEF S
<1>4. CASE ~WroteResult(r)
  <2>1. ResultWrites' = ResultWrites
    BY <1>1, <1>2, <1>4
  <2> DEFINE S == ResultWrites
  <2>2. S \in SUBSET (1 .. n)
    BY <1>2
  <2> HIDE DEF S
  <2>3. S # {} => Max(S) \in 1 .. n
    BY <1>1, <2>2, MaxOfPositions
  <2> QED BY <1>1, <1>4, <2>1, <2>3 DEF S
<1> QED BY <1>3, <1>4

\* What is at result.md stays: nothing or a directory, or the file with its lines.
ResultStays ==
  /\ ~IsFile(ResultPath) => ~IsFile(ResultPath)'
  /\ IsFile(ResultPath) => IsFile(ResultPath)' /\ tree'[ResultPath] = tree[ResultPath]

LEMMA LogLeavesResult ==
  ASSUME NEW t, HasTrace(t), NEW line \in Line, tree' = Logged(t, line)
  PROVE  /\ ResultPath \in DOMAIN tree' <=> ResultPath \in DOMAIN t
         /\ ResultPath \in DOMAIN t => tree'[ResultPath] = t[ResultPath]
BY LoggedMeans, Paths

LEMMA StaysKeepsLoopResult ==
  ASSUME TypeOK, LoopResult, ResultStays,
         \/ UNCHANGED ran
         \/ \E r \in [sig : Signature, ok : BOOLEAN] : ran' = Append(ran, r) /\ ~WroteResult(r)
  PROVE  LoopResult'
<1>1. CASE UNCHANGED ran
  <2>1. ResultWrites' = ResultWrites
    BY <1>1, WritesMean
  <2>2. ran' = ran
    BY <1>1
  <2> QED BY <2>1, <2>2 DEF LoopResult, ResultStays
<1>2. CASE \E r \in [sig : Signature, ok : BOOLEAN] : ran' = Append(ran, r) /\ ~WroteResult(r)
  BY <1>2, WritesNext DEF LoopResult, ResultStays
<1> QED BY <1>1, <1>2

\* filesystem_write at another place leaves result.md.
LEMMA WriteElsewhere ==
  ASSUME HasTrace(tree), NEW p \in Path, NEW lines \in Seq(Line),
         Resolve(p) # ResultPath \/ WriteRaises(p),
         NEW line \in Line, tree' = Logged(Written(p, lines), line)
  PROVE  ResultStays
<1> DEFINE new == Written(p, lines)
           loc == Resolve(p)
<1>1. HasTrace(new)
  BY WrittenMeans
<1>2. /\ ResultPath \in DOMAIN tree' <=> ResultPath \in DOMAIN new
      /\ ResultPath \in DOMAIN new => tree'[ResultPath] = new[ResultPath]
  BY <1>1, LogLeavesResult
<1>3. CASE Within(p) /\ ~WriteRaises(p)
  <2>1. new = [l \in DOMAIN tree \cup Ancestors(loc) \cup {loc} |->
                 IF l = loc THEN lines ELSE IF l \in Ancestors(loc) THEN Dir ELSE tree[l]]
    BY <1>3 DEF Written, Put
  <2>2. ResultPath # loc
    BY <1>3
  <2>3. \A l \in DOMAIN tree : tree[l] # Dir => l \notin Ancestors(loc)
    BY <1>3 DEF WriteRaises, Writable, IsFile, Exists
  <2> QED BY <1>2, <2>1, <2>2, <2>3 DEF ResultStays, IsFile, Exists
<1>4. CASE ~(Within(p) /\ ~WriteRaises(p))
  <2>1. new = tree
    BY <1>4 DEF Written
  <2> QED BY <1>2, <2>1 DEF ResultStays, IsFile, Exists
<1> QED BY <1>3, <1>4

LEMMA DispatchKeepsLoopResult == Inv /\ LoopResult /\ Dispatch => LoopResult'
<1> SUFFICES ASSUME Inv, LoopResult, Dispatch PROVE LoopResult'
  OBVIOUS
<1>1. pc = "dispatch" /\ Call \in ToolCall /\ Call.sig \in Signature /\ TypeOK
  BY DispatchMeans DEF ToolCall, Signature, Inv
<1>2. HasTrace(tree)
  BY <1>1, Traces
<1>3. ASSUME NEW v \in Verdicts, tree' = Logged(tree, <<"tool_call", Call, v>>)
      PROVE  ResultStays
  <2>1. <<"tool_call", Call, v>> \in Line
    BY <1>1 DEF Line, Verdicts
  <2> QED BY <1>2, <1>3, <2>1, LogLeavesResult DEF ResultStays, IsFile, Exists
<1>4. CASE Intercept
  <2>1. ResultStays
    BY <1>3, <1>4 DEF Intercept, Verdicts
  <2> QED BY <1>1, <1>4, <2>1, StaysKeepsLoopResult DEF Intercept
<1>5. CASE UnknownTool \/ BadArguments \/ RunRead \/ RunWeb
  <2>1. ResultStays
    BY <1>3, <1>5 DEF UnknownTool, BadArguments, RunRead, RunWeb, Verdicts
  <2>2. PICK ok \in BOOLEAN :
          /\ ran' = Append(ran, [sig |-> Call.sig, ok |-> ok])
          /\ ~ok \/ Call.sig.args.kind # "write"
    BY <1>5 DEF UnknownTool, BadArguments, RunRead, RunWeb, After
  <2>3. ~WroteResult([sig |-> Call.sig, ok |-> ok])
    BY <2>2 DEF WroteResult
  <2> QED BY <1>1, <2>1, <2>2, <2>3, StaysKeepsLoopResult
<1>6. CASE RunWrite
  <2> DEFINE p == Call.sig.args.path
             lines == << <<"text", Call.sig.args.content>> >>
             ok == ~WriteRaises(p)
             line == <<"tool_call", Call, IF ok THEN "ok" ELSE "failed">>
             r == [sig |-> Call.sig, ok |-> ok]
  <2>1. /\ Call.sig.args.kind = "write"
        /\ tree' = Logged(Written(p, lines), line)
        /\ ran' = Append(ran, r)
    BY <1>6 DEF RunWrite, Runs, Fresh, After
  <2>2. p \in Path /\ Call.sig.args.content \in Content
    BY <1>1, <2>1, WriteSignatures
  <2>3. lines \in Seq(Line)
    BY <2>2 DEF Line
  <2>4. line \in Line
    BY <1>1 DEF Line
  <2>5. ok \in BOOLEAN
    BY DEF WriteRaises, Within, IsPrefix
  <2>6. r \in [sig : Signature, ok : BOOLEAN] /\ r.sig = Call.sig /\ (r.ok <=> ok)
    <3> HIDE DEF ok
    <3> QED BY <1>1, <2>5
  <2>7. WroteResult(r) <=> ok /\ Resolve(p) = ResultPath
    BY <2>1, <2>6 DEF WroteResult
  <2> HIDE DEF lines, line, ok, r
  <2>8. CASE ok /\ Resolve(p) = ResultPath
    <3>1. Within(p) /\ ~WriteRaises(p)
      BY <2>8, Paths DEF Within, ok
    <3>2. /\ HasTrace(Written(p, lines)) /\ ResultPath \in DOMAIN Written(p, lines)
          /\ Written(p, lines)[ResultPath] = lines
      BY <1>2, <2>2, <2>3, <2>8, <3>1, WrittenMeans
    <3>3. ResultPath \in DOMAIN tree' /\ tree'[ResultPath] = lines
      BY <2>1, <2>4, <3>2, LogLeavesResult
    <3>4. lines # Dir
      BY <2>3, LinesAreNoDirectory
    <3>5. ResultWrites' # {} /\ ran'[Max(ResultWrites')] = r
      BY <1>1, <2>1, <2>6, <2>7, <2>8, WritesNext
    <3> QED BY <2>6, <3>3, <3>4, <3>5 DEF LoopResult, IsFile, Exists, lines
  <2>9. CASE ~(ok /\ Resolve(p) = ResultPath)
    <3>1. ResultStays
      BY <1>2, <2>1, <2>2, <2>3, <2>4, <2>9, WriteElsewhere DEF ok
    <3> QED BY <1>1, <2>1, <2>6, <2>7, <2>9, <3>1, StaysKeepsLoopResult
  <2> QED BY <2>8, <2>9
<1> QED BY <1>4, <1>5, <1>6 DEF Dispatch

LEMMA AgentKeepsLoopResult == Inv /\ LoopResult /\ Next => LoopResult'
<1> SUFFICES ASSUME Inv, LoopResult, Next PROVE LoopResult'
  OBVIOUS
<1>1. TypeOK
  BY DEF Inv
<1>2. CASE Start
  <2>1. ResultStays
    BY <1>2, StartLeavesResult DEF ResultStays, IsFile, Exists
  <2> QED BY <1>1, <1>2, <2>1, StaysKeepsLoopResult DEF Start
<1>3. CASE AskFails \/ AskText \/ AskCalls \/ StepsExceeded
  <2>1. DOMAIN tree' = DOMAIN tree /\ UNCHANGED ran
    BY <1>3 DEF AskFails, AskText, AskCalls, StepsExceeded, Logged
  <2>2. \A loc \in DOMAIN tree : loc # TracePath => tree'[loc] = tree[loc]
    BY <1>3 DEF AskFails, AskText, AskCalls, StepsExceeded, Logged
  <2>3. ResultStays
    BY <2>1, <2>2, Paths DEF ResultStays, IsFile, Exists
  <2> QED BY <1>1, <2>1, <2>3, StaysKeepsLoopResult
<1>4. CASE Dispatch
  BY <1>4, DispatchKeepsLoopResult
<1> QED BY <1>2, <1>3, <1>4 DEF Next

-----------------------------------------------------------------------------
(* The worker's final text *)

\* There is nothing in the way of result.md but result.md.
LEMMA ResultWritable == ASSUME Inv, ~Exists(ResultPath) PROVE Writable(ResultPath)
<1>1. /\ \A a \in Ancestors(Home) : a \in DOMAIN tree /\ tree[a] = Dir
      /\ Home \in DOMAIN tree /\ tree[Home] = Dir
  BY DEF Inv, Files, Tidy, Rooted
<1>2. ASSUME NEW a \in Ancestors(ResultPath) PROVE ~IsFile(a)
  <2>1. a \in Location /\ Len(a) < Len(ResultPath)
    BY Paths, AncestorsMean
  <2>2. CASE IsPrefix(Home, a)
    <3>1. Len(Home) <= Len(a) /\ \A i \in 1 .. Len(Home) : Home[i] = a[i]
      BY <2>1, <2>2, Paths, PrefixMeans
    <3>2. Len(ResultPath) = Len(Home) + 1 /\ Home \in Seq(STRING) /\ a \in Seq(STRING)
      BY <2>1, HomeAssumption DEF ResultPath, Location
    <3>3. Len(a) = Len(Home)
      BY <2>1, <3>1, <3>2
    <3>4. a = Home
      BY <3>1, <3>2, <3>3, SeqEqual
    <3> QED BY <1>1, <3>4 DEF IsFile
  <2>3. CASE a \in Ancestors(Home)
    BY <1>1, <2>3 DEF IsFile
  <2> QED BY <1>2, <2>2, <2>3, Paths, AboveHome
<1> QED BY <1>2 DEF Writable, IsDir

LEMMA PersistKeepsInv ==
  ASSUME Inv, LoopResult, pc = "text", Persist
  PROVE  Inv' /\ RunsResult'
<1>1. /\ tree' = IF Exists(ResultPath) THEN tree ELSE Put(ResultPath, FinalText)
      /\ UNCHANGED <<pc, step, messages, calls, seen, ran, tools, max_steps>>
  BY DEF Persist, state
<1>2. ResultWrites' = ResultWrites /\ ran' = ran
  BY <1>1, WritesMean
<1>3. FinalText \in Seq(Line) /\ FinalText # Dir
  <2>1. FinalText \in Seq(Line)
    BY DEF FinalText, Line
  <2> QED BY <2>1, LinesAreNoDirectory
<1>4. HasTrace(tree)
  BY Traces
<1>5. HasTrace(tree') /\ tree'[TracePath] = tree[TracePath]
  <2>1. CASE Exists(ResultPath)
    BY <1>1, <1>4, <2>1
  <2>2. CASE ~Exists(ResultPath)
    <3>1. tree' = Put(ResultPath, FinalText) /\ Writable(ResultPath)
      BY <1>1, <2>2, ResultWritable
    <3>2. Tidy(tree') /\ Rooted(tree')
      BY <1>3, <1>4, <3>1, Paths, PutKeeps DEF HasTrace, Files
    <3>3. tree' = [l \in DOMAIN tree \cup Ancestors(ResultPath) \cup {ResultPath} |->
                     IF l = ResultPath THEN FinalText
                     ELSE IF l \in Ancestors(ResultPath) THEN Dir ELSE tree[l]]
      BY <3>1 DEF Put
    <3>4. \A l \in DOMAIN tree' : tree'[l] \in {Dir} \cup Seq(Line)
      BY <1>3, <1>4, <3>3 DEF HasTrace, Files
    <3>5. TracePath \in DOMAIN tree /\ tree[TracePath] # Dir
      BY <1>4, LinesAreNoDirectory DEF HasTrace
    <3>6. TracePath \notin Ancestors(ResultPath)
      BY <3>1, <3>5 DEF Writable, IsFile, Exists
    <3>7. TracePath \in DOMAIN tree' /\ tree'[TracePath] = tree[TracePath]
      BY <3>3, <3>5, <3>6, Paths
    <3> QED BY <1>4, <3>2, <3>4, <3>7 DEF HasTrace, Files
  <2> QED BY <2>1, <2>2
<1>6. TypeOK'
  <2>1. TypeOK
    BY DEF Inv
  <2>2. \A loc \in DOMAIN tree' : tree'[loc] \in {Dir} \cup Seq(Line)
    BY <1>5 DEF HasTrace, Files
  <2>3. (IsDir(Home) /\ IsFile(TracePath))' /\ DOMAIN tree' \subseteq Location
    BY <1>5, LinesAreNoDirectory DEF HasTrace, Files, Rooted, Tidy, IsDir, IsFile, Exists
  <2> QED BY <1>1, <2>1, <2>2, <2>3 DEF TypeOK
<1>7. Paired' /\ Remembered' /\ Counted' /\ AtStart'
  BY <1>1 DEF Inv, Paired, Assistant, Remembered, DispatchedOnce, Counted, Replies, AtStart
<1>8. ErrorIsLast' /\ TraceTells'
  BY <1>1, <1>5 DEF Inv, ErrorIsLast, Replies, TraceTells, Intact
<1>9. RunsResult'
  <2>1. CASE Exists(ResultPath)
    BY <1>1, <1>2, <2>1 DEF LoopResult, RunsResult, IsFile, IsDir, Exists
  <2>2. CASE ~Exists(ResultPath)
    <3>1. ResultWrites = {}
      BY <2>2 DEF LoopResult, IsFile
    <3>2. tree'[ResultPath] = FinalText
      BY <1>1, <2>2 DEF Put
    <3> QED BY <1>2, <3>1, <3>2 DEF RunsResult
  <2> QED BY <2>1, <2>2
<1> QED BY <1>5, <1>6, <1>7, <1>8, <1>9 DEF Inv, HasTrace

-----------------------------------------------------------------------------
(* The steps of the task preserve the invariant *)

LEMMA SameKeepsLoop ==
  ASSUME UNCHANGED vars
  PROVE  /\ Inv => Inv'
         /\ LoopResult => LoopResult'
         /\ RunsResult => RunsResult'
<1>1. Inv => Inv'
  BY NextKeepsInv
<1>2. UNCHANGED <<tree, ran>> /\ ResultWrites' = ResultWrites
  BY WritesMean DEF vars, state
<1> QED BY <1>1, <1>2 DEF LoopResult, RunsResult, IsFile, IsDir, Exists

LEMMA TaskInitInv == TaskInit => TaskInv
<1> SUFFICES ASSUME TaskInit PROVE TaskInv
  OBVIOUS
<1>1. Init /\ at = "queue" /\ status = "absent" /\ result_path = FALSE /\ shown = {}
  BY DEF TaskInit
<1>2. Inv
  BY <1>1, InitInv
<1>3. LoopResult
  <2>1. ResultWrites = {}
    BY <1>1 DEF Init, ResultWrites
  <2>2. ~IsFile(ResultPath)
    BY <1>1 DEF Init, IsFile, Exists
  <2> QED BY <2>1, <2>2 DEF LoopResult
<1> QED BY <1>1, <1>2, <1>3 DEF TaskInv, Phases, RowAgreesWithRun, Results, Shown

LEMMA TaskNextKeepsInv == TaskInv /\ [TaskNext]_allVars => TaskInv'
<1> SUFFICES ASSUME TaskInv, [TaskNext]_allVars PROVE TaskInv'
  OBVIOUS
<1>1. Inv /\ Phases /\ Results /\ Shown
  BY DEF TaskInv
<1>2. CASE Submit
  <2>1. UNCHANGED vars /\ UNCHANGED <<pc, tree>>
    BY <1>2 DEF Submit, vars, state
  <2> QED BY <1>1, <1>2, <2>1, SameKeepsLoop
    DEF Submit, TaskInv, Phases, RowAgreesWithRun, Results, Shown
<1>3. CASE Cancel
  <2>1. UNCHANGED vars /\ UNCHANGED <<pc, tree>>
    BY <1>3 DEF Cancel, vars, state
  <2> QED BY <1>1, <1>3, <2>1, SameKeepsLoop
    DEF Cancel, TaskInv, Phases, RowAgreesWithRun, Results, Shown
<1>4. CASE GetResult
  <2>1. UNCHANGED vars /\ UNCHANGED <<pc, tree, at, status, result_path>>
    BY <1>4 DEF GetResult, vars, state, row
  <2> QED BY <1>1, <1>4, <2>1, SameKeepsLoop
    DEF GetResult, TaskInv, Phases, RowAgreesWithRun, Results, Shown
<1>5. CASE Claim
  <2>1. UNCHANGED vars /\ UNCHANGED <<pc, tree>>
    BY <1>5 DEF Claim, vars, state
  <2> QED BY <1>1, <1>5, <2>1, SameKeepsLoop
    DEF Claim, Goto, TaskInv, Phases, RowAgreesWithRun, Results, Shown
<1>6. CASE AgentStep
  <2>1. /\ at = "agent" /\ Next /\ UNCHANGED <<at, status, result_path, shown>>
    BY <1>6 DEF AgentStep, row
  <2>2. Inv' /\ LoopResult'
    BY <1>1, <2>1, NextKeepsInv, AgentKeepsLoopResult DEF Results
  <2>3. ~result_path /\ status \in {"running", "cancelled"} /\ shown = {}
    BY <1>1, <2>1 DEF Phases, Shown
  <2> QED BY <2>1, <2>2, <2>3 DEF TaskInv, Phases, RowAgreesWithRun, Results, Shown
<1>7. CASE Returns
  <2>1. UNCHANGED vars /\ UNCHANGED <<pc, tree, status, result_path>>
    BY <1>7 DEF Returns, vars, state, row
  <2> QED BY <1>1, <1>7, <2>1, SameKeepsLoop
    DEF Returns, Goto, TaskInv, Phases, RowAgreesWithRun, Results, Shown
<1>8. CASE Persist
  <2>1. /\ at = "persist" /\ at' = "publish"
        /\ UNCHANGED <<pc, status, result_path, shown>>
    BY <1>8 DEF Persist, Goto, row, state
  <2>2. LoopResult /\ pc = "text" /\ ~result_path /\ shown = {}
    BY <1>1, <2>1 DEF Phases, Results, Shown
  <2>3. Inv' /\ RunsResult'
    BY <1>1, <1>8, <2>2, PersistKeepsInv
  <2> QED BY <1>1, <2>1, <2>2, <2>3 DEF TaskInv, Phases, RowAgreesWithRun, Results, Shown
<1>9. CASE Publish
  <2>1. UNCHANGED vars /\ UNCHANGED <<pc, tree, status>>
    BY <1>9 DEF Publish, vars, state
  <2> QED BY <1>1, <1>9, <2>1, SameKeepsLoop
    DEF Publish, Goto, TaskInv, Phases, RowAgreesWithRun, Results, Shown
<1>10. CASE Ack
  <2>1. UNCHANGED vars /\ UNCHANGED <<pc, tree, result_path>>
    BY <1>10 DEF Ack, Settle, vars, state
  <2> QED BY <1>1, <1>10, <2>1, SameKeepsLoop
    DEF Ack, Settle, Goto, TaskInv, Phases, RowAgreesWithRun, Results, Shown
<1>11. CASE Nack
  <2>1. UNCHANGED vars /\ UNCHANGED <<pc, tree, result_path>>
    BY <1>11 DEF Nack, Settle, vars, state
  <2> QED BY <1>1, <1>11, <2>1, SameKeepsLoop
    DEF Nack, Settle, Goto, TaskInv, Phases, RowAgreesWithRun, Results, Shown
<1>12. CASE Crash
  <2>1. UNCHANGED vars /\ UNCHANGED <<pc, tree, status, result_path, shown>>
    BY <1>12 DEF Crash, vars, state, row
  <2> QED BY <1>1, <1>12, <2>1, SameKeepsLoop
    DEF Crash, TaskInv, Phases, RowAgreesWithRun, Results, Shown
<1>13. CASE UNCHANGED allVars
  <2>1. UNCHANGED vars /\ UNCHANGED <<pc, tree, at, status, result_path, shown>>
    BY <1>13 DEF allVars, vars, state, row
  <2> QED BY <1>1, <2>1, SameKeepsLoop
    DEF TaskInv, Phases, RowAgreesWithRun, Results, Shown
<1> QED BY <1>2, <1>3, <1>4, <1>5, <1>6, <1>7, <1>8, <1>9, <1>10, <1>11, <1>12, <1>13
  DEF TaskNext, WorkerStep

LEMMA TaskInvAlways == TaskSpec => []TaskInv
BY TaskInitInv, TaskNextKeepsInv, PTL DEF TaskSpec

-----------------------------------------------------------------------------
(* Theorems *)

\* Worker._run_one publishes what this run last wrote to result.md, or the run's final
\* text if it wrote nothing there, whatever else the run did to the workspace.
THEOREM PublishesTheRuns == TaskSpec => []ResultIsTheRuns
<1>1. TaskInv => ResultIsTheRuns
  BY DEF TaskInv, Results, RunsResult, ResultIsTheRuns
<1> QED BY <1>1, TaskInvAlways, PTL

\* Clients that get the result of a task get the same one, however the task ends.
THEOREM ShowsOneResult == TaskSpec => []OneResult
<1>1. TaskInv => OneResult
  BY DEF TaskInv, Shown, OneResult
<1> QED BY <1>1, TaskInvAlways, PTL

\* ack and nack, and the publication before them, say of the run how it ended.
THEOREM RowTellsTheRun == TaskSpec => []RowAgreesWithRun
BY TaskInvAlways, PTL DEF TaskInv, Phases

=============================================================================
