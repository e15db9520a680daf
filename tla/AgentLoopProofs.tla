-------------------------- MODULE AgentLoopProofs --------------------------
(***************************************************************************)
(* Theorems about AgentLoop, for every registry, every set of calls the    *)
(* model may make, every allowlist and step cap, and replies of any length.*)
(***************************************************************************)
EXTENDS AgentLoop, WorkspaceProofs, SequenceTheorems, FiniteSetTheorems

Signature == {Normalised(c) : c \in Calls}

-----------------------------------------------------------------------------
(* The files *)

\* A file system with the workspace and the trace in it.
Files(t) ==
  /\ Tidy(t) /\ Rooted(t)
  /\ \A loc \in DOMAIN t : t[loc] \in {Dir} \cup Seq(Line)

HasTrace(t) == Files(t) /\ TracePath \in DOMAIN t /\ t[TracePath] \in Seq(Line)

LEMMA Paths ==
  /\ Home \in Location /\ TracePath \in Location /\ ResultPath \in Location
  /\ TracePath # ResultPath /\ TracePath # Home /\ ResultPath # Home
  /\ IsPrefix(Home, TracePath) /\ IsPrefix(Home, ResultPath)
  /\ TracePath \notin Ancestors(Home) /\ ResultPath \notin Ancestors(Home)
<1>1. Home \in Seq(STRING)
  BY HomeAssumption
<1>2. TracePath \in Seq(STRING) /\ ResultPath \in Seq(STRING)
  <2>1. "trace.jsonl" \in STRING /\ "result.md" \in STRING
    BY AgentAssumption
  <2>2. \A x \in STRING : Append(Home, x) \in Seq(STRING)
    BY <1>1, Appending
  <2> QED BY <2>1, <2>2 DEF TracePath, ResultPath
<1>3. /\ Len(TracePath) = Len(Home) + 1 /\ TracePath[Len(Home) + 1] = "trace.jsonl"
      /\ Len(ResultPath) = Len(Home) + 1 /\ ResultPath[Len(Home) + 1] = "result.md"
      /\ \A i \in 1 .. Len(Home) : TracePath[i] = Home[i] /\ ResultPath[i] = Home[i]
  BY <1>1 DEF TracePath, ResultPath
<1>4. IsPrefix(Home, TracePath) /\ IsPrefix(Home, ResultPath)
  BY <1>1, <1>2, <1>3, PrefixMeans DEF Location
<1>5. \A a \in Ancestors(Home) : Len(a) < Len(Home)
  BY <1>1, AncestorsMean DEF Location
<1>6. TracePath \notin Ancestors(Home) /\ ResultPath \notin Ancestors(Home)
  BY <1>1, <1>3, <1>5
<1> QED BY <1>1, <1>2, <1>3, <1>4, <1>6 DEF Location

LEMMA LinesAreNoDirectory == ASSUME NEW lines \in Seq(Line) PROVE lines # Dir
BY AgentAssumption

LEMMA LoggedMeans ==
  ASSUME NEW t, HasTrace(t), NEW line \in Line
  PROVE  LET new == Logged(t, line)
         IN /\ HasTrace(new) /\ DOMAIN new = DOMAIN t
            /\ new[TracePath] = Append(t[TracePath], line)
            /\ \A loc \in DOMAIN t : loc # TracePath => new[loc] = t[loc]
            /\ \A loc \in DOMAIN t : new[loc] = Dir <=> t[loc] = Dir
<1> DEFINE new == Logged(t, line)
<1>1. /\ new = [loc \in DOMAIN t |-> IF loc = TracePath THEN Append(t[TracePath], line) ELSE t[loc]]
  BY DEF Logged, HasTrace, Files, Tidy
<1>2. t[TracePath] # Dir /\ Append(t[TracePath], line) \in Seq(Line)
  BY LinesAreNoDirectory, Appending DEF HasTrace
<1>3. Append(t[TracePath], line) # Dir
  BY <1>2, LinesAreNoDirectory
<1>4. \A loc \in DOMAIN t : new[loc] = Dir <=> t[loc] = Dir
  BY <1>1, <1>2, <1>3
<1>5. Tidy(new) /\ Rooted(new)
  BY <1>1, <1>4 DEF HasTrace, Files, Tidy, Rooted
<1>6. Files(new) /\ TracePath \in DOMAIN new /\ new[TracePath] \in Seq(Line)
  BY <1>1, <1>2, <1>5 DEF HasTrace, Files
<1> QED BY <1>1, <1>4, <1>6 DEF HasTrace

\* A write leaves the trace as it was, or replaces it.
LEMMA WrittenMeans ==
  ASSUME HasTrace(tree), NEW p \in Path, NEW lines \in Seq(Line)
  PROVE  LET new == Written(p, lines)
         IN /\ HasTrace(new) /\ Alike(tree, new)
            /\ new[TracePath] \in {tree[TracePath], lines}
            /\ \A loc \in DOMAIN tree : tree[loc] # Dir /\ Resolve(p) # loc => new[loc] = tree[loc]
            /\ Within(p) /\ ~WriteRaises(p) => Resolve(p) \in DOMAIN new /\ new[Resolve(p)] = lines
<1> DEFINE new == Written(p, lines)
           loc == Resolve(p)
<1>1. lines # Dir /\ tree[TracePath] # Dir
  BY LinesAreNoDirectory DEF HasTrace
<1>2. Tidy(new) /\ Rooted(new) /\ Alike(tree, new)
  BY <1>1, WriteKeeps DEF HasTrace, Files
<1>3. CASE Within(p) /\ ~WriteRaises(p)
  <2>1. new = [l \in DOMAIN tree \cup Ancestors(loc) \cup {loc} |->
                 IF l = loc THEN lines ELSE IF l \in Ancestors(loc) THEN Dir ELSE tree[l]]
    BY <1>3 DEF Written, Put
  <2>2. \A l \in DOMAIN tree : tree[l] # Dir => l \notin Ancestors(loc)
    BY <1>3 DEF WriteRaises, Writable, IsFile, Exists
  <2>3. \A l \in DOMAIN tree : tree[l] # Dir /\ loc # l => new[l] = tree[l]
    BY <2>1, <2>2
  <2>4. loc \in DOMAIN new /\ new[loc] = lines
    BY <2>1
  <2>5. \A l \in DOMAIN new : new[l] \in {Dir} \cup Seq(Line)
    BY <2>1 DEF HasTrace, Files
  <2>6. TracePath \in DOMAIN new /\ new[TracePath] \in {tree[TracePath], lines}
    BY <1>1, <2>1, <2>3, <2>4 DEF HasTrace
  <2> QED BY <1>2, <2>3, <2>4, <2>5, <2>6 DEF HasTrace, Files
<1>4. CASE ~(Within(p) /\ ~WriteRaises(p))
  BY <1>2, <1>4 DEF Written
<1> QED BY <1>3, <1>4

-----------------------------------------------------------------------------
(* The invariant *)

Assistant(k) == messages[k].role = "assistant"

\* The conversation continued by the calls that wait for their answers is paired.
Paired ==
  /\ \A k \in DOMAIN messages : Assistant(k) =>
       /\ k + Len(messages[k].tool_calls) <= Len(messages) + Len(calls)
       /\ \A i \in DOMAIN messages[k].tool_calls :
            IF k + i <= Len(messages)
            THEN /\ messages[k + i].role = "tool"
                 /\ messages[k + i].id = messages[k].tool_calls[i].id
            ELSE calls[k + i - Len(messages)] = messages[k].tool_calls[i]
  /\ \A k \in DOMAIN messages : ~Assistant(k) =>
       \E j \in 1 .. k - 1 : Assistant(j) /\ k - j \in DOMAIN messages[j].tool_calls
  /\ calls # <<>> =>
       \E j \in DOMAIN messages :
         Assistant(j) /\ j + Len(messages[j].tool_calls) = Len(messages) + Len(calls)

\* What was dispatched is remembered, each once.
Remembered == DispatchedOnce /\ \A i \in DOMAIN ran : ran[i].sig \in seen

\* Each step of the loop has had its reply, but for one the provider failed.
Counted ==
  /\ Replies <= step /\ (pc \notin {"exception"} => Replies = step)
  /\ step <= IF max_steps < 0 THEN 0 ELSE max_steps
  /\ pc = "dispatch" => step >= 1

\* The last line of the trace tells that the steps were used up, and of nothing else.
ErrorIsLast ==
  /\ pc \in {"ask", "dispatch"} => Last(tree[TracePath]) # <<"error">>
  /\ pc # "start" /\ Last(tree[TracePath]) = <<"error">> =>
       Replies = step /\ step >= max_steps /\ pc = "exception"

\* The trace goes with the conversation, and is closed when the run is over.
TraceTells ==
  LET trace == tree[TracePath]
      ended == Last(trace)[1] \in {"done", "error"}
  IN pc # "start" =>
       /\ trace # <<>>
       /\ Intact =>
            /\ Len(trace) = 1 + Len(messages) + (IF ended THEN 1 ELSE 0)
            /\ \A k \in DOMAIN messages : Traced(trace[k + 1]) = Told(messages[k])
            /\ pc \in {"ask", "dispatch"} => ~ended
            /\ pc = "text" => Last(trace)[1] = "done"

\* Before the run there is the workspace, and nothing in it.
AtStart ==
  pc = "start" =>
    /\ step = 0 /\ messages = <<>> /\ calls = <<>> /\ ran = <<>>
    /\ DOMAIN tree = Ancestors(Home) \cup {Home} /\ \A loc \in DOMAIN tree : tree[loc] = Dir

Inv ==
  /\ TypeOK /\ Files(tree) /\ AtStart
  /\ Paired /\ Remembered /\ Counted /\ ErrorIsLast /\ TraceTells

LEMMA RepliesCount ==
  ASSUME messages \in Seq(Message)
  PROVE  /\ Replies \in Nat
         /\ messages = <<>> => Replies = 0
         /\ UNCHANGED messages => Replies' = Replies
         /\ \A m \in Message : messages' = Append(messages, m) =>
              Replies' = IF m.role = "assistant" THEN Replies + 1 ELSE Replies
<1> DEFINE A == {k \in DOMAIN messages : messages[k].role = "assistant"}
<1>1. IsFiniteSet(A) /\ Replies = Cardinality(A)
  <2>1. Len(messages) \in Nat /\ DOMAIN messages = 1 .. Len(messages)
    OBVIOUS
  <2>2. A \subseteq 1 .. Len(messages)
    BY <2>1
  <2>3. IsFiniteSet(1 .. Len(messages))
    <3>1. 1 \in Int /\ Len(messages) \in Int
      BY <2>1
    <3> QED BY <3>1, FS_Interval, Zenon
  <2> QED BY <2>2, <2>3, FS_Subset DEF Replies
<1>2. Replies \in Nat
  BY <1>1, FS_CardinalityType
<1>3. messages = <<>> => Replies = 0
  <2>1. messages = <<>> => A = {}
    OBVIOUS
  <2> QED BY <1>1, <2>1, FS_EmptySet
<1>4. UNCHANGED messages => Replies' = Replies
  BY DEF Replies
<1>5. ASSUME NEW m \in Message, messages' = Append(messages, m)
      PROVE  Replies' = IF m.role = "assistant" THEN Replies + 1 ELSE Replies
  <2>1. /\ DOMAIN messages' = DOMAIN messages \cup {Len(messages) + 1}
        /\ Len(messages) + 1 \notin DOMAIN messages
        /\ messages'[Len(messages) + 1] = m
        /\ \A k \in DOMAIN messages : messages'[k] = messages[k]
    BY <1>5
  <2>2. {k \in DOMAIN messages' : messages'[k].role = "assistant"}
          = IF m.role = "assistant" THEN A \cup {Len(messages) + 1} ELSE A
    BY <2>1
  <2>3. Len(messages) + 1 \notin A => Cardinality(A \cup {Len(messages) + 1}) = Cardinality(A) + 1
    BY <1>1, FS_AddElement
  <2> QED BY <1>1, <2>1, <2>2, <2>3 DEF Replies
<1> QED BY <1>2, <1>3, <1>4, <1>5

LEMMA InitInv == Init => Inv
<1> SUFFICES ASSUME Init PROVE Inv
  OBVIOUS
<1>1. DOMAIN tree = Ancestors(Home) \cup {Home} /\ \A loc \in DOMAIN tree : tree[loc] = Dir
  BY DEF Init
<1>2. Files(tree)
  <2>1. Home \in Location /\ \A a \in Ancestors(Home) : a \in Location /\ Ancestors(a) \subseteq Ancestors(Home)
    BY Paths, AncestorsMean, AncestorsOfAncestors
  <2> QED BY <1>1, <2>1 DEF Files, Tidy, Rooted, Init
<1>3. TypeOK
  BY <1>1, <1>2 DEF Init, TypeOK, Files, Tidy, Rooted, IsDir, Exists
<1>4. AtStart /\ Paired /\ Remembered
  BY <1>1 DEF Init, AtStart, Paired, Remembered, DispatchedOnce
<1>5. Counted
  <2>1. Replies = 0 /\ max_steps \in Int /\ step = 0 /\ pc = "start"
    BY <1>3, RepliesCount, AgentAssumption DEF Init, TypeOK
  <2> QED BY <2>1 DEF Counted
<1>6. ErrorIsLast /\ TraceTells
  BY DEF Init, ErrorIsLast, TraceTells
<1> QED BY <1>2, <1>3, <1>4, <1>5, <1>6 DEF Inv

-----------------------------------------------------------------------------
(* What the steps do *)

LEMMA Traces == Inv /\ pc # "start" => HasTrace(tree)
BY DEF Inv, HasTrace, TypeOK, IsFile, Exists, Files

LEMMA NormalisedCalls ==
  ASSUME NEW c \in Calls
  PROVE  LET n == Normalised(c)
         IN /\ n \in Signature /\ n.name = c.name
            /\ n.args = IF c.args.kind = "garbage" THEN [kind |-> "empty"] ELSE c.args
<1>1. c = [name |-> c.name, args |-> c.args]
  BY AgentAssumption
<1> QED BY <1>1 DEF Normalised, Signature

\* A signature that writes is a call as the model made it.
LEMMA WriteSignatures ==
  ASSUME NEW sig \in Signature, sig.args.kind = "write"
  PROVE  sig.args.path \in Path /\ sig.args.content \in Content
<1>1. PICK c \in Calls : sig = Normalised(c)
  BY DEF Signature
<1>2. c.args.kind # "garbage" /\ sig.args = c.args
  BY <1>1, NormalisedCalls
<1>3. c.args.path \in Path
  BY <1>2, AgentAssumption
<1> QED BY <1>2, <1>3 DEF Content

Verdicts == {"intercepted", "unknown", "failed", "ok"}
Texts    == {"stop", "unknown", "error", "result"}

\* The tree before the trace line of a call: untouched, or as filesystem_write left it.
Touched(t) ==
  /\ HasTrace(t) /\ Alike(tree, t)
  /\ t[TracePath] = tree[TracePath] \/ \E c \in Content : t[TracePath] = << <<"text", c>> >>

Answered ==
  /\ calls' = Tail(calls)
  /\ pc' = IF calls' = <<>> THEN "ask" ELSE "dispatch"
  /\ \E text \in Texts : messages' = Append(messages, [role |-> "tool", id |-> Call.id, content |-> text])
  /\ UNCHANGED <<step, tools, max_steps>>

Marked ==
  \/ UNCHANGED <<seen, ran>>
  \/ /\ Call.sig \notin seen
     /\ seen' = seen \cup {Call.sig}
     /\ \E ok \in BOOLEAN : ran' = Append(ran, [sig |-> Call.sig, ok |-> ok])

LoggedCall ==
  \E t, v : Touched(t) /\ v \in Verdicts /\ tree' = Logged(t, <<"tool_call", Call, v>>)

LEMMA DispatchMeans ==
  ASSUME Inv, Dispatch
  PROVE  /\ pc = "dispatch" /\ calls # <<>> /\ Call \in ToolCall
         /\ Answered /\ Marked /\ LoggedCall
<1>1. pc = "dispatch"
  BY DEF Dispatch, Intercept, UnknownTool, BadArguments, RunWrite, RunRead, RunWeb, Runs, Fresh
<1>2. calls \in Seq(ToolCall) /\ calls # <<>>
  BY <1>1 DEF Inv, TypeOK
<1>3. Call \in ToolCall /\ Call.sig \in Signature
  <2>1. Call \in ToolCall
    BY <1>2 DEF Call
  <2> QED BY <2>1 DEF ToolCall, Signature
<1>4. HasTrace(tree) /\ Touched(tree)
  BY <1>1, Traces DEF Touched, Alike
<1>5. CASE Intercept
  BY <1>1, <1>2, <1>3, <1>4, <1>5 DEF Intercept, Answer, Answered, Marked, LoggedCall, Texts, Verdicts
<1>6. CASE UnknownTool
  BY <1>1, <1>2, <1>3, <1>4, <1>6
    DEF UnknownTool, After, Fresh, Answer, Answered, Marked, LoggedCall, Texts, Verdicts
<1>7. CASE BadArguments
  BY <1>1, <1>2, <1>3, <1>4, <1>7
    DEF BadArguments, Runs, After, Fresh, Answer, Answered, Marked, LoggedCall, Texts, Verdicts
<1>8. CASE RunWrite
  <2> DEFINE p == Call.sig.args.path
             lines == << <<"text", Call.sig.args.content>> >>
             ok == ~WriteRaises(p)
  <2>1. /\ Call.sig \notin seen /\ Call.sig.args.kind = "write"
        /\ tree' = Logged(Written(p, lines), <<"tool_call", Call, IF ok THEN "ok" ELSE "failed">>)
        /\ After(ok, IF ok THEN "result" ELSE "error")
    BY <1>8 DEF RunWrite, Runs, Fresh
  <2>2. p \in Path /\ Call.sig.args.content \in Content
    BY <1>3, <2>1, WriteSignatures
  <2>3. lines \in Seq(Line)
    BY <2>2 DEF Line
  <2>4. Touched(Written(p, lines))
    BY <1>4, <2>2, <2>3, WrittenMeans DEF Touched
  <2>5. LoggedCall
    BY <2>1, <2>4 DEF LoggedCall, Verdicts
  <2>6. Answered
    BY <2>1 DEF After, Answer, Answered, Texts
  <2>7. Marked
    <3>1. ok \in BOOLEAN
      BY DEF WriteRaises, Within, IsPrefix
    <3> HIDE DEF ok
    <3> QED BY <2>1, <3>1 DEF After, Marked
  <2> QED BY <1>1, <1>2, <1>3, <2>5, <2>6, <2>7
<1>9. CASE RunRead
  BY <1>1, <1>2, <1>3, <1>4, <1>9
    DEF RunRead, Runs, After, Fresh, Answer, Answered, Marked, LoggedCall, Texts, Verdicts
<1>10. CASE RunWeb
  <2>1. PICK ok \in BOOLEAN :
          /\ Call.sig \notin seen
          /\ tree' = Logged(tree, <<"tool_call", Call, IF ok THEN "ok" ELSE "failed">>)
          /\ After(ok, IF ok THEN "result" ELSE "error")
    BY <1>10 DEF RunWeb, Runs, Fresh
  <2> QED BY <1>1, <1>2, <1>3, <1>4, <2>1
    DEF After, Answer, Answered, Marked, LoggedCall, Texts, Verdicts
<1> QED BY <1>5, <1>6, <1>7, <1>8, <1>9, <1>10 DEF Dispatch


-----------------------------------------------------------------------------
(* The steps preserve the invariant *)

LEMMA Extended ==
  ASSUME NEW S, NEW q \in Seq(S), NEW x \in S
  PROVE  LET r == Append(q, x)
         IN /\ r \in Seq(S) /\ r # <<>> /\ Len(r) = Len(q) + 1 /\ Last(r) = x
            /\ q # <<>> => Head(r) = Head(q)
            /\ \A i \in 1 .. Len(q) : r[i] = q[i]
            /\ r[Len(q) + 1] = x
<1>1. Append(q, x) \in Seq(S) /\ Len(Append(q, x)) = Len(q) + 1 /\ Len(q) \in Nat
  OBVIOUS
<1>2. Append(q, x)[Len(q) + 1] = x /\ \A i \in 1 .. Len(q) : Append(q, x)[i] = q[i]
  OBVIOUS
<1>3. Append(q, x) # <<>> /\ Last(Append(q, x)) = x
  BY <1>1, <1>2 DEF Last
<1>4. q # <<>> => Head(Append(q, x)) = Head(q)
  OBVIOUS
<1> QED BY <1>1, <1>2, <1>3, <1>4

LEMMA StartKeepsInv == Inv /\ Start => Inv'
<1> SUFFICES ASSUME Inv, Start PROVE Inv'
  OBVIOUS
<1> DEFINE first == << <<"start">> >>
<1>1. /\ pc = "start" /\ pc' \in {"exception", "ask"}
      /\ tree' = Put(TracePath, first)
      /\ UNCHANGED <<step, messages, calls, seen, ran, tools, max_steps>>
  BY DEF Start
<1>2. /\ TypeOK /\ Files(tree) /\ Paired /\ Remembered /\ Counted
      /\ step = 0 /\ messages = <<>> /\ calls = <<>>
      /\ DOMAIN tree = Ancestors(Home) \cup {Home} /\ \A loc \in DOMAIN tree : tree[loc] = Dir
  BY <1>1 DEF Inv, AtStart
<1>3. first \in Seq(Line) /\ first # Dir
  <2>1. first \in Seq(Line)
    BY DEF Line
  <2> QED BY <2>1, LinesAreNoDirectory
<1>4. Writable(TracePath)
  BY <1>2, Paths DEF Writable, IsFile, IsDir, Exists
<1>5. Tidy(tree') /\ Rooted(tree')
  BY <1>1, <1>2, <1>3, <1>4, Paths, PutKeeps DEF Files
<1>6. /\ TracePath \in DOMAIN tree' /\ tree'[TracePath] = first
      /\ \A loc \in DOMAIN tree' : tree'[loc] \in {Dir, first}
  BY <1>1, <1>2 DEF Put
<1>7. HasTrace(tree')
  BY <1>3, <1>5, <1>6 DEF HasTrace, Files
<1>8. TypeOK'
  BY <1>1, <1>2, <1>3, <1>6, <1>7 DEF TypeOK, HasTrace, Files, Tidy, Rooted, IsDir, IsFile, Exists
<1>9. AtStart' /\ Paired' /\ Remembered'
  BY <1>1, <1>2 DEF AtStart, Paired, Assistant, Remembered, DispatchedOnce
<1>10. Counted'
  <2>1. Replies' = Replies
    BY <1>1, <1>2, RepliesCount DEF TypeOK
  <2> QED BY <1>1, <1>2, <2>1 DEF Counted
<1>11. Last(tree'[TracePath]) = <<"start">> /\ Len(tree'[TracePath]) = 1
  BY <1>6 DEF Last
<1>12. ErrorIsLast' /\ TraceTells'
  <2>1. Last(tree'[TracePath])[1] = "start" /\ Last(tree'[TracePath]) # <<"error">>
    BY <1>11
  <2>2. tree'[TracePath] # <<>> /\ Len(messages') = 0 /\ DOMAIN messages' = {}
    BY <1>1, <1>2, <1>6
  <2>3. Len(tree'[TracePath]) = 1 + Len(messages') + 0
    BY <1>11, <2>2
  <2>4. ErrorIsLast'
    BY <1>1, <2>1 DEF ErrorIsLast
  <2>5. TraceTells'
    BY <1>1, <2>1, <2>2, <2>3, Zenon DEF TraceTells
  <2> QED BY <2>4, <2>5
<1> QED BY <1>7, <1>8, <1>9, <1>10, <1>12 DEF Inv, HasTrace

LEMMA AskFailsKeepsInv == Inv /\ AskFails => Inv'
<1> SUFFICES ASSUME Inv, AskFails PROVE Inv'
  OBVIOUS
<1>1. /\ pc = "ask" /\ pc' = "exception" /\ step < max_steps /\ step' = step + 1
      /\ UNCHANGED <<tree, messages, calls, seen, ran, tools, max_steps>>
  BY DEF AskFails
<1>2. TypeOK /\ Files(tree) /\ Paired /\ Remembered /\ Counted /\ ErrorIsLast /\ TraceTells
  BY DEF Inv
<1>3. step \in Nat /\ max_steps \in Int
  BY <1>2, AgentAssumption DEF TypeOK
<1>4. TypeOK' /\ Files(tree')
  BY <1>1, <1>2, <1>3 DEF TypeOK, IsDir, IsFile, Exists
<1>5. AtStart' /\ Paired' /\ Remembered'
  BY <1>1, <1>2 DEF AtStart, Paired, Assistant, Remembered, DispatchedOnce
<1>6. Counted'
  <2>1. Replies' = Replies /\ Replies \in Nat
    BY <1>1, <1>2, RepliesCount DEF TypeOK
  <2> QED BY <1>1, <1>2, <1>3, <2>1 DEF Counted
<1>7. ErrorIsLast' /\ TraceTells'
  BY <1>1, <1>2 DEF ErrorIsLast, TraceTells, Intact
<1> QED BY <1>4, <1>5, <1>6, <1>7 DEF Inv

\* The trace, unless overwritten, tells the messages msgs and has extra lines more.
Tells(trace, msgs, extra) ==
  Head(trace) = <<"start">> =>
    /\ Len(trace) = 1 + Len(msgs) + extra
    /\ \A k \in DOMAIN msgs : Traced(trace[k + 1]) = Told(msgs[k])

LEMMA TellsNext ==
  ASSUME NEW trace \in Seq(Line), trace # <<>>, NEW msgs \in Seq(Message), Tells(trace, msgs, 0),
         NEW line \in Line, NEW m \in Message, Traced(line) = Told(m)
  PROVE  Tells(Append(trace, line), Append(msgs, m), 0)
<1> DEFINE r == Append(trace, line)
           ms == Append(msgs, m)
<1> SUFFICES ASSUME Head(r) = <<"start">> PROVE Tells(r, ms, 0)
  BY DEF Tells
<1>1. /\ Len(r) = Len(trace) + 1 /\ r[Len(trace) + 1] = line
      /\ \A i \in 1 .. Len(trace) : r[i] = trace[i]
      /\ Head(r) = Head(trace)
  BY Extended
<1>2. /\ Len(ms) = Len(msgs) + 1 /\ ms[Len(msgs) + 1] = m
      /\ \A i \in 1 .. Len(msgs) : ms[i] = msgs[i]
      /\ DOMAIN ms = 1 .. Len(msgs) + 1 /\ DOMAIN msgs = 1 .. Len(msgs) /\ Len(msgs) \in Nat
  BY Extended
<1>3. /\ Len(trace) = 1 + Len(msgs)
      /\ \A k \in 1 .. Len(msgs) : Traced(trace[k + 1]) = Told(msgs[k])
  BY <1>1, <1>2 DEF Tells
<1> HIDE DEF r, ms
<1>4. Len(r) = 1 + Len(ms) + 0
  BY <1>1, <1>2, <1>3
<1>5. ASSUME NEW k \in DOMAIN ms PROVE Traced(r[k + 1]) = Told(ms[k])
  <2>1. CASE k = Len(msgs) + 1
    <3>1. k + 1 = Len(trace) + 1
      BY <1>2, <1>3, <2>1
    <3>2. r[k + 1] = line /\ ms[k] = m
      BY <1>1, <1>2, <2>1, <3>1
    <3> QED BY <3>2
  <2>2. CASE k # Len(msgs) + 1
    <3>1. k \in 1 .. Len(msgs) /\ k + 1 \in 1 .. Len(trace)
      BY <1>2, <1>3, <1>5, <2>2
    <3>2. r[k + 1] = trace[k + 1] /\ ms[k] = msgs[k]
      BY <1>1, <1>2, <3>1
    <3> QED BY <1>3, <3>1, <3>2
  <2> QED BY <2>1, <2>2
<1> QED BY <1>4, <1>5, Zenon DEF Tells

LEMMA TellsTheEnd ==
  ASSUME NEW trace \in Seq(Line), trace # <<>>, NEW msgs \in Seq(Message), Tells(trace, msgs, 0),
         NEW line \in Line
  PROVE  Tells(Append(trace, line), msgs, 1)
<1> DEFINE r == Append(trace, line)
<1> SUFFICES ASSUME Head(r) = <<"start">> PROVE Tells(r, msgs, 1)
  BY DEF Tells
<1>1. /\ Len(r) = Len(trace) + 1 /\ \A i \in 1 .. Len(trace) : r[i] = trace[i]
      /\ Head(r) = Head(trace)
  BY Extended
<1>2. DOMAIN msgs = 1 .. Len(msgs) /\ Len(msgs) \in Nat
  OBVIOUS
<1>3. /\ Len(trace) = 1 + Len(msgs)
      /\ \A k \in 1 .. Len(msgs) : Traced(trace[k + 1]) = Told(msgs[k])
  BY <1>1, <1>2 DEF Tells
<1> HIDE DEF r
<1>4. Len(r) = 1 + Len(msgs) + 1
  BY <1>1, <1>2, <1>3
<1>5. ASSUME NEW k \in DOMAIN msgs PROVE Traced(r[k + 1]) = Told(msgs[k])
  <2>1. k \in 1 .. Len(msgs) /\ k + 1 \in 1 .. Len(trace)
    BY <1>2, <1>3
  <2>2. r[k + 1] = trace[k + 1]
    BY <1>1, <2>1
  <2> QED BY <1>3, <2>1, <2>2
<1> QED BY <1>4, <1>5, Zenon DEF Tells

\* TraceTells, in these terms.
LEMMA TraceTellsMeans ==
  /\ Inv /\ pc \in {"ask", "dispatch"} =>
       /\ HasTrace(tree) /\ tree[TracePath] \in Seq(Line) /\ tree[TracePath] # <<>>
       /\ Tells(tree[TracePath], messages, 0)
  /\ \A extra :
       /\ pc' # "start" /\ tree'[TracePath] # <<>> /\ Tells(tree'[TracePath], messages', extra)
       /\ extra = IF Last(tree'[TracePath])[1] \in {"done", "error"} THEN 1 ELSE 0
       /\ pc' \in {"ask", "dispatch"} => extra = 0
       /\ pc' = "text" => Last(tree'[TracePath])[1] = "done"
       => TraceTells'
<1>1. ASSUME Inv, pc \in {"ask", "dispatch"}
      PROVE  /\ HasTrace(tree) /\ tree[TracePath] \in Seq(Line) /\ tree[TracePath] # <<>>
             /\ Tells(tree[TracePath], messages, 0)
  <2>1. HasTrace(tree) /\ TraceTells
    BY <1>1, Traces DEF Inv
  <2> QED BY <1>1, <2>1 DEF TraceTells, Tells, Intact, HasTrace
<1>2. ASSUME NEW extra,
             pc' # "start", tree'[TracePath] # <<>>, Tells(tree'[TracePath], messages', extra),
             extra = IF Last(tree'[TracePath])[1] \in {"done", "error"} THEN 1 ELSE 0,
             pc' \in {"ask", "dispatch"} => extra = 0,
             pc' = "text" => Last(tree'[TracePath])[1] = "done"
      PROVE  TraceTells'
  BY <1>2 DEF TraceTells, Tells, Intact
<1> QED BY <1>1, <1>2

\* A reply of the provider: with calls the loop goes on to them, without it ends.
Reply(cs) == [role |-> "assistant", tool_calls |-> cs]

Replied(cs) ==
  /\ cs \in Seq(ToolCall)
  /\ pc = "ask" /\ step < max_steps /\ step' = step + 1
  /\ messages' = Append(messages, Reply(cs))
  /\ calls' = cs
  /\ UNCHANGED <<seen, ran, tools, max_steps>>

LEMMA ReplyKeeps ==
  ASSUME Inv, NEW cs, Replied(cs), pc' # "start"
  PROVE  /\ Paired' /\ Remembered' /\ Counted' /\ AtStart'
         /\ messages' \in Seq(Message) /\ step \in Nat /\ step' \in Nat
         /\ Replies = step /\ Replies' = step'
<1>1. /\ cs \in Seq(ToolCall) /\ pc = "ask" /\ step < max_steps /\ step' = step + 1
      /\ messages' = Append(messages, Reply(cs))
      /\ calls' = cs
      /\ UNCHANGED <<seen, ran, tools, max_steps>>
  BY DEF Replied
<1>2. TypeOK /\ Paired /\ Remembered /\ Counted
  BY DEF Inv
<1>3. messages \in Seq(Message) /\ calls = <<>> /\ step \in Nat /\ max_steps \in Int
  BY <1>1, <1>2, AgentAssumption DEF TypeOK
<1>4. Reply(cs) \in Message /\ Reply(cs).role = "assistant" /\ Reply(cs).tool_calls = cs
  BY <1>1 DEF Reply, Message
<1>5. /\ messages' \in Seq(Message)
      /\ Len(messages') = Len(messages) + 1 /\ messages'[Len(messages) + 1] = Reply(cs)
      /\ \A k \in 1 .. Len(messages) : messages'[k] = messages[k]
      /\ DOMAIN messages = 1 .. Len(messages) /\ DOMAIN messages' = 1 .. Len(messages) + 1
      /\ Len(messages) \in Nat
  BY <1>1, <1>3, <1>4, Extended
<1>6. Paired'
  <2>1. \A k \in 1 .. Len(messages) : messages[k].role = "assistant" =>
          /\ k + Len(messages[k].tool_calls) <= Len(messages)
          /\ \A i \in DOMAIN messages[k].tool_calls :
               /\ k + i <= Len(messages)
               /\ messages[k + i].role = "tool"
               /\ messages[k + i].id = messages[k].tool_calls[i].id
    <3> SUFFICES ASSUME NEW k \in 1 .. Len(messages), messages[k].role = "assistant"
                 PROVE  /\ k + Len(messages[k].tool_calls) <= Len(messages)
                        /\ \A i \in DOMAIN messages[k].tool_calls :
                             /\ k + i <= Len(messages)
                             /\ messages[k + i].role = "tool"
                             /\ messages[k + i].id = messages[k].tool_calls[i].id
      OBVIOUS
    <3>1. messages[k].tool_calls \in Seq(ToolCall)
      BY <1>3, <1>5 DEF Message
    <3>2. Len(calls) = 0 /\ k + Len(messages[k].tool_calls) <= Len(messages) + Len(calls)
      BY <1>2, <1>3, <1>5 DEF Paired, Assistant
    <3>3. k + Len(messages[k].tool_calls) <= Len(messages)
      BY <3>1, <3>2, <1>5
    <3>4. \A i \in DOMAIN messages[k].tool_calls : k + i <= Len(messages)
      BY <3>1, <3>3, <1>5
    <3> QED BY <1>2, <1>5, <3>3, <3>4 DEF Paired, Assistant
  <2>2. ASSUME NEW k \in DOMAIN messages', Assistant(k)'
        PROVE  /\ k + Len(messages'[k].tool_calls) <= Len(messages') + Len(calls')
               /\ \A i \in DOMAIN messages'[k].tool_calls :
                    IF k + i <= Len(messages')
                    THEN /\ messages'[k + i].role = "tool"
                         /\ messages'[k + i].id = messages'[k].tool_calls[i].id
                    ELSE calls'[k + i - Len(messages')] = messages'[k].tool_calls[i]
    <3>1. CASE k = Len(messages) + 1
      <4>1. messages'[k].tool_calls = cs /\ Len(messages') = k /\ k \in Nat
        BY <1>4, <1>5, <3>1
      <4>2. \A i \in DOMAIN cs : ~(k + i <= k) /\ k + i - k = i
        BY <1>1, <4>1
      <4> QED BY <1>1, <4>1, <4>2
    <3>2. CASE k # Len(messages) + 1
      <4>1. k \in 1 .. Len(messages) /\ messages'[k] = messages[k]
        BY <1>5, <2>2, <3>2
      <4>2. messages[k].role = "assistant"
        BY <2>2, <4>1 DEF Assistant
      <4>3. messages[k].tool_calls \in Seq(ToolCall)
        BY <1>3, <1>5, <4>1, <4>2 DEF Message
      <4>4. k + Len(messages'[k].tool_calls) <= Len(messages') + Len(calls')
        <5>1. Len(messages[k].tool_calls) \in Nat /\ Len(cs) \in Nat
          BY <1>1, <4>3
        <5>2. k + Len(messages[k].tool_calls) <= Len(messages)
          BY <2>1, <4>1, <4>2
        <5> QED BY <1>1, <1>5, <4>1, <5>1, <5>2
      <4>5. ASSUME NEW i \in DOMAIN messages[k].tool_calls
            PROVE  /\ k + i <= Len(messages') /\ messages'[k + i] = messages[k + i]
                   /\ messages[k + i].role = "tool"
                   /\ messages[k + i].id = messages[k].tool_calls[i].id
        <5>1. i \in Nat \ {0}
          BY <4>3
        <5>2. k + i <= Len(messages) /\ messages[k + i].role = "tool"
              /\ messages[k + i].id = messages[k].tool_calls[i].id
          BY <2>1, <4>1, <4>2
        <5>3. k + i \in 1 .. Len(messages)
          BY <1>5, <4>1, <5>1, <5>2
        <5> QED BY <1>5, <5>2, <5>3
      <4> QED BY <4>1, <4>4, <4>5
    <3> QED BY <3>1, <3>2
  <2>3. ASSUME NEW k \in DOMAIN messages', ~Assistant(k)'
        PROVE  \E j \in 1 .. k - 1 :
                 Assistant(j)' /\ k - j \in DOMAIN messages'[j].tool_calls
    <3>1. k \in 1 .. Len(messages) /\ messages'[k] = messages[k]
      BY <1>4, <1>5, <2>3 DEF Assistant
    <3>2. PICK j \in 1 .. k - 1 :
            Assistant(j) /\ k - j \in DOMAIN messages[j].tool_calls
      BY <1>2, <1>5, <2>3, <3>1 DEF Paired, Assistant
    <3>3. messages'[j] = messages[j]
      BY <1>5, <3>1
    <3> QED BY <3>2, <3>3 DEF Assistant
  <2>4. \E j \in DOMAIN messages' :
          Assistant(j)' /\ j + Len(messages'[j].tool_calls) = Len(messages') + Len(calls')
    <3>1. PICK j \in DOMAIN messages' : j = Len(messages')
      BY <1>5
    <3>2. messages'[j] = Reply(cs) /\ messages'[j].tool_calls = calls'
      BY <1>1, <1>4, <1>5, <3>1
    <3>3. Assistant(j)'
      BY <1>4, <3>2 DEF Assistant
    <3> QED BY <3>1, <3>2, <3>3
  <2> QED BY <2>2, <2>3, <2>4, Zenon DEF Paired
<1>7. Replies = step /\ Replies' = step'
  <2>1. Replies' = Replies + 1
    BY <1>1, <1>3, <1>4, RepliesCount
  <2> QED BY <1>1, <1>2, <2>1 DEF Counted
<1>8. Counted'
  BY <1>1, <1>3, <1>7 DEF Counted
<1>9. Remembered' /\ AtStart'
  BY <1>1, <1>2 DEF Remembered, DispatchedOnce, AtStart
<1> QED BY <1>1, <1>3, <1>5, <1>6, <1>7, <1>8, <1>9

LEMMA LoggedLast ==
  ASSUME NEW t, HasTrace(t), NEW line \in Line
  PROVE  LET u == Logged(t, line)
         IN /\ HasTrace(u) /\ u[TracePath] = Append(t[TracePath], line)
            /\ u[TracePath] \in Seq(Line) /\ u[TracePath] # <<>> /\ Last(u[TracePath]) = line
<1>1. t[TracePath] \in Seq(Line)
  BY DEF HasTrace
<1>2. HasTrace(Logged(t, line)) /\ Logged(t, line)[TracePath] = Append(t[TracePath], line)
  BY LoggedMeans
<1>3. /\ Append(t[TracePath], line) \in Seq(Line) /\ Append(t[TracePath], line) # <<>>
      /\ Last(Append(t[TracePath], line)) = line
  BY <1>1, Extended
<1> QED BY <1>2, <1>3

LEMMA ReplyLogged ==
  ASSUME Inv, NEW cs, Replied(cs), NEW t, t = Logged(tree, <<"llm_call", step', cs>>)
  PROVE  /\ HasTrace(t) /\ t[TracePath] \in Seq(Line) /\ t[TracePath] # <<>>
         /\ Tells(t[TracePath], messages', 0) /\ Last(t[TracePath])[1] = "llm_call"
<1> DEFINE line == <<"llm_call", step', cs>>
<1>1. /\ cs \in Seq(ToolCall) /\ pc = "ask" /\ step \in Nat /\ step' = step + 1
      /\ messages \in Seq(Message) /\ messages' = Append(messages, Reply(cs))
  BY DEF Replied, Inv, TypeOK
<1>2. line \in Line
  BY <1>1 DEF Line
<1>3. HasTrace(tree) /\ tree[TracePath] # <<>> /\ Tells(tree[TracePath], messages, 0)
      /\ tree[TracePath] \in Seq(Line)
  BY <1>1, TraceTellsMeans
<1>4. Reply(cs) \in Message /\ Traced(line) = Told(Reply(cs))
  BY <1>1 DEF Reply, Message, Traced, Told
<1>5. line[1] = "llm_call"
  OBVIOUS
<1> HIDE DEF line
<1>6. /\ HasTrace(t) /\ t[TracePath] = Append(tree[TracePath], line)
      /\ t[TracePath] \in Seq(Line) /\ t[TracePath] # <<>> /\ Last(t[TracePath]) = line
  BY <1>2, <1>3, LoggedLast DEF line
<1>7. Tells(t[TracePath], messages', 0)
  BY <1>1, <1>2, <1>3, <1>4, <1>6, TellsNext
<1> QED BY <1>5, <1>6, <1>7

LEMMA AskTextKeepsInv == Inv /\ AskText => Inv'
<1> SUFFICES ASSUME Inv, AskText PROVE Inv'
  OBVIOUS
<1> DEFINE t == Logged(tree, <<"llm_call", step', <<>>>>)
           line == <<"done", step'>>
<1>1. pc' = "text" /\ tree' = Logged(t, line)
  BY DEF AskText
<1>2. /\ pc = "ask" /\ step < max_steps /\ step' = step + 1
      /\ messages' = Append(messages, Reply(<<>>))
      /\ calls = <<>> /\ UNCHANGED <<calls, seen, ran, tools, max_steps>>
  BY DEF AskText, Reply, Inv, TypeOK
<1>3. Replied(<<>>)
  BY <1>2 DEF Replied
<1>4. /\ Paired' /\ Remembered' /\ Counted' /\ AtStart'
      /\ messages' \in Seq(Message) /\ step' \in Nat
  BY <1>1, <1>3, ReplyKeeps
<1>5. line \in Line /\ line[1] = "done"
  BY <1>4 DEF Line
<1>6. /\ HasTrace(t) /\ t[TracePath] \in Seq(Line) /\ t[TracePath] # <<>>
      /\ Tells(t[TracePath], messages', 0)
  BY <1>3, ReplyLogged
<1> HIDE DEF t, line
<1>7. /\ HasTrace(tree') /\ tree'[TracePath] = Append(t[TracePath], line)
      /\ tree'[TracePath] # <<>> /\ Last(tree'[TracePath]) = line
  BY <1>1, <1>5, <1>6, LoggedLast
<1>8. Tells(tree'[TracePath], messages', 1)
  BY <1>4, <1>5, <1>6, <1>7, TellsTheEnd
<1>9. TraceTells'
  BY <1>1, <1>5, <1>7, <1>8, TraceTellsMeans
<1>10. ErrorIsLast'
  BY <1>1, <1>5, <1>7 DEF ErrorIsLast
<1>11. TypeOK'
  <2>1. TypeOK
    BY DEF Inv
  <2>2. \A loc \in DOMAIN tree' : tree'[loc] \in {Dir} \cup Seq(Line)
    BY <1>7 DEF HasTrace, Files
  <2>3. (IsDir(Home) /\ IsFile(TracePath))' /\ DOMAIN tree' \subseteq Location
    BY <1>7, LinesAreNoDirectory DEF HasTrace, Files, Rooted, Tidy, IsDir, IsFile, Exists
  <2> QED BY <1>1, <1>2, <1>4, <2>1, <2>2, <2>3 DEF TypeOK
<1> QED BY <1>4, <1>7, <1>9, <1>10, <1>11 DEF Inv, HasTrace

LEMMA AskCallsKeepsInv == Inv /\ AskCalls => Inv'
<1> SUFFICES ASSUME Inv, AskCalls PROVE Inv'
  OBVIOUS
<1>1. PICK n \in 1 .. MaxCalls : \E cs \in [1 .. n -> Calls] : calls' = Numbered(step', cs)
  BY DEF AskCalls
<1>2. /\ pc = "ask" /\ step < max_steps /\ step' = step + 1 /\ pc' = "dispatch"
      /\ messages' = Append(messages, Reply(calls'))
      /\ tree' = Logged(tree, <<"llm_call", step', calls'>>)
      /\ UNCHANGED <<seen, ran, tools, max_steps>>
  BY DEF AskCalls, Reply
<1>3. calls' \in Seq(ToolCall) /\ calls' # <<>>
  <2>1. n \in Nat /\ n >= 1 /\ step' \in Nat
    BY <1>2, AgentAssumption DEF Inv, TypeOK
  <2> PICK cs \in [1 .. n -> Calls] : calls' = Numbered(step', cs)
    BY <1>1
  <2>2. calls' = [i \in 1 .. n |-> [id |-> <<step', i>>, sig |-> Normalised(cs[i])]]
    BY DEF Numbered
  <2>3. \A i \in 1 .. n : [id |-> <<step', i>>, sig |-> Normalised(cs[i])] \in ToolCall
    BY <2>1 DEF ToolCall
  <2>4. calls' \in Seq(ToolCall) /\ Len(calls') = n
    BY <2>1, <2>2, <2>3
  <2> QED BY <2>1, <2>4
<1>4. Replied(calls')
  BY <1>2, <1>3 DEF Replied
<1>5. /\ Paired' /\ Remembered' /\ Counted' /\ AtStart'
      /\ messages' \in Seq(Message) /\ step' \in Nat
  BY <1>2, <1>4, ReplyKeeps
<1>6. /\ HasTrace(tree') /\ tree'[TracePath] # <<>>
      /\ Tells(tree'[TracePath], messages', 0) /\ Last(tree'[TracePath])[1] = "llm_call"
  BY <1>2, <1>4, ReplyLogged
<1>7. TraceTells'
  BY <1>2, <1>6, TraceTellsMeans
<1>8. ErrorIsLast'
  <2>1. Last(tree'[TracePath]) # <<"error">>
    BY <1>6
  <2> QED BY <2>1 DEF ErrorIsLast
<1>9. TypeOK'
  <2>1. TypeOK
    BY DEF Inv
  <2>2. \A loc \in DOMAIN tree' : tree'[loc] \in {Dir} \cup Seq(Line)
    BY <1>6 DEF HasTrace, Files
  <2>3. (IsDir(Home) /\ IsFile(TracePath))' /\ DOMAIN tree' \subseteq Location
    BY <1>6, LinesAreNoDirectory DEF HasTrace, Files, Rooted, Tidy, IsDir, IsFile, Exists
  <2> QED BY <1>2, <1>3, <1>5, <2>1, <2>2, <2>3 DEF TypeOK
<1> QED BY <1>5, <1>6, <1>7, <1>8, <1>9 DEF Inv, HasTrace

LEMMA StepsExceededKeepsInv == Inv /\ StepsExceeded => Inv'
<1> SUFFICES ASSUME Inv, StepsExceeded PROVE Inv'
  OBVIOUS
<1> DEFINE line == <<"error">>
<1>1. /\ pc = "ask" /\ step >= max_steps /\ pc' = "exception"
      /\ tree' = Logged(tree, line)
      /\ UNCHANGED <<step, messages, calls, seen, ran, tools, max_steps>>
  BY DEF StepsExceeded
<1>2. TypeOK /\ Paired /\ Remembered /\ Counted /\ messages \in Seq(Message) /\ step \in Nat
  BY DEF Inv, TypeOK
<1>3. line \in Line /\ line[1] = "error"
  BY DEF Line
<1>4. HasTrace(tree) /\ tree[TracePath] # <<>> /\ Tells(tree[TracePath], messages, 0)
      /\ tree[TracePath] \in Seq(Line)
  BY <1>1, TraceTellsMeans
<1> HIDE DEF line
<1>5. /\ HasTrace(tree') /\ tree'[TracePath] = Append(tree[TracePath], line)
      /\ tree'[TracePath] # <<>> /\ Last(tree'[TracePath]) = line
  BY <1>1, <1>3, <1>4, LoggedLast
<1>6. Tells(tree'[TracePath], messages', 1)
  BY <1>1, <1>2, <1>3, <1>4, <1>5, TellsTheEnd
<1>7. TraceTells'
  BY <1>1, <1>3, <1>5, <1>6, TraceTellsMeans
<1>8. Replies' = Replies /\ Replies = step
  BY <1>1, <1>2, RepliesCount DEF Counted
<1>9. Counted' /\ ErrorIsLast'
  BY <1>1, <1>2, <1>8 DEF Counted, ErrorIsLast
<1>10. Paired' /\ Remembered' /\ AtStart'
  BY <1>1, <1>2 DEF Paired, Assistant, Remembered, DispatchedOnce, AtStart
<1>11. TypeOK'
  <2>2. \A loc \in DOMAIN tree' : tree'[loc] \in {Dir} \cup Seq(Line)
    BY <1>5 DEF HasTrace, Files
  <2>3. (IsDir(Home) /\ IsFile(TracePath))' /\ DOMAIN tree' \subseteq Location
    BY <1>5, LinesAreNoDirectory DEF HasTrace, Files, Rooted, Tidy, IsDir, IsFile, Exists
  <2> QED BY <1>1, <1>2, <2>2, <2>3 DEF TypeOK
<1> QED BY <1>5, <1>7, <1>9, <1>10, <1>11 DEF Inv, HasTrace

\* The tool message and the calls that remain.
LEMMA AnsweredKeepsPaired ==
  ASSUME Inv, pc = "dispatch", calls # <<>>, Answered
  PROVE  Paired' /\ messages' \in Seq(Message) /\ calls' \in Seq(ToolCall) /\ Replies' = Replies
<1>1. PICK text \in Texts :
        messages' = Append(messages, [role |-> "tool", id |-> Call.id, content |-> text])
  BY DEF Answered
<1> DEFINE m == [role |-> "tool", id |-> Call.id, content |-> text]
           n == Len(messages)
<1>2. /\ messages \in Seq(Message) /\ calls \in Seq(ToolCall) /\ Paired
      /\ calls' = Tail(calls) /\ Call = calls[1]
  BY DEF Answered, Inv, TypeOK, Call
<1>3. calls' \in Seq(ToolCall)
  BY <1>2
<1>4. /\ Len(calls') = Len(calls) - 1 /\ Len(calls) \in Nat \ {0}
      /\ \A i \in 1 .. Len(calls) - 1 : calls'[i] = calls[i + 1]
  BY <1>2
<1>5. m \in Message /\ m.role = "tool" /\ m.id = calls[1].id
  <2>1. calls[1] \in ToolCall
    BY <1>2, <1>4
  <2> QED BY <1>2, <2>1 DEF Message, ToolCall, Texts
<1>6. messages' = Append(messages, m)
  BY <1>1
<1> HIDE DEF m
<1>7. /\ messages' \in Seq(Message)
      /\ Len(messages') = n + 1 /\ messages'[n + 1] = m
      /\ \A k \in 1 .. n : messages'[k] = messages[k]
      /\ DOMAIN messages = 1 .. n /\ DOMAIN messages' = 1 .. n + 1 /\ n \in Nat
  BY <1>2, <1>5, <1>6, Extended
<1> HIDE DEF n
<1>8. ASSUME NEW k \in 1 .. n, messages[k].role = "assistant"
      PROVE  /\ messages[k].tool_calls \in Seq(ToolCall) /\ k + Len(messages[k].tool_calls) <= n + Len(calls)
             /\ \A i \in DOMAIN messages[k].tool_calls :
                  IF k + i <= n
                  THEN /\ messages[k + i].role = "tool"
                       /\ messages[k + i].id = messages[k].tool_calls[i].id
                  ELSE calls[k + i - n] = messages[k].tool_calls[i]
  <2>1. messages[k].tool_calls \in Seq(ToolCall)
    <3>1. messages[k] \in Message
      BY <1>2, <1>7, <1>8
    <3> QED BY <1>8, <3>1 DEF Message
  <2> QED BY <1>2, <1>7, <1>8, <2>1 DEF Paired, Assistant, n
<1>9. ASSUME NEW k \in DOMAIN messages', Assistant(k)'
      PROVE  /\ k + Len(messages'[k].tool_calls) <= Len(messages') + Len(calls')
             /\ \A i \in DOMAIN messages'[k].tool_calls :
                  IF k + i <= Len(messages')
                  THEN /\ messages'[k + i].role = "tool"
                       /\ messages'[k + i].id = messages'[k].tool_calls[i].id
                  ELSE calls'[k + i - Len(messages')] = messages'[k].tool_calls[i]
  <2>1. k \in 1 .. n /\ messages'[k] = messages[k] /\ messages[k].role = "assistant"
    BY <1>5, <1>7, <1>9 DEF Assistant
  <2>2. PICK tc \in Seq(ToolCall) : tc = messages[k].tool_calls
    BY <1>8, <2>1
  <2>3. /\ k + Len(tc) <= n + Len(calls)
        /\ \A i \in DOMAIN tc :
             IF k + i <= n THEN messages[k + i].role = "tool" /\ messages[k + i].id = tc[i].id
             ELSE calls[k + i - n] = tc[i]
    BY <1>8, <2>1, <2>2
  <2>4. k + Len(tc) <= Len(messages') + Len(calls')
    BY <1>4, <1>7, <2>1, <2>2, <2>3
  <2>5. ASSUME NEW i \in DOMAIN tc
        PROVE  IF k + i <= Len(messages')
               THEN messages'[k + i].role = "tool" /\ messages'[k + i].id = tc[i].id
               ELSE calls'[k + i - Len(messages')] = tc[i]
    <3>1. i \in 1 .. Len(tc) /\ Len(tc) \in Nat /\ k \in 1 .. n
      BY <2>1, <2>2
    <3>2. CASE k + i <= n
      <4>1. k + i \in 1 .. n /\ k + i <= n + 1
        BY <1>7, <3>1, <3>2
      <4> QED BY <1>7, <2>3, <3>2, <4>1
    <3>3. CASE k + i = n + 1
      <4>1. ~(k + i <= n) /\ k + i - n = 1
        BY <1>7, <3>1, <3>3
      <4>2. calls[1] = tc[i]
        BY <2>3, <4>1
      <4> QED BY <1>5, <1>7, <3>3, <4>2
    <3>4. CASE k + i > n + 1
      <4>1. ~(k + i <= n) /\ ~(k + i <= n + 1)
        BY <1>7, <3>1, <3>4
      <4>2. k + i - n <= Len(calls)
        BY <1>4, <1>7, <2>3, <3>1
      <4>3. k + i - (n + 1) \in 1 .. Len(calls) - 1 /\ (k + i - (n + 1)) + 1 = k + i - n
        BY <1>4, <1>7, <3>1, <3>4, <4>2
      <4>4. calls'[k + i - (n + 1)] = calls[k + i - n]
        BY <1>4, <4>3
      <4> QED BY <1>7, <2>3, <4>1, <4>4
    <3> QED BY <1>7, <3>1, <3>2, <3>3, <3>4
  <2> QED BY <2>1, <2>2, <2>4, <2>5
<1>10. PICK last \in 1 .. n :
         messages[last].role = "assistant" /\ last + Len(messages[last].tool_calls) = n + Len(calls)
  BY <1>2, <1>7 DEF Paired, Assistant, n
<1>11. ASSUME NEW k \in DOMAIN messages', ~Assistant(k)'
       PROVE  \E j \in 1 .. k - 1 : Assistant(j)' /\ k - j \in DOMAIN messages'[j].tool_calls
  <2>1. CASE k = n + 1
    <3>1. PICK tc \in Seq(ToolCall) : tc = messages[last].tool_calls
      BY <1>8, <1>10
    <3>2. last + Len(tc) = n + Len(calls) /\ Len(tc) \in Nat
      BY <1>10, <3>1
    <3>3. k - last \in 1 .. Len(tc) /\ last \in 1 .. k - 1
      BY <1>4, <1>7, <2>1, <3>2
    <3>4. messages'[last] = messages[last]
      BY <1>7
    <3> QED BY <1>10, <3>1, <3>3, <3>4 DEF Assistant
  <2>2. CASE k # n + 1
    <3>1. k \in 1 .. n /\ messages'[k] = messages[k]
      BY <1>7, <1>11, <2>2
    <3>2. PICK j \in 1 .. k - 1 : Assistant(j) /\ k - j \in DOMAIN messages[j].tool_calls
      BY <1>2, <1>7, <1>11, <3>1 DEF Paired, Assistant
    <3>3. messages'[j] = messages[j]
      BY <1>7, <3>1
    <3> QED BY <3>2, <3>3 DEF Assistant
  <2> QED BY <2>1, <2>2
<1>12. \E j \in DOMAIN messages' :
         Assistant(j)' /\ j + Len(messages'[j].tool_calls) = Len(messages') + Len(calls')
  <2>1. last \in DOMAIN messages' /\ messages'[last] = messages[last]
    BY <1>7
  <2>2. Len(messages') + Len(calls') = n + Len(calls)
    BY <1>4, <1>7
  <2> QED BY <1>10, <2>1, <2>2 DEF Assistant
<1>13. Paired'
  BY <1>9, <1>11, <1>12, Zenon DEF Paired
<1>14. Replies' = Replies
  BY <1>2, <1>5, <1>6, RepliesCount
<1> QED BY <1>3, <1>7, <1>13, <1>14

LEMMA MarkedKeepsRemembered ==
  ASSUME TypeOK, Remembered, Call.sig \in Signature, Marked
  PROVE  /\ Remembered' /\ seen' \subseteq Signature
         /\ ran' \in Seq([sig : Signature, ok : BOOLEAN])
<1>1. ran \in Seq([sig : Signature, ok : BOOLEAN]) /\ seen \subseteq Signature
  BY DEF TypeOK, Signature
<1>2. CASE UNCHANGED <<seen, ran>>
  BY <1>1, <1>2 DEF Remembered, DispatchedOnce
<1>3. CASE ~UNCHANGED <<seen, ran>>
  <2>1. PICK ok \in BOOLEAN : ran' = Append(ran, [sig |-> Call.sig, ok |-> ok])
    BY <1>3 DEF Marked
  <2>2. Call.sig \notin seen /\ seen' = seen \cup {Call.sig}
    BY <1>3 DEF Marked
  <2> DEFINE new == [sig |-> Call.sig, ok |-> ok]
  <2>3. new \in [sig : Signature, ok : BOOLEAN] /\ new.sig = Call.sig
    OBVIOUS
  <2>4. ran' = Append(ran, new)
    BY <2>1
  <2> HIDE DEF new
  <2>5. /\ ran' \in Seq([sig : Signature, ok : BOOLEAN])
        /\ ran'[Len(ran) + 1] = new /\ \A i \in 1 .. Len(ran) : ran'[i] = ran[i]
        /\ DOMAIN ran' = 1 .. Len(ran) + 1 /\ DOMAIN ran = 1 .. Len(ran) /\ Len(ran) \in Nat
    BY <1>1, <2>3, <2>4, Extended
  <2>6. \A i \in 1 .. Len(ran) : ran[i].sig \in seen /\ ran[i].sig # Call.sig
    BY <2>2, <2>5 DEF Remembered
  <2>7. \A i, j \in 1 .. Len(ran) : ran[i].sig = ran[j].sig => i = j
    BY <2>5 DEF Remembered, DispatchedOnce
  <2>8. ASSUME NEW i \in DOMAIN ran', NEW j \in DOMAIN ran', ran'[i].sig = ran'[j].sig
        PROVE  i = j
    <3>1. \A k \in DOMAIN ran' : k \in 1 .. Len(ran) \/ k = Len(ran) + 1
      BY <2>5
    <3>2. CASE i \in 1 .. Len(ran) /\ j \in 1 .. Len(ran)
      BY <2>5, <2>7, <2>8, <3>2
    <3>3. CASE i = Len(ran) + 1 /\ j \in 1 .. Len(ran)
      BY <2>3, <2>5, <2>6, <2>8, <3>3
    <3>4. CASE j = Len(ran) + 1 /\ i \in 1 .. Len(ran)
      BY <2>3, <2>5, <2>6, <2>8, <3>4
    <3> QED BY <3>1, <3>2, <3>3, <3>4
  <2>9. \A i \in DOMAIN ran' : ran'[i].sig \in seen'
    BY <2>2, <2>3, <2>5, <2>6
  <2>10. Remembered'
    BY <2>8, <2>9 DEF Remembered, DispatchedOnce
  <2> QED BY <1>1, <2>2, <2>5, <2>10
<1> QED BY <1>2, <1>3

\* The trace line, after the line of a write over the trace if there was one.
LEMMA LoggedCallTells ==
  ASSUME Inv, pc = "dispatch", Call \in ToolCall, LoggedCall, messages' \in Seq(Message),
         Answered
  PROVE  /\ HasTrace(tree') /\ tree'[TracePath] # <<>>
         /\ Last(tree'[TracePath])[1] = "tool_call" /\ Tells(tree'[TracePath], messages', 0)
<1>1. PICK t, v : Touched(t) /\ v \in Verdicts /\ tree' = Logged(t, <<"tool_call", Call, v>>)
  BY DEF LoggedCall
<1> DEFINE line == <<"tool_call", Call, v>>
<1>2. line \in Line /\ line[1] = "tool_call" /\ line[2] = Call
  BY <1>1 DEF Line, Verdicts
<1>3. HasTrace(t) /\ t[TracePath] \in Seq(Line)
  BY <1>1 DEF Touched, HasTrace
<1>4. PICK text \in Texts :
        messages' = Append(messages, [role |-> "tool", id |-> Call.id, content |-> text])
  BY DEF Answered
<1> DEFINE m == [role |-> "tool", id |-> Call.id, content |-> text]
<1>5. m \in Message /\ Traced(line) = Told(m)
  BY <1>2 DEF Message, ToolCall, Texts, Traced, Told
<1>6. tree' = Logged(t, line) /\ messages' = Append(messages, m)
  BY <1>1, <1>4
<1> HIDE DEF line, m
<1>7. /\ HasTrace(tree') /\ tree'[TracePath] = Append(t[TracePath], line)
      /\ tree'[TracePath] # <<>> /\ Last(tree'[TracePath]) = line
  BY <1>2, <1>3, <1>6, LoggedLast
<1>8. CASE t[TracePath] = tree[TracePath]
  <2>1. /\ tree[TracePath] \in Seq(Line) /\ tree[TracePath] # <<>>
        /\ Tells(tree[TracePath], messages, 0) /\ messages \in Seq(Message)
    BY TraceTellsMeans DEF Inv, TypeOK
  <2>2. Tells(tree'[TracePath], messages', 0)
    BY <1>2, <1>5, <1>6, <1>7, <1>8, <2>1, TellsNext
  <2> QED BY <1>2, <1>7, <2>2
<1>9. CASE t[TracePath] # tree[TracePath]
  <2>1. PICK c \in Content : t[TracePath] = << <<"text", c>> >>
    BY <1>1, <1>9 DEF Touched
  <2>2. Head(tree'[TracePath]) = <<"text", c>>
    <3>1. t[TracePath] # <<>> /\ Head(t[TracePath]) = <<"text", c>>
      BY <2>1
    <3> QED BY <1>2, <1>3, <1>7, <3>1, Extended
  <2>3. Tells(tree'[TracePath], messages', 0)
    BY <2>2 DEF Tells
  <2> QED BY <1>2, <1>7, <2>3
<1> QED BY <1>8, <1>9

LEMMA DispatchKeepsInv == Inv /\ Dispatch => Inv'
<1> SUFFICES ASSUME Inv, Dispatch PROVE Inv'
  OBVIOUS
<1>1. /\ pc = "dispatch" /\ calls # <<>> /\ Call \in ToolCall
      /\ Answered /\ Marked /\ LoggedCall
  BY DispatchMeans
<1>2. TypeOK /\ Remembered /\ Counted
  BY DEF Inv
<1>3. Paired' /\ messages' \in Seq(Message) /\ calls' \in Seq(ToolCall) /\ Replies' = Replies
  BY <1>1, AnsweredKeepsPaired
<1>4. Call.sig \in Signature
  BY <1>1 DEF ToolCall, Signature
<1>5. Remembered' /\ seen' \subseteq Signature /\ ran' \in Seq([sig : Signature, ok : BOOLEAN])
  BY <1>1, <1>2, <1>4, MarkedKeepsRemembered
<1>6. /\ HasTrace(tree') /\ tree'[TracePath] # <<>>
      /\ Last(tree'[TracePath])[1] = "tool_call" /\ Tells(tree'[TracePath], messages', 0)
  BY <1>1, <1>3, LoggedCallTells
<1>7. /\ pc' = IF calls' = <<>> THEN "ask" ELSE "dispatch"
      /\ UNCHANGED <<step, tools, max_steps>>
  BY <1>1 DEF Answered
<1>8. Counted' /\ AtStart'
  BY <1>1, <1>2, <1>3, <1>7 DEF Counted, AtStart
<1>9. TraceTells'
  BY <1>6, <1>7, TraceTellsMeans
<1>10. ErrorIsLast'
  <2>1. Last(tree'[TracePath]) # <<"error">>
    BY <1>6
  <2> QED BY <2>1 DEF ErrorIsLast
<1>11. TypeOK'
  <2>1. \A loc \in DOMAIN tree' : tree'[loc] \in {Dir} \cup Seq(Line)
    BY <1>6 DEF HasTrace, Files
  <2>2. (IsDir(Home) /\ IsFile(TracePath))' /\ DOMAIN tree' \subseteq Location
    BY <1>6, LinesAreNoDirectory DEF HasTrace, Files, Rooted, Tidy, IsDir, IsFile, Exists
  <2> QED BY <1>2, <1>3, <1>5, <1>7, <2>1, <2>2 DEF TypeOK, Signature
<1> QED BY <1>3, <1>5, <1>6, <1>8, <1>9, <1>10, <1>11 DEF Inv, HasTrace

LEMMA NextKeepsInv == Inv /\ [Next]_vars => Inv'
<1>1. Inv /\ UNCHANGED vars => Inv'
  BY DEF vars, state, Inv, TypeOK, IsDir, IsFile, Exists, Files, Tidy, Rooted, AtStart, Paired,
         Assistant, Remembered, DispatchedOnce, Counted, Replies, ErrorIsLast, TraceTells, Intact
<1> QED BY <1>1, StartKeepsInv, AskFailsKeepsInv, AskTextKeepsInv, AskCallsKeepsInv,
           StepsExceededKeepsInv, DispatchKeepsInv DEF Next

LEMMA InvAlways == Spec => []Inv
BY InitInv, NextKeepsInv, PTL DEF Spec

-----------------------------------------------------------------------------
(* Theorems *)

\* Every value of the loop, of the conversation and of the files stays what it should be.
THEOREM TypesHold == Spec => []TypeOK
BY InvAlways, PTL DEF Inv

\* AgentLoop.run hands the provider a conversation it accepts: between two replies every
\* tool call has its one answer, whatever became of the calls, in replies of any length.
THEOREM ConversationPaired == Spec => []MessagesPaired
<1>1. Inv => MessagesPaired
  <2> SUFFICES ASSUME Inv, pc = "ask" PROVE MessagesPaired
    BY DEF MessagesPaired
  <2>1. Paired /\ calls = <<>> /\ messages \in Seq(Message)
    BY DEF Inv, TypeOK
  <2>2. Len(calls) = 0 /\ DOMAIN messages = 1 .. Len(messages) /\ Len(messages) \in Nat
    BY <2>1
  <2>3. ASSUME NEW k \in DOMAIN messages, messages[k].role = "assistant",
               NEW i \in DOMAIN messages[k].tool_calls
        PROVE  /\ k + i \in DOMAIN messages
               /\ messages[k + i].role = "tool"
               /\ messages[k + i].id = messages[k].tool_calls[i].id
    <3>1. messages[k] \in Message
      BY <2>1, <2>3
    <3>2. PICK tc \in Seq(ToolCall) : tc = messages[k].tool_calls
      BY <2>3, <3>1 DEF Message
    <3>3. k + Len(tc) <= Len(messages) + Len(calls) /\ i \in 1 .. Len(tc) /\ Len(tc) \in Nat
      BY <2>1, <2>3, <3>2 DEF Paired, Assistant
    <3>4. k + i \in 1 .. Len(messages) /\ k + i <= Len(messages)
      BY <2>2, <3>3
    <3> QED BY <2>1, <2>2, <2>3, <3>4 DEF Paired, Assistant
  <2>4. \A k \in DOMAIN messages : messages[k].role # "assistant" =>
          \E j \in 1 .. k - 1 :
            /\ messages[j].role = "assistant" /\ k - j \in DOMAIN messages[j].tool_calls
    BY <2>1 DEF Paired, Assistant
  <2> QED BY <2>3, <2>4, Zenon DEF MessagesPaired
<1> QED BY <1>1, InvAlways, PTL

\* seen_call_signatures does its work: no call of the run is dispatched twice.
THEOREM NoCallTwice == Spec => []DispatchedOnce
BY InvAlways, PTL DEF Inv, Remembered

\* Task.max_steps bounds the replies, for every cap, zero and negative ones included.
THEOREM StepsAreCapped == Spec => []StepCapHolds
<1>1. Inv => StepCapHolds
  BY DEF Inv, Counted, ErrorIsLast, StepCapHolds
<1> QED BY <1>1, InvAlways, PTL

\* The trace on disk keeps up with the conversation, unless a tool call replaced it.
THEOREM TraceKeepsUp == Spec => []TraceTellsAll
<1>1. Inv => TraceTellsAll
  BY Zenon DEF Inv, TraceTells, TraceTellsAll
<1> QED BY <1>1, InvAlways, PTL

-----------------------------------------------------------------------------
(* What a step does to the files *)

LEMMA LoggedAlike ==
  ASSUME NEW t, HasTrace(t), Alike(tree, t), NEW line \in Line
  PROVE  Alike(tree, Logged(t, line))
<1>1. /\ DOMAIN Logged(t, line) = DOMAIN t
      /\ \A loc \in DOMAIN t : loc # TracePath => Logged(t, line)[loc] = t[loc]
      /\ \A loc \in DOMAIN t : Logged(t, line)[loc] = Dir <=> t[loc] = Dir
  BY LoggedMeans
<1>2. IsPrefix(Home, TracePath)
  BY Paths
<1> QED BY <1>1, <1>2 DEF Alike

LEMMA StepsAlike == Inv /\ [Next]_vars => Alike(tree, tree')
<1> SUFFICES ASSUME Inv, [Next]_vars PROVE Alike(tree, tree')
  OBVIOUS
<1>1. Alike(tree, tree)
  BY DEF Alike
<1>2. pc # "start" => HasTrace(tree)
  BY Traces
<1>3. CASE Start
  <2> DEFINE first == << <<"start">> >>
  <2>1. pc = "start" /\ tree' = Put(TracePath, first)
    BY <1>3 DEF Start
  <2>2. first \in Seq(Line) /\ first # Dir
    <3>1. first \in Seq(Line)
      BY DEF Line
    <3> QED BY <3>1, LinesAreNoDirectory
  <2>3. Writable(TracePath)
    BY <2>1, Paths DEF Inv, AtStart, Writable, IsFile, IsDir, Exists
  <2> QED BY <2>1, <2>2, <2>3, Paths, PutKeeps DEF Inv, Files
<1>4. CASE AskFails
  BY <1>1, <1>4 DEF AskFails
<1>5. CASE AskText
  <2> DEFINE t == Logged(tree, <<"llm_call", step', <<>>>>)
  <2>1. pc = "ask" /\ tree' = Logged(t, <<"done", step'>>) /\ step' \in Nat
    BY <1>5 DEF AskText, Inv, TypeOK
  <2>2. <<>> \in Seq(ToolCall)
    OBVIOUS
  <2>3. <<"llm_call", step', <<>>>> \in Line
    BY <2>1, <2>2 DEF Line
  <2>4. <<"done", step'>> \in Line
    BY <2>1 DEF Line
  <2>5. HasTrace(t) /\ Alike(tree, t)
    BY <1>1, <1>2, <2>1, <2>3, LoggedLast, LoggedAlike
  <2> HIDE DEF t
  <2> QED BY <2>1, <2>4, <2>5, LoggedAlike
<1>6. CASE AskCalls
  <2>1. pc = "ask" /\ tree' = Logged(tree, <<"llm_call", step', calls'>>)
    BY <1>6 DEF AskCalls
  <2>2. Inv' /\ step' \in Nat /\ calls' \in Seq(ToolCall)
    BY <1>6, AskCallsKeepsInv DEF Inv, TypeOK
  <2>3. <<"llm_call", step', calls'>> \in Line
    BY <2>2 DEF Line
  <2> QED BY <1>1, <1>2, <2>1, <2>3, LoggedAlike
<1>7. CASE StepsExceeded
  <2>1. pc = "ask" /\ tree' = Logged(tree, <<"error">>)
    BY <1>7 DEF StepsExceeded
  <2>2. <<"error">> \in Line
    BY DEF Line
  <2> QED BY <1>1, <1>2, <2>1, <2>2, LoggedAlike
<1>8. CASE Dispatch
  <2>1. Call \in ToolCall /\ LoggedCall
    BY <1>8, DispatchMeans
  <2>2. PICK t, v : Touched(t) /\ v \in Verdicts /\ tree' = Logged(t, <<"tool_call", Call, v>>)
    BY <2>1 DEF LoggedCall
  <2>3. <<"tool_call", Call, v>> \in Line
    BY <2>1, <2>2 DEF Line, Verdicts
  <2> QED BY <2>2, <2>3, LoggedAlike DEF Touched
<1>9. CASE UNCHANGED vars
  BY <1>1, <1>9 DEF vars
<1> QED BY <1>3, <1>4, <1>5, <1>6, <1>7, <1>8, <1>9 DEF Next

\* The run as a whole, trace included, keeps the tree a tree.
THEOREM AgentKeepsTree == Spec => []TreeWellFormed
<1>1. Inv => TreeWellFormed
  BY DEF Inv, Files, Tidy, TreeWellFormed, IsDir, Exists
<1> QED BY <1>1, InvAlways, PTL

\* The run as a whole, trace included, touches nothing but the task's workspace.
THEOREM AgentStaysInside == Spec => OutsideUntouched
<1>1. Inv /\ [Next]_vars =>
        [\A loc \in DOMAIN tree \cup DOMAIN tree' :
           \/ IsPrefix(Home, loc)
           \/ /\ loc \in DOMAIN tree \cap DOMAIN tree'
              /\ tree'[loc] = tree[loc]]_tree
  BY StepsAlike DEF Alike
<1> QED BY <1>1, InvAlways, PTL DEF Spec, OutsideUntouched

LEMMA StartLeavesResult == Inv /\ Start => ResultPath \notin DOMAIN tree /\ ResultPath \notin DOMAIN tree'
<1> SUFFICES ASSUME Inv, Start
             PROVE  ResultPath \notin DOMAIN tree /\ ResultPath \notin DOMAIN tree'
  OBVIOUS
<1>1. /\ DOMAIN tree = Ancestors(Home) \cup {Home}
      /\ DOMAIN tree' = DOMAIN tree \cup Ancestors(TracePath) \cup {TracePath}
  BY DEF Start, Put, Inv, AtStart
<1>2. Len(TracePath) = Len(Home) + 1 /\ Len(ResultPath) = Len(Home) + 1 /\ Len(Home) \in Nat
  BY HomeAssumption DEF TracePath, ResultPath
<1>3. \A a \in Ancestors(TracePath) : Len(a) < Len(TracePath)
  BY Paths, AncestorsMean
<1>4. ResultPath \notin Ancestors(TracePath)
  BY <1>2, <1>3
<1> QED BY <1>1, <1>4, Paths

\* AgentLoop.run is for the worker what AgentRun says: it ends once, with a text or an
\* exception, and until then gives the workspace a result.md that stays what it is.
THEOREM LoopImplementsRun == Spec => ImplementsAgentRun
<1> DEFINE result  == IF IsFile(ResultPath) THEN "file"
                      ELSE IF IsDir(ResultPath) THEN "dir" ELSE "empty"
           outcome == IF pc \in {"text", "exception"} THEN pc ELSE "running"
<1>1. Init => Run!Init
  <2>1. Init => ResultPath \notin DOMAIN tree
    BY Paths DEF Init
  <2> QED BY <2>1 DEF Init, Run!Init, IsFile, IsDir, Exists
<1>2. Inv /\ [Next]_vars => [Run!Next]_(Run!vars)
  <2> SUFFICES ASSUME Inv, [Next]_vars PROVE [Run!Next]_(Run!vars)
    OBVIOUS
  <2>1. Alike(tree, tree')
    BY StepsAlike
  <2>2. result # "empty" => UNCHANGED result
    BY <2>1 DEF Alike, IsFile, IsDir, Exists
  <2>3. result' \in {"file", "dir", "empty"}
    OBVIOUS
  <2>4. CASE Dispatch
    <3>1. outcome = "running" /\ UNCHANGED outcome
      BY <2>4, DispatchMeans DEF Answered
    <3> QED BY <2>2, <2>3, <3>1 DEF Run!Next, Run!Write, Run!vars
  <2>5. CASE Start
    <3>1. UNCHANGED result
      BY <2>5, StartLeavesResult DEF IsFile, IsDir, Exists
    <3>2. outcome = "running" /\ outcome' \in {"running", "exception"}
      BY <2>5 DEF Start
    <3> QED BY <3>1, <3>2 DEF Run!Next, Run!End, Run!vars
  <2>6. CASE AskFails \/ AskText \/ AskCalls \/ StepsExceeded
    <3>1. pc = "ask" /\ HasTrace(tree)
      BY <2>6, Traces DEF AskFails, AskText, AskCalls, StepsExceeded
    <3>2. DOMAIN tree' = DOMAIN tree
      BY <2>6 DEF AskFails, AskText, AskCalls, StepsExceeded, Logged
    <3>3. UNCHANGED result
      BY <2>1, <3>2 DEF Alike, IsFile, IsDir, Exists
    <3>4. outcome = "running" /\ outcome' \in {"running", "text", "exception"}
      BY <2>6, <3>1 DEF AskFails, AskText, AskCalls, StepsExceeded
    <3> QED BY <3>3, <3>4 DEF Run!Next, Run!End, Run!vars
  <2>7. CASE UNCHANGED vars
    BY <2>7 DEF vars, state, Run!vars, IsFile, IsDir, Exists
  <2> QED BY <2>4, <2>5, <2>6, <2>7 DEF Next
<1> QED BY <1>1, <1>2, InvAlways, PTL DEF Spec, Run!Spec, ImplementsAgentRun

=============================================================================
