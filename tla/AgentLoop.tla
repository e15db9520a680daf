----------------------------- MODULE AgentLoop -----------------------------
(***************************************************************************)
(* One run of the agent on one task (agent.py): ask the model, answer each *)
(* of its tool calls, ask again, until it replies with text only or the    *)
(* steps are used up.  The provider's replies and the web tools' outcomes  *)
(* are external: any reply over the calls in Calls, or an exception.       *)
(***************************************************************************)
EXTENDS Workspace

CONSTANTS
  Registered,    \* names in the worker's tool registry
  Calls,         \* what the model may call: [name, args] records
  AllowLists,    \* the values of Task.tools, sequences of names
  StepCaps,      \* the values of Task.max_steps
  MaxCalls       \* bound: tool calls in one reply

VARIABLES
  pc,         \* "start", "ask", "dispatch", "text" or "exception"
  tools,      \* Task.tools
  max_steps,  \* Task.max_steps
  step,       \* the for loop's variable: replies asked for so far
  messages,   \* the conversation after the system and the user message
  calls,      \* tool calls of the last reply that are not answered yet
  seen,       \* seen_call_signatures
  ran         \* history: the calls dispatched, in order: [sig, ok]

state == <<pc, step, messages, calls, seen, ran>>
vars  == <<tree, state, tools, max_steps>>

TracePath  == Append(Home, "trace.jsonl")
ResultPath == Append(Home, "result.md")

\* LLM.complete: arguments that are no JSON become an empty dict.
Normalised(c) == [c EXCEPT !.args = IF @.kind = "garbage" THEN [kind |-> "empty"] ELSE @]

\* The calls of a reply, as the loop keeps them.
ToolCall == [id : Nat \X Nat, sig : {Normalised(c) : c \in Calls}]

\* What filesystem_write may write.
Content == {c.args.content : c \in {d \in Calls : d.args.kind = "write"}}

\* A line of a file: of the trace, of a text that a tool call wrote, or the final text
\* of the run, which the worker writes (module TaskRun).
Line ==
  {<<"start">>, <<"error">>, <<"final_text">>} \cup ({"done"} \X Nat) \cup ({"text"} \X Content)
    \cup ({"llm_call"} \X Nat \X Seq(ToolCall))
    \cup ({"tool_call"} \X ToolCall \X {"intercepted", "unknown", "failed", "ok"})

\* What is appended to the conversation.
Message ==
  [role : {"assistant"}, tool_calls : Seq(ToolCall)]
    \cup [role : {"tool"}, id : Nat \X Nat, content : {"stop", "unknown", "error", "result"}]

ASSUME AgentAssumption ==
  /\ AllowLists \subseteq Seq(STRING)
  /\ StepCaps \subseteq Int
  /\ MaxCalls \in Nat \ {0}
  /\ \A c \in Calls :
       /\ c = [name |-> c.name, args |-> c.args]
       /\ c.args.kind = "write" => c.args.path \in Path
  /\ Dir \notin Seq(Line)
  /\ {"trace.jsonl", "result.md"} \subseteq STRING   \* for the provers, which do not know it

\* A reply's calls with the provider's ids, which never repeat.
Numbered(n, cs) == [i \in DOMAIN cs |-> [id |-> <<n, i>>, sig |-> Normalised(cs[i])]]

\* TraceLogger.log appends a line to the file, whatever the file holds by then.
Logged(t, line) == [t EXCEPT ![TracePath] = Append(@, line)]

TypeOK ==
  /\ pc \in {"start", "ask", "dispatch", "text", "exception"}
  /\ tools \in AllowLists /\ max_steps \in StepCaps
  /\ step \in Nat
  /\ messages \in Seq(Message)
  /\ calls \in Seq(ToolCall) /\ (calls # <<>> <=> pc = "dispatch")
  /\ seen \subseteq {Normalised(c) : c \in Calls}
  /\ ran \in Seq([sig : {Normalised(c) : c \in Calls}, ok : BOOLEAN])
  /\ DOMAIN tree \subseteq Location
  /\ \A loc \in DOMAIN tree : tree[loc] \in {Dir} \cup Seq(Line)
  /\ IsDir(Home) /\ (pc # "start" => IsFile(TracePath))

Init ==
  /\ pc = "start" /\ step = 0
  /\ messages = <<>> /\ calls = <<>> /\ seen = {} /\ ran = <<>>
  /\ tools \in AllowLists /\ max_steps \in StepCaps
  /\ tree = [loc \in Ancestors(Home) \cup {Home} |-> Dir]

-----------------------------------------------------------------------------
(* AgentLoop.run *)

\* ToolRegistry.filtered registers a name once: a repeated one raises.
Repeats(s) == \E i, j \in DOMAIN s : i # j /\ s[i] = s[j] /\ s[i] \in Registered

\* Truncate the trace, log the start, filter the registry.
Start ==
  /\ pc = "start"
  /\ tree' = Put(TracePath, << <<"start">> >>)
  /\ pc' = IF Repeats(tools) THEN "exception" ELSE "ask"
  /\ UNCHANGED <<step, messages, calls, seen, ran, tools, max_steps>>

\* The provider raises, and nothing of the step is logged.
AskFails ==
  /\ pc = "ask" /\ step < max_steps
  /\ step' = step + 1
  /\ pc' = "exception"
  /\ UNCHANGED <<tree, messages, calls, seen, ran, tools, max_steps>>

\* Seeded fault: one reply too many is asked for.
AskTextLate ==
  /\ pc = "ask" /\ step <= max_steps
  /\ step' = step + 1
  /\ messages' = Append(messages, [role |-> "assistant", tool_calls |-> <<>>])
  /\ tree' = Logged(Logged(tree, <<"llm_call", step', <<>>>>), <<"done", step'>>)
  /\ pc' = "text"
  /\ UNCHANGED <<calls, seen, ran, tools, max_steps>>

\* A reply without tool calls ends the run.
AskText ==
  /\ pc = "ask" /\ step < max_steps
  /\ step' = step + 1
  /\ messages' = Append(messages, [role |-> "assistant", tool_calls |-> <<>>])
  /\ tree' = Logged(Logged(tree, <<"llm_call", step', <<>>>>), <<"done", step'>>)
  /\ pc' = "text"
  /\ UNCHANGED <<calls, seen, ran, tools, max_steps>>

AskCalls ==
  /\ pc = "ask" /\ step < max_steps
  /\ step' = step + 1
  /\ \E cs \in UNION {[1 .. n -> Calls] : n \in 1 .. MaxCalls} :
       /\ calls' = Numbered(step', cs)
       /\ messages' = Append(messages, [role |-> "assistant", tool_calls |-> calls'])
       /\ tree' = Logged(tree, <<"llm_call", step', calls'>>)
  /\ pc' = "dispatch"
  /\ UNCHANGED <<seen, ran, tools, max_steps>>

\* Seeded fault: the loop's end is tested for equality.
StepsMissed ==
  /\ pc = "ask" /\ step = max_steps
  /\ tree' = Logged(tree, <<"error">>)
  /\ pc' = "exception"
  /\ UNCHANGED <<step, messages, calls, seen, ran, tools, max_steps>>

\* The loop runs out: the calls of the last step have been answered in vain.
StepsExceeded ==
  /\ pc = "ask" /\ step >= max_steps
  /\ tree' = Logged(tree, <<"error">>)
  /\ pc' = "exception"
  /\ UNCHANGED <<step, messages, calls, seen, ran, tools, max_steps>>

-----------------------------------------------------------------------------
(* The calls of a reply, one by one *)

Call == Head(calls)
Fresh == pc = "dispatch" /\ Call.sig \notin seen

\* The tool message for the call at hand; after the last one the loop goes on.
Answer(text) ==
  /\ messages' = Append(messages, [role |-> "tool", id |-> Call.id, content |-> text])
  /\ calls' = Tail(calls)
  /\ pc' = IF calls' = <<>> THEN "ask" ELSE "dispatch"
  /\ UNCHANGED <<step, tools, max_steps>>

\* Seeded fault: a duplicate breaks off the loop over the calls.
InterceptBreaks ==
  /\ pc = "dispatch" /\ Call.sig \in seen
  /\ tree' = Logged(tree, <<"tool_call", Call, "intercepted">>)
  /\ messages' = Append(messages, [role |-> "tool", id |-> Call.id, content |-> "stop"])
  /\ calls' = Tail(calls) /\ pc' = "ask"
  /\ UNCHANGED <<step, seen, ran, tools, max_steps>>

\* Seeded fault: a duplicate is not traced.
InterceptUntraced ==
  /\ pc = "dispatch" /\ Call.sig \in seen
  /\ Answer("stop")
  /\ UNCHANGED <<tree, seen, ran>>

\* A call made before in this run, whatever came of it: tell the model to stop.
Intercept ==
  /\ pc = "dispatch" /\ Call.sig \in seen
  /\ tree' = Logged(tree, <<"tool_call", Call, "intercepted">>)
  /\ Answer("stop")
  /\ UNCHANGED <<seen, ran>>

\* Seeded fault: only a call that succeeded is remembered.
AfterSuccess(ok, text) ==
  /\ Answer(text)
  /\ seen' = IF ok THEN seen \cup {Call.sig} ELSE seen
  /\ ran' = Append(ran, [sig |-> Call.sig, ok |-> ok])

\* _dispatch_tool has come back, and its signature is remembered.
After(ok, text) ==
  /\ Answer(text)
  /\ seen' = seen \cup {Call.sig}
  /\ ran' = Append(ran, [sig |-> Call.sig, ok |-> ok])

\* The registry knows the tool; the task's allowlist is not asked.
Runs(name) == Fresh /\ Call.sig.name = name /\ name \in Registered

\* No such tool: nothing is run, and the trace line has no success field.
UnknownTool ==
  /\ Fresh /\ Call.sig.name \notin Registered
  /\ tree' = Logged(tree, <<"tool_call", Call, "unknown">>)
  /\ After(FALSE, "unknown")

\* filesystem_list's path has a default, so that it needs no arguments.
NeedsArguments(name) == name # "filesystem_list"

\* The arguments do not fit the tool: TypeError, returned as a string.
BadArguments ==
  /\ Runs(Call.sig.name) /\ NeedsArguments(Call.sig.name)
  /\ Call.sig.args.kind = "empty"
  /\ tree' = Logged(tree, <<"tool_call", Call, "failed">>)
  /\ After(FALSE, "error")

\* filesystem_write writes, refuses (a success, to the loop) or raises.
RunWrite ==
  /\ Runs("filesystem_write") /\ Call.sig.args.kind = "write"
  /\ LET p == Call.sig.args.path
         lines == << <<"text", Call.sig.args.content>> >>
         ok == ~WriteRaises(p)
     IN /\ tree' = Logged(Written(p, lines),
                          <<"tool_call", Call, IF ok THEN "ok" ELSE "failed">>)
        /\ After(ok, IF ok THEN "result" ELSE "error")

\* These change nothing, and what they cannot read they say as text.
RunRead ==
  /\ \E name \in {"filesystem_read", "filesystem_list"} :
       /\ Runs(name)
       /\ \/ Call.sig.args.kind = "read"
          \/ Call.sig.args.kind = "empty" /\ ~NeedsArguments(name)
  /\ tree' = Logged(tree, <<"tool_call", Call, "ok">>)
  /\ After(TRUE, "result")

\* Most failures of the web come back as text, some as exceptions.
RunWeb ==
  /\ \E name \in {"web_search", "fetch_url"} : Runs(name)
  /\ Call.sig.args.kind = "query"
  /\ \E ok \in BOOLEAN :
       /\ tree' = Logged(tree, <<"tool_call", Call, IF ok THEN "ok" ELSE "failed">>)
       /\ After(ok, IF ok THEN "result" ELSE "error")

Dispatch ==
  Intercept \/ UnknownTool \/ BadArguments \/ RunWrite \/ RunRead \/ RunWeb

Next ==
  Start \/ AskFails \/ AskText \/ AskCalls \/ StepsExceeded \/ Dispatch

Spec == Init /\ [][Next]_vars

\* The provider and the tools return or raise: their clients have timeouts.
FairSpec == Spec /\ WF_vars(Next)

-----------------------------------------------------------------------------
(* Properties *)

\* The conversation sent to the provider is one it accepts: each tool call of an
\* assistant message is answered by exactly one tool message, right after it, in
\* order and under its id, whether the call ran, failed or was intercepted.
MessagesPaired ==
  pc = "ask" =>
    \A k \in DOMAIN messages :
      IF messages[k].role = "assistant"
      THEN \A i \in DOMAIN messages[k].tool_calls :
             /\ k + i \in DOMAIN messages
             /\ messages[k + i].role = "tool"
             /\ messages[k + i].id = messages[k].tool_calls[i].id
      ELSE \E j \in 1 .. k - 1 :
             /\ messages[j].role = "assistant"
             /\ k - j \in DOMAIN messages[j].tool_calls

\* "NEVER call the same tool with the same arguments twice": no tool runs twice
\* on equal arguments in a run, across steps and within one reply.
DispatchedOnce == \A i, j \in DOMAIN ran : ran[i].sig = ran[j].sig => i = j

Replies == Cardinality({k \in DOMAIN messages : messages[k].role = "assistant"})

\* Task.max_steps: no reply beyond it is paid for, and a run that gives up with
\* the step-cap error has had exactly that many, all with tool calls.
StepCapHolds ==
  /\ Replies <= step /\ step <= IF max_steps < 0 THEN 0 ELSE max_steps
  /\ pc # "start" /\ tree[TracePath] # <<>> /\ Last(tree[TracePath]) = <<"error">> =>
       Replies = step /\ step >= max_steps /\ pc = "exception"

\* One trace or message, reduced to who it is about.
Told(m) ==
  IF m.role = "assistant" THEN <<"llm_call", m.tool_calls>> ELSE <<"tool_call", m.id>>
Traced(line) ==
  IF line[1] = "llm_call" THEN <<"llm_call", line[3]>> ELSE <<"tool_call", line[2].id>>

Intact == tree[TracePath] # <<>> /\ Head(tree[TracePath]) = <<"start">>

\* Unless a tool call overwrote it, the trace on disk tells the conversation step
\* by step at every moment, so that a crash leaves a usable one.
TraceTellsAll ==
  pc # "start" /\ Intact =>
    LET trace == tree[TracePath]
        ended == Last(trace)[1] \in {"done", "error"}
    IN /\ Len(trace) = 1 + Len(messages) + (IF ended THEN 1 ELSE 0)
       /\ \A k \in DOMAIN messages : Traced(trace[k + 1]) = Told(messages[k])
       /\ pc = "text" => Last(trace)[1] = "done"

\* The loop implements what the worker relies on.
Run == INSTANCE AgentRun WITH
  result  <- IF IsFile(ResultPath) THEN "file"
             ELSE IF IsDir(ResultPath) THEN "dir" ELSE "empty",
  outcome <- IF pc \in {"text", "exception"} THEN pc ELSE "running"

ImplementsAgentRun == Run!Spec

\* Whatever the model replies, a run ends.
Terminates == <>(pc \in {"text", "exception"})

\* A tool message that tells the model to stop is being appended.
Stops == pc = "dispatch" /\ Len(messages') > Len(messages) /\ Last(messages').content = "stop"

\* "Track every successful tool call signature": an intercepted call repeats one
\* that succeeded.
InterceptsSuccesses ==
  [][Stops => \E r \in Range(ran) : r.sig = Call.sig /\ r.ok]_vars

\* "Allowlist of tool names this task can call. Empty means all registered":
\* a tool that ran with success was on the list.
AllowlistHolds ==
  \A r \in Range(ran) : r.ok => tools = <<>> \/ r.sig.name \in Range(tools)

=============================================================================
