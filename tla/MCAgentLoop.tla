---------------------------- MODULE MCAgentLoop ----------------------------
(***************************************************************************)
(* Instances of AgentLoop for TLC: every tool, each way its arguments can  *)
(* be wrong, and files that get in each other's way.                       *)
(***************************************************************************)
EXTENDS AgentLoop

HomeDef == <<"w">>

InHome(parts) == [abs |-> FALSE, parts |-> parts]

WriteCall(parts, c) ==
  [name |-> "filesystem_write",
   args |-> [kind |-> "write", path |-> InHome(parts), content |-> c]]

ReadCall ==
  [name |-> "filesystem_read", args |-> [kind |-> "read", path |-> InHome(<<"result.md">>)]]

SearchCall == [name |-> "web_search", args |-> [kind |-> "query"]]

UnknownCall == [name |-> "text_reply", args |-> [kind |-> "query"]]

GarbageCall == [name |-> "filesystem_write", args |-> [kind |-> "garbage"]]

ListCall == [name |-> "filesystem_list", args |-> [kind |-> "empty"]]

\* build_default_registry.
RegisteredDef ==
  {"web_search", "fetch_url", "filesystem_write", "filesystem_read", "filesystem_list"}

\* Calls that meet at result.md, as a file and as a directory.
ResultCalls ==
  {WriteCall(<<"result.md">>, "a"), WriteCall(<<"result.md", "part">>, "a"),
   WriteCall(<<"..", "x">>, "a"), ReadCall, SearchCall, UnknownCall, GarbageCall, ListCall}

\* Calls that overwrite each other.
RewriteCalls == {WriteCall(<<"result.md">>, "a"), WriteCall(<<"result.md">>, "b"), ReadCall}

\* A call that overwrites the trace.
TraceCalls == {WriteCall(<<"trace.jsonl">>, "a")}

AllCalls == ResultCalls \cup RewriteCalls \cup TraceCalls

\* YAKYOKE_MAX_STEPS is not validated: it may be negative.
StepCapsDef == {-1, 2}

AllowListsDef ==
  {<<>>, <<"filesystem_read">>, <<"filesystem_read", "filesystem_read">>}

=============================================================================
