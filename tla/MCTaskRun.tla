----------------------------- MODULE MCTaskRun -----------------------------
(***************************************************************************)
(* Instances of TaskRun for TLC: calls that meet at result.md, as a file   *)
(* and as a directory, one that overwrites the trace, and one that fails.  *)
(***************************************************************************)
EXTENDS TaskRun

HomeDef == <<"w">>

WriteCall(parts, c) ==
  [name |-> "filesystem_write",
   args |-> [kind |-> "write", path |-> [abs |-> FALSE, parts |-> parts], content |-> c]]

RegisteredDef == {"filesystem_write"}

CallsDef ==
  {WriteCall(<<"result.md">>, "a"), WriteCall(<<"result.md">>, "b"),
   WriteCall(<<"result.md", "part">>, "a"), WriteCall(<<"trace.jsonl">>, "a"),
   [name |-> "unknown", args |-> [kind |-> "query"]]}

AllowListsDef == {<<>>}

StepCapsDef == {1, 3}

=============================================================================
