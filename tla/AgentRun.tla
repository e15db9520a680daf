------------------------------ MODULE AgentRun ------------------------------
(***************************************************************************)
(* What the worker relies on when it calls agent.run(task): the run ends   *)
(* once, with a text or an exception, and until then all it does that the  *)
(* worker can see is to give the workspace a result.md, a file or a        *)
(* directory, which then stays.  Daemon's AgentWrites and AgentEnds are    *)
(* these actions.                                                          *)
(***************************************************************************)

VARIABLES
  result,    \* what the workspace holds at result.md: "empty" is nothing
  outcome    \* "running", "text" or "exception"

vars == <<result, outcome>>

Init == result = "empty" /\ outcome = "running"

Write ==
  /\ outcome = "running" /\ result = "empty"
  /\ result' \in {"file", "dir"}
  /\ UNCHANGED outcome

End ==
  /\ outcome = "running"
  /\ outcome' \in {"text", "exception"}
  /\ UNCHANGED result

Next == Write \/ End

Spec == Init /\ [][Next]_vars

=============================================================================
