------------------------------- MODULE Models -------------------------------
(***************************************************************************)
(* The task states of yakyoke/models.py, shared by every other module.     *)
(* "absent" is not a state of the code: it marks a task id whose row has   *)
(* not been inserted.  WAITING_FOR_CHILDREN is reserved by the code for a  *)
(* later version and assigned nowhere, so no model state carries it.       *)
(***************************************************************************)

\* Task.is_terminal: the states the API reports as finished.
Terminal == {"done", "failed", "cancelled"}

\* TaskStatus, without the reserved member.
Status == {"pending", "running"} \cup Terminal

\* Queue.cancel applies to these.
Cancellable == {"pending", "running"}

=============================================================================
