------------------------------ MODULE MCDaemon ------------------------------
(***************************************************************************)
(* Instances of Daemon for TLC.  Tasks and handler threads are             *)
(* interchangeable: no definition names one, so runs without liveness use  *)
(* their permutations.                                                     *)
(***************************************************************************)
EXTENDS Daemon, TLC

Symmetry == Permutations(Tasks) \cup Permutations(Handlers)

=============================================================================
