-------------------------- MODULE MCRunCoordinator --------------------------
(* Instances of RunCoordinator for TLC. *)
EXTENDS RunCoordinator
=============================================================================
