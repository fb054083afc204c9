------------------------- MODULE MCExecutionJournal -------------------------
(* Instances of ExecutionJournal for TLC. *)
EXTENDS ExecutionJournal
=============================================================================
