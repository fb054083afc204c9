---------------------------- MODULE MCFileBridge ----------------------------
(* Instances of FileBridge for TLC. *)
EXTENDS FileBridgeInv, TLC

\* Processes and operations are interchangeable; only for the run that
\* checks no liveness.
Symmetry == Permutations(Client) \cup Permutations(Op)
=============================================================================
