------------------------ MODULE MCPhysicalDeployment ------------------------
(* Instances of PhysicalDeployment for TLC: cables between neighbours. *)
EXTENDS PhysicalDeployment

TwoCables == <<{1, 2}, {2, 3}>>
=============================================================================
