---------------------------- MODULE MCLiveDeploy ----------------------------
(* Instances of LiveDeploy for TLC. *)
EXTENDS LiveDeploy

\* A device and its link to one that is there, then one more device.
TwoPlans  == <<<<"d1", "l">>, <<"d2">>>>
OneEnd    == [i \in {"l"} |-> {"d1"}]

\* Two devices and their link.
OnePlan   == <<<<"d1", "d2", "l">>>>
BothEnds  == [i \in {"l"} |-> {"d1", "d2"}]
=============================================================================
