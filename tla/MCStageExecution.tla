--------------------------- MODULE MCStageExecution ---------------------------
EXTENDS StageExecution, TLC

\* A VLAN, a phone port and a host port on a switch, the host, and an access
\* point, which has no address getters.
PlanOfFive == <<"vlan", "phone", "access", "host", "ap">>
Phases5    == ("vlan" :> 1) @@ ("phone" :> 2) @@ ("access" :> 2) @@ ("host" :> 3)
              @@ ("ap" :> 3)
Devices5   == ("host" :> "pc") @@ ("ap" :> "ap")
              @@ [a \in {"vlan", "phone", "access"} |-> "sw"]
Depends5   == ("vlan" :> {}) @@ ("host" :> {"access"})
              @@ ("ap" :> {}) @@ [a \in {"phone", "access"} |-> {"vlan"}]
Expects5   == ("vlan" :> "foundation")
              @@ [a \in {"host", "ap"} |-> "endpoint"]
              @@ [a \in {"phone", "access"} |-> "other"]

\* A call control and two phones that call each other.
PlanOfPhones  == <<"cme", "a", "b">>
BatchOfPhones == ("cme" :> 1) @@ ("a" :> 2) @@ ("b" :> 2)
DependsPhones == ("cme" :> {}) @@ ("a" :> {"cme"}) @@ ("b" :> {"cme"})
CallAB        == {<<"a", "b">>}

\* Spanning tree, and the loss of an uplink.
PlanOfTree == <<"stp">>
BatchTree  == ("stp" :> 1)
DependsTree == ("stp" :> {})
ExpectsTree == ("stp" :> {"observed"})
OneScenario == <<"uplink">>
AnchorTree  == ("uplink" :> "stp")

\* A stage that adds a VLAN, where the access point is from the stage before,
\* and one that adds a host and the access point.
TwoStages ==
    { [configuration |-> Range(PlanOfFive) \ {"ap"}, voice |-> Range(PlanOfPhones),
       control |-> {"stp"}],
      [configuration |-> {"access", "host", "ap"}, voice |-> {}, control |-> {"stp"}] }
=============================================================================
