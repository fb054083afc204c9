\* The first stage and a later one; payloads may run late, be rejected, or be
\* reported as refused although they are on their way.
SPECIFICATION Spec
CONSTANTS
    Plan <- PlanOfFive
    PhaseOf <- Phases5
    DeviceOf <- Devices5
    DependsOn <- Depends5
    Expects <- Expects5
    Mute = {"ap"}
    Critical = {"vlan"}
    Voice = {"phone"}
    Ports = {"phone", "access"}
    VoicePlan <- PlanOfPhones
    VoiceBatch <- BatchOfPhones
    VoiceDepends <- DependsPhones
    Bindings = {"a", "b"}
    Calls <- CallAB
    ControlPlan <- PlanOfTree
    ControlBatch <- BatchTree
    ControlDepends <- DependsTree
    ControlExpects <- ExpectsTree
    Scenarios <- OneScenario
    AnchorOf <- AnchorTree
    Survives = {}
    VoiceNeeds = {"vlan"}
    ControlNeeds = {"vlan", "host"}
    MayDoubt = TRUE
    Scopes <- TwoStages
INVARIANTS
    VerifiedStageIsThere
    VoiceSignalHasItsGround
    ControlPlaneHasItsGround
    NothingIsReplayed
    DependenciesGoFirst
    FaultIsFollowedByRestore
PROPERTY NoBindingIsRewritten
CHECK_DEADLOCK FALSE
