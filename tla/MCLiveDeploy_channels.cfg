\* Two deployments, one after the other; an executor may stop, or a request slip.
SPECIFICATION FairSpec
CONSTANTS
    Plan <- TwoPlans
    Probe = "probe"
    Device = {"d1", "d2"}
    Ends <- OneEnd
    Chunk = 2
    MaxBatch = 2
    MaxFaults = 1
INVARIANTS
    ReportedIsPresent
    RepeatedForCause
    EarlierIsOver
PROPERTY DeploymentEnds
CHECK_DEADLOCK FALSE
