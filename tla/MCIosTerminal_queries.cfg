\* Two queries, one of them privileged and paged.
SPECIFICATION Spec
CONSTANTS
    Query = {"neighbors", "version"}
    Rows <- FewRows
    Privileged = {"neighbors"}
    Qualified = {"neighbors"}
    Start = {"booting", "dialog", "return", "exec"}
    PageRows = 1
    Retains = 6
    MinAnchor = 2
    MaxPages = 3
    MaxAttempts = 3
    MaxTurns = 2
    MaxLost = 1
    MaxOverruns = 1
    MaxGarbled = 2
    MaxLogs = 2
INVARIANTS
    OwnOutput
    CompleteIsWhole
CHECK_DEADLOCK FALSE
