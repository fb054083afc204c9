\* A link that could not be made.
SPECIFICATION Spec
CONSTANTS
    Plan <- OnePlan
    Probe = "probe"
    Device = {"d1", "d2"}
    Ends <- BothEnds
    Chunk = 2
    MaxBatch = 2
    MaxFaults = 0
INVARIANT NothingIsAddedTwice
CHECK_DEADLOCK FALSE
