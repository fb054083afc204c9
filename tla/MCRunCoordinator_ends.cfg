\* Three stages, the last of them REMAINING, and up to two interruptions.
SPECIFICATION Spec
CONSTANTS
    Stages = 3
    HasRemaining = TRUE
    MaxInterrupts = 2
INVARIANTS
    CompletedLeavesNothing
    NoErrorIsLost
    EvidenceIsCurrent
    InterruptedRunIsCleanedUp
CHECK_DEADLOCK FALSE
