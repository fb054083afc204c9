\* Three devices, one with a module, and two cables; the workspace may have to be
\* empty or not, and unanswered commands may stay queued.
SPECIFICATION Spec
CONSTANTS
    NDevices = 3
    Modular = {1}
    Ends <- TwoCables
    MayQueue = TRUE
INVARIANTS
    VerifiedIsPresent
    RestoredIsBaseline
    ForeignStateSurvives
    NoDuplicateDevice
    CreatedIsOwned
CHECK_DEADLOCK FALSE
