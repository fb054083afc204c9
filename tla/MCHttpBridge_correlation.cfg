\* Two operations in a batch of two.
SPECIFICATION Spec
CONSTANTS
    Ask = {r1, r2}
    Tell = {}
    NoBody = NoBody
    MaxQueueItems = 2
    MaxResultItems = 2
    MaxBatch = 2
    MayLose = FALSE
INVARIANT AnswerIsCorrelated
CHECK_DEADLOCK FALSE
