\* More operations than slots, than places in the queue and than a batch
\* holds; anything on the network may be lost.
SPECIFICATION FairSpec
CONSTANTS
    Ask = {r1, r2}
    Tell = {t1}
    NoBody = NoBody
    MaxQueueItems = 2
    MaxResultItems = 1
    MaxBatch = 2
    MayLose = TRUE
INVARIANTS
    AnswerIsFromOwnBatch
PROPERTIES
    DeliversCommands
    AwaitedSlotIsKept
    QueuedIsEvaluated
CHECK_DEADLOCK FALSE
