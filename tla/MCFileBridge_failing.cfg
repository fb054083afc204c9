\* One process that restarts once; any file operation may fail.
SPECIFICATION Spec
CONSTANTS
    Client = {c1}
    Op = {o1, o2}
    MaxBoot = 2
    MaxSeq = 2
    NoOp = NoOp
    NoName = NoName
    MayFail = TRUE
SYMMETRY Symmetry
INVARIANTS
    AnswerIsOwn
    ReportedWasEvaluated
    OwnRequestsAreTracked
    AtMostOneEvaluationAfterRetirement
