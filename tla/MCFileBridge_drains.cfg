\* Liveness: one process that restarts once, files can be removed.
SPECIFICATION FairSpec
CONSTANTS
    Client = {c1}
    Op = {o1, o2}
    MaxBoot = 2
    MaxSeq = 1
    NoOp = NoOp
    NoName = NoName
    MayFail = FALSE
PROPERTIES
    DeliversCommands
    MailboxDrains
