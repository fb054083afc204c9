\* Sends of a security plan may fail, raise, or report failure although they
\* arrive; the controller of the phones may stop once.
SPECIFICATION Spec
CONSTANTS
    Policies <- PoliciesMC
    PolicyBatch <- PolicyBatchMC
    PolicyDepends <- PolicyDependsMC
    Denies = {"attach", "snoop"}
    Readable = {"attach"}
    Recovers = {"attach"}
    MayDoubt = TRUE
    MayRaise = TRUE
    Records <- RecordsMC
    RecordBatch <- RecordBatchMC
    RecordDepends <- RecordDependsMC
    Expectations <- Order
    KindOf <- Kind
    ActionOf <- Anchor
    ServiceOf <- Owner
    ClientOf <- Asker
    AddressOf <- Rising
    Mentions <- Parts
    Needs <- Alone
    Calls <- ThreeCalls
    MaxRestarts = 1
INVARIANTS
    VerifiedIsSo
    LateScriptFindsItsGround
    EvidenceIsItsOwn
    VerifiedCallWasMade
PROPERTY DriverEnds
CHECK_DEADLOCK FALSE
