SPECIFICATION FairSpec
CONSTANTS
    a1 = a1
    a2 = a2
    NoJob = NoJob
    Attempts <- TwoAttempts
    MaxCrashes = 3
    MaxFaults = 2
INVARIANTS
    TypeOK
    OriginalRecoverable
    LeftoversNamed
    RestingDiskAgrees
    NothingHalfOwned
PROPERTIES
    ForeignFinalKept
    OnlyOriginalsTranscoded
    PromiseSpec
    OwnerReleased
CHECK_DEADLOCK FALSE
