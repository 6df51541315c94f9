SPECIFICATION FairSpec
CONSTANTS
    q1 = q1
    q2 = q2
    Scan = Scan
    Tick = Tick
    Transcode = Transcode
    NoJob = NoJob
    Requests <- OneRequest
    MaxFaults = 1
INVARIANTS
    TypeOK
    ClosedGatesStayClosed
    PersistenceOutlivesWork
    CleanExitIsEarned
    ReadyMeansServing
PROPERTIES
    EnqueueIsNoticed
    ShutdownEnds
CHECK_DEADLOCK FALSE
