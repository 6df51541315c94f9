SPECIFICATION Spec
CONSTANTS
    r1 = r1
    r2 = r2
    s1 = s1
    s2 = s2
    s3 = s3
    j1 = j1
    j2 = j2
    NoRunner = NoRunner
    NoSocket = NoSocket
    NoJob = NoJob
    Runners <- OneRunner
    Sockets <- ThreeSockets
    Jobs <- TwoJobs
    MaxAssign = 2
SYMMETRY Symmetry
INVARIANTS
    TypeOK
    ExclusiveLease
PROPERTIES
    CancelTargetsStopped
    LeaseSpec
CHECK_DEADLOCK FALSE
