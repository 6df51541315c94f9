SPECIFICATION FairSpec
CONSTANTS
    s1 = s1
    s2 = s2
    t1 = t1
    t2 = t2
    t3 = t3
    NoSocket = NoSocket
    NoTask = NoTask
    Sockets <- TwoSockets
    Tasks <- ThreeTasks
INVARIANTS
    TypeOK
    WorkBelongsToConnection
PROPERTIES
    CancelIsAnswered
    KeepsTrying
CHECK_DEADLOCK FALSE
