SPECIFICATION Spec
CONSTANTS
    adj = adj
    ovr = ovr
    Probe = Probe
    NoJob = NoJob
    NoSetting = NoSetting
    Settings <- BothModes
    Overwrites <- JustOver
    MaxGens = 2
    MaxLosses = 1
INVARIANTS
    TypeOK
    RunningJobIsHeld
    OldGenerationEnds
    QuiescentStatusDerived
PROPERTIES
    StopHolds
    ResultWrittenByCommittingOwner
    OnlyCurrentGenerationRuns
CHECK_DEADLOCK FALSE
