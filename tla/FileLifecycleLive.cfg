SPECIFICATION FairSpec
CONSTANTS
    adj = adj
    ovr = ovr
    Probe = Probe
    NoJob = NoJob
    NoSetting = NoSetting
    Settings <- BothModes
    Overwrites <- JustOver
    MaxGens = 1
    MaxLosses = 1
PROPERTIES
    OwnerReleased
    JobsSettle
CHECK_DEADLOCK FALSE
