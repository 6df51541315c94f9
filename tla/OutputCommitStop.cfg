SPECIFICATION Spec
CONSTANTS
    a1 = a1
    a2 = a2
    NoJob = NoJob
    Attempts <- TwoAttempts
    MaxCrashes = 3
    MaxFaults = 2
PROPERTY
    StopSurvivesRestart
CHECK_DEADLOCK FALSE
