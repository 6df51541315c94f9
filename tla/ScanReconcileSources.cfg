SPECIFICATION Spec
CONSTANTS
    m1 = m1
    m2 = m2
    j1 = j1
    j2 = j2
    j3 = j3
    j4 = j4
    j5 = j5
    j6 = j6
    NoJob = NoJob
    NoDoc = NoDoc
    NoPath = NoPath
    Media <- OneVideo
    JobIds <- FourJobs
    MaxScans = 2
    MaxLosses = 1
    Keep = 1
SYMMETRY Symmetry
INVARIANTS
    OutputsNeverSources
CHECK_DEADLOCK FALSE
