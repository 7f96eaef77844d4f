CONSTANTS
    j1 = j1
    w1 = w1
    w2 = w2
    NoJob = NoJob
    Jobs <- OneJob
    Workers <- TwoWorkers
    Cap = 1
    MaxRetries = 2
    LongJobs = TRUE
    MaxCopies = 1
    Faults <- FaultKinds
    MaxFaults = 1
SPECIFICATION FairSpec
INVARIANTS CompleteHasResult Accounted AnnouncedOnce
PROPERTIES CompleteIsFinal Settles
