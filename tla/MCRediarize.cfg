CONSTANTS
    w1 = w1
    w2 = w2
    Workers <- TwoWorkers
    MaxRequests = 3
    MaxRuns = 2
    MaxRetries = 2
    Faults <- FaultKinds
    MaxFaults = 1
SPECIFICATION FairSpec
INVARIANTS LabellingsExist NamesFit
PROPERTIES RevisionNamesLabels FailedForCause RerunSettles
CHECK_DEADLOCK FALSE
