SPECIFICATION Spec
CONSTANTS
    c1 = c1
    w1 = w1
    w2 = w2
    Jobs = {1, 2}
    Workers = {w1, w2}
    Clients = {c1}
    NoJob = 0
    MaxRuns = 2
    MaxPerDay = 2
    MaxEdits = 1
    MaxTexts = 2
    Faults <- FaultKinds
    MaxFaults = 1
INVARIANTS SnapshotBacked UsageKept NewestShownInTime LiveIsServed TranscriptOnce
PROPERTIES NothingReverted GoneIsLeftAlone
SYMMETRY WorkerSymmetry
CHECK_DEADLOCK FALSE
