SPECIFICATION Spec
CONSTANTS
    j1 = j1
    j2 = j2
    w1 = w1
    w2 = w2
    Jobs = {j1, j2}
    Workers = {w1, w2}
    NoWorker = NoWorker
    NoJob = NoJob
    Priority <- MCPriority
    MaxAttempts = 2
    Batch = 2
    ParkBudget = 1
    Faults <- FaultKinds
    MaxFaults = 1
SYMMETRY WorkerSymmetry
INVARIANTS RetryBudget HeldOnce AttemptsWithinMax
PROPERTIES TerminalIsFinal ImplementsContract
