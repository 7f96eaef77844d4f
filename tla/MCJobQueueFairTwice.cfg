SPECIFICATION FairClaimSpec
CONSTANTS
    j1 = j1
    j2 = j2
    j3 = j3
    j4 = j4
    w1 = w1
    w2 = w2
    tA = tA
    tB = tB
    Jobs = {j1}
    Workers = {w1, w2}
    Tenants = {tA, tB}
    TenantOf <- OneTenant
    NoWorker = NoWorker
    NoJob = NoJob
    Priority <- EqualPriority
    MaxAttempts = 1
    Batch = 1
    PerTenant = 1
    ParkBudget = 1
    Faults <- NoFaults
    MaxFaults = 0
INVARIANTS HeldOnce
