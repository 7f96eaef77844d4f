SPECIFICATION FairClaimSpec
CONSTANTS
    j1 = j1
    j2 = j2
    j3 = j3
    j4 = j4
    w1 = w1
    w2 = w2
    tA = tA
    tB = tB
    Jobs = {j1, j2, j3, j4}
    Workers = {w1, w2}
    Tenants = {tA, tB}
    TenantOf <- TwoTenants
    NoWorker = NoWorker
    NoJob = NoJob
    Priority <- EqualPriority
    MaxAttempts = 1
    Batch = 2
    PerTenant = 2
    ParkBudget = 1
    Faults <- CrashOnly
    MaxFaults = 1
CONSTRAINT FirstAttempts
SYMMETRY TwoTenantSymmetry
INVARIANTS SoftCap
PROPERTIES RoundRobin
