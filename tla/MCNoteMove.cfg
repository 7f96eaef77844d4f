SPECIFICATION Spec
CONSTANTS
    t1 = t1
    t2 = t2
    t3 = t3
    w1 = w1
    w2 = w2
    Workspaces = {t1, t2, t3}
    Home = t1
    Nowhere = Nowhere
    Jobs = {1, 2, 3}
    Workers = {w1, w2}
    NoJob = 0
    MaxRuns = 3
INVARIANTS HomeUndisturbed CopyRemains StubsLead RehomingIsServed
SYMMETRY Symmetry
CONSTRAINT Bounded
CHECK_DEADLOCK FALSE
