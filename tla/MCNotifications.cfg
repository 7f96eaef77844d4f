SPECIFICATION Spec
CONSTANTS
    e1 = e1
    e2 = e2
    k1 = k1
    k2 = k2
    w1 = w1
    w2 = w2
    q1 = q1
    q2 = q2
    Events <- TwoEvents
    Consumers = {k1}
    Workers <- TwoWorkers
    Runners <- TwoRunners
    RateCap = 1
    MaxRetries = 1
    MaxAttempts = 2
    MaxDays = 2
    MaxFaults = 1
SYMMETRY ServiceSymmetry
INVARIANTS
    MailedOnce
    LettersAreTrue
PROPERTIES
    NoFactLost
CHECK_DEADLOCK FALSE
