SPECIFICATION FairSpec
CONSTANTS
    e1 = e1
    e2 = e2
    k1 = k1
    k2 = k2
    w1 = w1
    w2 = w2
    q1 = q1
    q2 = q2
    Events = {e1}
    Consumers <- TwoConsumers
    Workers <- TwoWorkers
    Runners = {}
    RateCap = 1
    MaxRetries = 2
    MaxAttempts = 2
    MaxDays = 1
    MaxFaults = 2
PROPERTIES
    EverySettles
    OutboxSettles
CHECK_DEADLOCK FALSE
