SPECIFICATION Spec
CONSTANTS
    r1 = r1
    r2 = r2
    tom = tom
    ann = ann
    Requests <- Handlers
    MaxLinks = 2
    Addresses <- Recipients
    NoOne = NoOne
    MaxRequests = 3
SYMMETRY ShareSymmetry
INVARIANTS
    OpenedOnce
    OneStance
    SentWasMailed
    SendRespectsOptOut
CHECK_DEADLOCK FALSE
