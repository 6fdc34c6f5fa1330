\* A line whose addresses never change, and one outage.
CONSTANTS
    a1 = a1
    a2 = a2
    b1 = b1
    f1 = f1
    w1 = w1
    Unknown = Unknown
    None = None
    V4 <- MCV4
    V6 <- MCV6
    Words = {}
    Endpoints <- MCEndpoints
    Fetches <- MCFetches
    MaxRetries = 2
    MaxChanges = 0
    MaxFaults = 1
SPECIFICATION Spec
INVARIANTS
    ChangeMeansChanged
