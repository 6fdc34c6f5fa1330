\* Two IPv4 addresses and one IPv6 address, which may be missing; one word of an error page;
\* one call of fetchData.
CONSTANTS
    a1 = a1
    a2 = a2
    b1 = b1
    f1 = f1
    w1 = w1
    Unknown = Unknown
    None = None
    V4 <- MCV4
    V6 <- MCV6
    Words <- MCWords
    Endpoints <- MCEndpoints
    Fetches <- MCFetches
    MaxRetries = 2
    MaxChanges = 1
    MaxFaults = 1
SPECIFICATION FairSpec
INVARIANTS
    TypeOK
    ChangesAreReal
PROPERTIES
    DashboardCatchesUp
