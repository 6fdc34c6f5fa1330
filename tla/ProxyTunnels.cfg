\* Two requests, and one disconnect call, of two users.  The system stops when all
\* of them are done.
CONSTANTS
    r1 = r1
    r2 = r2
    alice = alice
    bob = bob
    c1 = c1
    Requests <- MCRequests
    Users <- MCUsers
    Calls <- MCCalls
SPECIFICATION FairSpec
INVARIANTS
    TypeOK
    NothingLeaks
    RegistryIsExact
PROPERTIES
    DisconnectsAreAtomic
    CancelledEnds
    HalfEndedEnds
    ConnectionsClose
CHECK_DEADLOCK FALSE
