\* A provider that may rotate refresh tokens and may refuse the service; two sign-ins
\* of one user.
CONSTANTS
    alice = alice
    s1 = s1
    s2 = s2
    None = None
    Users <- MCUsers
    Sids <- MCSids
    MaxPeers = 1
    Rotates = TRUE
    RefusesClient = TRUE
    PeersExpire = TRUE
    MaxTokens = 3
    MaxFaults = 1
    MaxRestarts = 1
SPECIFICATION FairSpec
INVARIANTS
    TypeOK
    OwnersAreRecorded
    MembersKeepPeers
PROPERTIES
    LeaversLosePeers
