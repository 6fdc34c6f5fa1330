\* Three keys, one user with a limit of two peers that expire after a tick.
CONSTANTS
    k1 = k1
    k2 = k2
    k3 = k3
    alice = alice
    Admin = Admin
    Keys <- MCKeys
    Owners <- MCOwners
    PoolSize = 8
    MaxPerOwner = 2
    TTL = 1
    MaxTime = 2
    MaxFaults = 2
SPECIFICATION FairSpec
INVARIANTS
    TypeOK
    UniquePeers
    MemoryIsDisk
    NoAddressTakeover
    WithdrawnStaysOut
    GrantedCanConnect
    OnlyFailedCreatesLeak
PROPERTIES
    ImplementsRegistry
    ExpiredPeersLeave
