\* One lost answer of a provider that rotates refresh tokens.
CONSTANTS
    alice = alice
    s1 = s1
    s2 = s2
    None = None
    Users <- MCUsers
    Sids <- MCSids
    MaxPeers = 1
    Rotates = TRUE
    RefusesClient = FALSE
    PeersExpire = FALSE
    MaxTokens = 2
    MaxFaults = 1
    MaxRestarts = 0
SPECIFICATION Spec
INVARIANTS
    OutageKeepsPeers
