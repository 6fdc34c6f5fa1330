\* Nothing fails: the reconciler races with a request or a sign-in.
CONSTANTS
    alice = alice
    s1 = s1
    s2 = s2
    None = None
    Users <- MCUsers
    Sids <- MCSids
    MaxPeers = 1
    Rotates = FALSE
    RefusesClient = FALSE
    PeersExpire = FALSE
    MaxTokens = 2
    MaxFaults = 0
    MaxRestarts = 0
SPECIFICATION Spec
INVARIANTS
    RevocationIsComplete
