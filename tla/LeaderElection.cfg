SPECIFICATION FairSpec
CONSTANTS
    Replica = {r1, r2}
    None = None
    Orphan = Orphan
    TTL = 2
    MaxCall = 2
    Interference = TRUE
    MaxFaults = 2
INVARIANTS
    TypeOK
    OverlapBounded
PROPERTIES
    LockLostByOwner
    LeadershipRegained
