SPECIFICATION Spec
CONSTANTS
    Actor = {"upload", "listener", "reaper", "reconstruct", "admin"}
    MAX_RETRIES = 2
    MaxFaults = 2
    Tile = {t1}
    MaxCalls = 4
    MaxBusy = 2
    None = None
INVARIANTS
    TypeOK
    EveryKeyExpires
    CountExplained
    NeverUndercounts
PROPERTIES
    NuclearKeepsJobs
CHECK_DEADLOCK FALSE
