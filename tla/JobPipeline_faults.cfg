SPECIFICATION FairSpec
CONSTANTS
    Tile = {t1, t2}
    Replica = {m1}
    None = None
    Request = {}
    MAX_TILE_ATTEMPTS = 2
    FaultKinds = {"delivery", "upload", "worker", "crash", "reaper", "commit", "storage"}
    MaxFaults = 1
    SlowUpload = TRUE
INVARIANTS
    TypeOK
    DegradedOnlyWhenHopeless
PROPERTIES
    JobSettles
CHECK_DEADLOCK FALSE
