SPECIFICATION MLFairSpec
CONSTANTS
    Tile = {t1, t2}
    Replica = {m1}
    None = None
    Request = {}
    MAX_TILE_ATTEMPTS = 2
    FaultKinds = {"delivery", "upload", "worker", "crash", "consumer", "commit", "reaper", "storage"}
    MaxFaults = 1
    SlowUpload = TRUE
INVARIANTS
    MLTypeOK
    FinishedOnce
    SourceKept
PROPERTIES
    MLJobSettles
    BlobsSwept
CHECK_DEADLOCK FALSE
