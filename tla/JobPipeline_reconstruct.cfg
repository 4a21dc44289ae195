SPECIFICATION Spec
CONSTANTS
    Tile = {t1, t2}
    Replica = {m1}
    None = None
    Request = {h1}
    MAX_TILE_ATTEMPTS = 2
    FaultKinds = {"request", "consumer", "storage"}
    MaxFaults = 1
    SlowUpload = TRUE
SYMMETRY Symmetry
INVARIANTS
    SourceKept
    CountNeverAhead
PROPERTIES
    ReadyOnlyWhenComplete
CHECK_DEADLOCK FALSE
