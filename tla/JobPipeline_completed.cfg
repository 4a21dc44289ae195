SPECIFICATION Spec
CONSTANTS
    Tile = {t1}
    Replica = {m1}
    None = None
    Request = {h1}
    MAX_TILE_ATTEMPTS = 2
    FaultKinds = {}
    MaxFaults = 0
    SlowUpload = TRUE
SYMMETRY Symmetry
PROPERTIES
    CompletedIsFinal
CHECK_DEADLOCK FALSE
