SPECIFICATION Spec
CONSTANTS
    Tile = {t1, t2}
    Replica = {m1, m2}
    None = None
    Request = {}
    MAX_TILE_ATTEMPTS = 2
    FaultKinds = {"handoff", "crash"}
    MaxFaults = 1
    SlowUpload = FALSE
SYMMETRY Symmetry
INVARIANTS
    CommittedIsRecorded
    DispatchBound
    ReadyIsOwed
CHECK_DEADLOCK FALSE
