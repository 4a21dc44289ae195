SPECIFICATION Spec
CONSTANTS
    Worker = {w1}
    Replica = {m1, m2}
    SECOND = 2
    HEARTBEAT_INTERVAL = 4
    HEARTBEAT_TIMEOUT = 12
    MaxLag = 1
    MaxStall = 1
    MaxTime = 18
    MaxFaults = 1
    None = None
SYMMETRY Symmetry
INVARIANTS
    TypeOK
    NoResurrection
    SteadyIsListed
PROPERTIES
    HealthyIsAlive
CHECK_DEADLOCK FALSE
