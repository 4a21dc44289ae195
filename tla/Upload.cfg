SPECIFICATION Spec
CONSTANTS
    Request = {r1, r2, r3}
    Client = {c1, c2}
    RATE_LIMIT = 1
    RATE_WINDOW = 3
    SWEEP_EVERY = 2
    MaxStall = 1
    MaxTime = 3
    MIN_TILE = 2
    MAX_TILES = 5
    HEADER_BYTES = 30
    File <- Files
    TileSizes = {3, 4}
    MIN_IMAGE_SIZE = 4
    MAX_IMAGE_DIMENSION = 9
    None = None
    MaxFaults = 1
SYMMETRY Symmetry
INVARIANTS
    TypeOK
    RateBound
    NothingLeftBehind
    NeverDecodesOversized
    LayoutCovers
PROPERTIES
    RefusedForAReason
CHECK_DEADLOCK FALSE
