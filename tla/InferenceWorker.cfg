SPECIFICATION FairSpec
CONSTANTS
    Replica = {r1, r2}
    None = None
    LastMessage = 3
    Broken = {2}
    INFERENCE_BATCH_SIZE = 2
    INFERENCE_MAX_QUEUE = 2
    INFERENCE_RESUME_QUEUE = 1
    FaultKinds = {"rebalance", "crash", "commit", "batch", "delivery"}
    MaxFaults = 1
INVARIANTS
    TypeOK
    QueueBounded
PROPERTIES
    TaskDelivery
    BackpressureReleased
CHECK_DEADLOCK FALSE
