SPECIFICATION FairSpec
CONSTANTS
    Worker = {w1, w2}
    None = None
    LastMessage = 2
    max_retries = 2
    FaultKinds = {"process", "produce", "timeout", "delivery", "evict", "commit", "signal", "crash", "dlq"}
    MaxFaults = 2
INVARIANTS
    TypeOK
    AnswersBounded
PROPERTIES
    TaskDelivery
CHECK_DEADLOCK FALSE
