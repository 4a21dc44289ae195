SPECIFICATION Spec
CONSTANTS
    Worker = {w1, w2}
    None = None
    LastMessage = 1
    max_retries = 2
    FaultKinds = {"dlq"}
    MaxFaults = 1
SYMMETRY Symmetry
INVARIANTS
    CommittedIsAnswered
CHECK_DEADLOCK FALSE
