SPECIFICATION FairSpec
CONSTANTS
    None = None
    Workflow = {w1}
    Process = {p1, p2}
    MaxOperations = 1
    MaxFence = 2
    MaxSequence = 3
    MaxFaults = 0
    Steady = TRUE
CHECK_DEADLOCK FALSE
PROPERTIES
    OperationSettles
