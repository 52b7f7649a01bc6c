SPECIFICATION Spec
CONSTANTS
    None = None
    Workflow = {w1}
    Process = {p1, p2}
    MaxOperations = 1
    MaxFence = 2
    MaxSequence = 2
    MaxFaults = 1
    Steady = FALSE
SYMMETRY Symmetry
CHECK_DEADLOCK FALSE
INVARIANTS
    CheckpointFollowsRecord
    WorkerHasLease
    CommandKept

    
