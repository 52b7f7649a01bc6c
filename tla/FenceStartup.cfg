SPECIFICATION Spec
CONSTANTS
    None = None
    Workflow = {w1}
    Content = {c1}
    Site = {t1}
    MaxAttempts = 1
    MaxOperations = 1
    MaxFence = 2
CHECK_DEADLOCK FALSE
INVARIANTS
    StartupRemovesRetryBlocks
