SPECIFICATION FairSpec
CONSTANTS
    None = None
    Proc = {p1}
    Request = {r1}
    Config <- MCConfig
    Env <- MCEnv
    Broken <- MCBroken
    MaxStarts = 2
    MaxSaves = 2
    MaxTasks = 3
    MaxLapses = 1
CHECK_DEADLOCK FALSE
INVARIANTS
    EffectsUnderActive
    PreparedUnderActive
    PendingIsCurrent
PROPERTIES
    PendingResolves
    
