SPECIFICATION Spec
CONSTANTS
    None = None
    Workflow = {w1, w2}
    Content = {c1}
    Site = {t1}
    MaxAttempts = 2
    MaxOperations = 2
    MaxFence = 3
SYMMETRY Symmetry
CHECK_DEADLOCK FALSE
INVARIANTS
    Protected
    AcceptedOnce
    UnresolvedIsFenced
PROPERTIES
    DeliversAtMostOnce
