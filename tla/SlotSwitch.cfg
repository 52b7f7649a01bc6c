SPECIFICATION Spec
CONSTANTS
    o1 = o1
    o2 = o2
    s1 = s1
    s2 = s2
    k1 = k1
    k2 = k2
    None = None
    Process = {p1, p2}
    Owner = {o1, o2}
    Source = {s1, s2}
    Workflow = {w1, w2}
    Key = {k1, k2}
    TTL = 1
    Requests <- MixedRequests
    MaxRevision = 5
    MaxFaults = 1
SYMMETRY Symmetry
CHECK_DEADLOCK FALSE
CONSTRAINT Bounded
INVARIANTS
    UncertaintyIsolated
    CommittedInputKept
    WorkStaysWithInput
    FenceNamesHolder
    PendingSwitchIsQuiet
PROPERTIES
    TenureDiscipline
    RowPromise
