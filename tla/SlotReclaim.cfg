SPECIFICATION FairSpec
CONSTANTS
    o1 = o1
    o2 = o2
    s1 = s1
    s2 = s2
    k1 = k1
    k2 = k2
    None = None
    Process = {p1, p2}
    Owner = {o1, o2}
    Source = {s1, s2}
    Workflow = {w1}
    Key = {k1, k2}
    TTL = 1
    Requests <- SingleRequests
    MaxRevision = 3
    MaxFaults = 0
CHECK_DEADLOCK FALSE
PROPERTIES
    
    CallsReturn
