SPECIFICATION Spec
CONSTANTS
    None = None
    Key = {k1, k2}
    Value = {d1, d2, v1}
    Volatile = {v1}
    Permanent = {d2}
    MaxCrashes = 1
    MaxFaults = 1
INVARIANTS
    SpentIsGone
    ReleasedIsGone
    StoredIsKept
