SPECIFICATION Spec
CONSTANTS
    Trackers = {a, b}
    None = None
    Mode = "gate"
    Findings = {"clear", "pending"}
    Answers = {"failed", "done"}
    Hitches = {}
    Ids = {1, 2}
    MaxResults = 1
    MaxFaults = 0
    MaxLapses = 0
SYMMETRY Symmetry
CHECK_DEADLOCK FALSE
INVARIANT LineageCurrent
PROPERTY SendsUnderReview
