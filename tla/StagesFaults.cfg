SPECIFICATION Spec
CONSTANTS
    Trackers = {a}
    None = None
    Mode = "gate"
    Findings = {"clear"}
    Answers = {"failed", "unknown", "partial", "doubtful"}
    Hitches = {"prepare", "hostUnknown"}
    Ids = {1, 2}
    MaxResults = 2
    MaxFaults = 1
    MaxLapses = 1
SYMMETRY Symmetry
CONSTRAINT OneMishap
CHECK_DEADLOCK FALSE
INVARIANT ReportedWasSent
 
PROPERTY RecoveryLeavesBacked
