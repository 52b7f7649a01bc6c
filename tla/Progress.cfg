SPECIFICATION FairSpec
CONSTANTS
    None = None
    Reporter = {r1, r2}
    MaxItem = 2
    Stride = 4
    Reported = {"running", "completed", "failed"}
    MaxReports = 3
    MaxLost = 1
CHECK_DEADLOCK FALSE
INVARIANTS
    AcceptedIsPersisted
    EventsMatchRecord
PROPERTIES
    PendingIsFlushed
    CloseReturns
    OutcomeIsLast
