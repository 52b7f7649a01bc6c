SPECIFICATION FairSpec
CHECK_DEADLOCK FALSE
CONSTANTS
    None = None
    r1 = r1
    r2 = r2
    Client = {c1, c2}
    Request = {r1, r2}
    Media = {r2}
    Answer = {f1, f2}
    Fingerprints <- Distinct
    Stages = 2
    MaxAsks = 2
    TransitionLimit = 3
    MaxOperations = 3
    Budget = 2
CONSTRAINT Bounded
INVARIANTS OneRunPerAnswer RunMatchesSession EndedRunIsFree
PROPERTIES AnswersResume
