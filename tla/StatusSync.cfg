SPECIFICATION FairSpec
CONSTANTS
    History <- MCHistory
    Subjects = {u1, u2}
    Requests = {r1, r2}
    None = None
    MaxEvents = 2
    MaxFaults = 1
CHECK_DEADLOCK FALSE
INVARIANTS
    TypeOK
    SubjectStable
    FreshDecision
    InvalidatedStaysOut
    ProgressAccepted
PROPERTIES
    ChangesArrive
    StaleProgressEnds
