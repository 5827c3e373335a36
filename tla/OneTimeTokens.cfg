SPECIFICATION Spec
CONSTANTS
    Events = {e1}
    States = {s1}
    Handlers = {h1, h2}
    MaxSkew = 2
    EventLife = 5
    Window = 2
    MaxDrift = 2
    MaxTime = 6
    NoToken = NoToken
SYMMETRY Interchangeable
CHECK_DEADLOCK FALSE
INVARIANTS
    TypeOK
    VerifiedOnce
    AppliedOnce
    LoginStateOnce
