SPECIFICATION Spec
CONSTANTS
    Ids = {s1}
    Users = {u1}
    Requests = {r1, r2, r3}
    None = None
    Sliding = 2
    Absolute = 3
    MaxTime = 4
SYMMETRY Symmetry
CHECK_DEADLOCK FALSE
INVARIANTS
    TypeOK
    LogoutFinal
    VerifiedKept
    AbsoluteBound
    IdleBound
    KeyOutlivesExpiry
