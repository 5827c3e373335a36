SPECIFICATION Spec
CONSTANTS
    Ids = {s1}
    Users = {u1}
    Requests = {r1}
    None = None
    Sliding = 2
    Absolute = 3
    MaxTime = 4
SYMMETRY Symmetry
CHECK_DEADLOCK FALSE
INVARIANT CookieKept
