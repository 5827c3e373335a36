SPECIFICATION Spec
CONSTANTS
    Users = {u1, u2}
    Flows = {f1}
    Requests = {r1, r2}
    Scopes <- MCScopes
    Asked <- MCAsked
    None = None
    MaxArrivals = 3
SYMMETRY Interchangeable
CHECK_DEADLOCK FALSE
INVARIANTS
    TypeOK
    GrantedByOwner
    LoginAsRemembered
    ServedWhileAllowed
    ConsentRecorded
    ConsentBacked
