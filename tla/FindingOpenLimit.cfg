SPECIFICATION Spec
CONSTANTS
    Apps = {a1, a2}
    Users = {owner}
    Reviewers = {}
    Admins = {}
    Profiles = {p1}
    Requests = {r1, r2}
    None = None
    MaxOpen = 1
    RequireReview = FALSE
    MaxClients = 1
    MaxSecrets = 1
    FaultKinds = {}
    MaxFaults = 0
INVARIANT OpenWithinLimit
CHECK_DEADLOCK FALSE
